---------------------------- MODULE MCRetryQueue ----------------------------
(***************************************************************************)
(* Small instances of RetryQueue for TLC.  Times are scaled down: a base   *)
(* delay of 1 ms and rechecks after 1 ms stand for the 5 s and 2 s of      *)
(* common/config.py.                                                       *)
(***************************************************************************)
EXTENDS RetryQueue

CONSTANTS o1, o2
=============================================================================
