----------------------------- MODULE SchemaInit -----------------------------
(***************************************************************************)
(* init_db of common/db.py, run by the API and by every worker as they     *)
(* start: Base.metadata.create_all in one transaction, retried when it     *)
(* fails.  create_all first asks for each table whether it exists and then *)
(* creates those that did not.                                             *)
(*                                                                         *)
(* PostgreSQL is external: DDL is transactional, a CREATE TABLE waits for  *)
(* an open transaction that created the same table, and fails when the     *)
(* table has been committed.                                               *)
(***************************************************************************)
EXTENDS Naturals, Sequences, Functions

CONSTANTS
  Processes,   \* the API and the workers
  Tables,      \* the tables of models.py in the order create_all takes them
  Retries      \* parameter of init_db

ASSUME SchemaAssumption ==
  /\ Retries \in Nat \ {0}
  /\ Tables \in Seq(Range(Tables)) /\ Tables # <<>>
  /\ \A m, n \in DOMAIN Tables : Tables[m] = Tables[n] => m = n

VARIABLES
  tables,     \* tables committed in the database
  phase,      \* what each process is doing
  stopping,   \* processes that docker stop has told to end
  todo,       \* todo[p]: tables left to look up or create, later the queues
              \* left to declare
  missing,    \* missing[p]: tables the open transaction of p found missing
  failures    \* failures[p]: failed attempts in the loop p is in

schemaVars == <<tables, phase, stopping, todo, missing, failures>>

Created(p) ==
  IF phase[p] = "creating" THEN Range(missing[p]) \ Range(todo[p]) ELSE {}

Goto(p, where, list) ==
  /\ phase' = [phase EXCEPT ![p] = where]
  /\ todo' = [todo EXCEPT ![p] = list]

(* A process that has ended is started again (restart: unless-stopped).    *)
Ended(p) == IF p \in stopping THEN "stopped" ELSE "down"

(* A process starts: its main() or lifespan() calls init_db.               *)
Start(p) ==
  /\ phase[p] = "down"
  /\ Goto(p, "checking", Tables)
  /\ failures' = [failures EXCEPT ![p] = 0]
  /\ UNCHANGED <<tables, stopping, missing>>

(* Mutant: create_all with checkfirst=False.                               *)
NotLookedFor(table) == {table}

(* has_table for the next table.                                           *)
FoundMissing(table) == {table} \ tables

(* Mutant: the tables found missing are created in no order of their own.  *)
LookUpUnordered(p) ==
  /\ phase[p] = "checking" /\ todo[p] # <<>>
  /\ \E found \in {missing[p] \o <<Head(todo[p])>>, <<Head(todo[p])>> \o missing[p]} :
       missing' = IF FoundMissing(Head(todo[p])) = {} THEN missing
                  ELSE [missing EXCEPT ![p] = found]
  /\ IF Tail(todo[p]) # <<>> THEN Goto(p, "checking", Tail(todo[p]))
                            ELSE Goto(p, "creating", missing'[p])
  /\ UNCHANGED <<tables, stopping, failures>>

LookUp(p) ==
  /\ phase[p] = "checking" /\ todo[p] # <<>>
  /\ missing' = IF FoundMissing(Head(todo[p])) = {} THEN missing
                ELSE [missing EXCEPT ![p] = Append(@, Head(todo[p]))]
  /\ IF Tail(todo[p]) # <<>> THEN Goto(p, "checking", Tail(todo[p]))
                            ELSE Goto(p, "creating", missing'[p])
  /\ UNCHANGED <<tables, stopping, failures>>

CreateTable(p) ==
  /\ phase[p] = "creating" /\ todo[p] # <<>>
  /\ Head(todo[p]) \notin tables
  /\ \A q \in Processes \ {p} : Head(todo[p]) \notin Created(q)
  /\ todo' = [todo EXCEPT ![p] = Tail(@)]
  /\ UNCHANGED <<tables, phase, stopping, missing, failures>>

(* Mutant: what was found missing is kept for the next attempt.            *)
AttemptFailsUnforgotten(p, written) ==
  /\ IF failures[p] + 1 < Retries THEN Goto(p, "checking", Tables)
                                 ELSE Goto(p, Ended(p), <<>>)
  /\ failures' = [failures EXCEPT ![p] = @ + 1]
  /\ tables' = tables \cup written
  /\ UNCHANGED <<stopping, missing>>

(* The attempt of p raises: its transaction is rolled back, but for the    *)
(* tables written that an answerless commit leaves.  The loop sleeps and   *)
(* tries again (the sleep is the time before the first look-up), or        *)
(* init_db raises and the process ends.                                    *)
AttemptFails(p, written) ==
  /\ IF failures[p] + 1 < Retries THEN Goto(p, "checking", Tables)
                                 ELSE Goto(p, Ended(p), <<>>)
  /\ missing' = [missing EXCEPT ![p] = <<>>]
  /\ failures' = [failures EXCEPT ![p] = @ + 1]
  /\ tables' = tables \cup written
  /\ UNCHANGED stopping

(* Another process has committed the table since it was looked up.         *)
TableExists(p) ==
  /\ phase[p] = "creating" /\ todo[p] # <<>>
  /\ Head(todo[p]) \in tables
  /\ AttemptFails(p, {})

(* Mutant: engine.connect() instead of engine.begin(): nothing commits.    *)
Uncommitted(p) == {}

(* What the commit of p's transaction adds.                                *)
Commit(p) == Range(missing[p])

SchemaCommit(p) ==
  /\ phase[p] = "creating" /\ todo[p] = <<>>
  /\ tables' = tables \cup Commit(p)
  /\ missing' = [missing EXCEPT ![p] = <<>>]
  /\ failures' = [failures EXCEPT ![p] = 0]
  /\ Goto(p, "connecting", <<>>)
  /\ UNCHANGED stopping

(* A database error at any point; at the commit it may have been applied.  *)
DbError(p) ==
  /\ phase[p] \in {"checking", "creating"}
  /\ \/ AttemptFails(p, {})
     \/ phase[p] = "creating" /\ todo[p] = <<>> /\ AttemptFails(p, Commit(p))

InitDb(p) ==
  \/ Start(p)
  \/ LookUp(p)
  \/ CreateTable(p)
  \/ TableExists(p)
  \/ SchemaCommit(p)

SchemaInit ==
  /\ tables = {}
  /\ phase = [p \in Processes |-> "down"]
  /\ stopping = {}
  /\ todo = [p \in Processes |-> <<>>]
  /\ missing = [p \in Processes |-> <<>>]
  /\ failures = [p \in Processes |-> 0]

InInitDb(p) == phase[p] \in {"checking", "creating"}
=============================================================================
