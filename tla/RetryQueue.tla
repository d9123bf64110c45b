----------------------------- MODULE RetryQueue -----------------------------
(***************************************************************************)
(* The retries of the payment worker in time: payment.queue.retry with its *)
(* per-message TTLs (common/messaging.py) and the delays _handle_failure   *)
(* (workers/base.py) asks for.  Messaging and BaseWorker leave time out.   *)
(*                                                                         *)
(* There is no clock: a tick of one millisecond makes every waiting        *)
(* message and every open order a millisecond older.  The broker is        *)
(* external: RabbitMQ discards or dead-letters an expired message only     *)
(* when it has reached the head of its queue, and does so at once then.    *)
(***************************************************************************)
EXTENDS QueueBag, Naturals, Bags, BagsExt

CONSTANTS
  Orders,
  MaxRetries,       \* settings.max_retries
  NotReadyMax,      \* settings.notready_max_retries
  RetryBaseDelay,   \* settings.retry_base_delay_seconds, in microseconds
  NotReadyDelay,    \* settings.notready_delay_seconds, in microseconds
  LongestDelay,     \* milliseconds that no delay of these settings exceeds
  MaxCrashes        \* bound on the crashes of workers

ASSUME SettingsAssumption ==
  /\ {MaxRetries, NotReadyMax, RetryBaseDelay, NotReadyDelay, MaxCrashes} \subseteq Nat
  /\ LongestDelay \in Nat
  /\ NotReadyDelay \div 1000 \in 0..LongestDelay
  /\ \A n \in 1..MaxRetries : (RetryBaseDelay * 2^(n - 1)) \div 1000 \in 0..LongestDelay

(* An order.created message: order and headers.                            *)
Message == [order : Orders, retry : 0..MaxRetries, notready : 0..NotReadyMax]

VARIABLES
  work,      \* bag of messages ready in payment.queue
  delayed,   \* payment.queue.retry, head first
  dead,      \* dead-lettered messages
  row,       \* row[o]: "none" before the request, "open" until it commits,
             \* then whether the commit came within Window, in the end the
             \* status PAID or FAILED
  age,       \* age[o]: milliseconds from order.created to that end
  crashes    \* crashes so far

vars == <<work, delayed, dead, row, age, crashes>>

----------------------------------------------------------------------------
(* Delays, in milliseconds unless noted.                                   *)

(* Mutant: the first retry waits twice the base delay already.             *)
RetryDelayZeroBased(attempt) == RetryBaseDelay * 2^attempt

(* Mutant: no backoff.                                                     *)
RetryDelayConstant(attempt) == RetryBaseDelay

(* retry_delay_seconds, in microseconds.                                   *)
RetryDelay(attempt) == RetryBaseDelay * 2^(attempt - 1)

(* Mutant: whole seconds instead of milliseconds.                          *)
ExpirationSeconds(delay) == delay \div 1000000

(* expiration_ms=int(delay * 1000).                                        *)
ExpirationMs(delay) == delay \div 1000

(* Mutant: a recheck is published without its expiration.                  *)
DelayedRecheckForever(m, delay) ==
  [message |-> m, ttl |-> IF m.notready > 0 THEN 0 ELSE ExpirationMs(delay), waited |-> 0]

(* What build_message gives the broker.  "if expiration_ms else None": a   *)
(* ttl of 0 stands for no TTL at all.                                      *)
Delayed(m, delay) == [message |-> m, ttl |-> ExpirationMs(delay), waited |-> 0]

(* Backoff[n]: how long n retries keep a message aside altogether.         *)
Backoff[n \in Nat] ==
  IF n = 0 THEN 0 ELSE Backoff[n - 1] + (RetryBaseDelay * 2^(n - 1)) \div 1000

(* The time the rechecks last.                                             *)
Window == NotReadyMax * (NotReadyDelay \div 1000)

(* Bounds of the clocks: what is older than this is not told apart.        *)
AgeBound  == IF Window > Backoff[MaxRetries] THEN Window ELSE Backoff[MaxRetries]
WaitBound == LongestDelay + 1

Older(n, bound) == IF n < bound THEN n + 1 ELSE bound

----------------------------------------------------------------------------
(* create_order: order.created is published, and committed some time later *)
(* or never.                                                               *)
Publish(o) ==
  /\ row[o] = "none"
  /\ row' = [row EXCEPT ![o] = "open"]
  /\ work' = BagAdd(work, [order |-> o, retry |-> 0, notready |-> 0])
  /\ UNCHANGED <<delayed, dead, age, crashes>>

ApiCommit(o) ==
  /\ row[o] = "open"
  /\ row' = [row EXCEPT ![o] = IF age[o] < Window THEN "in time" ELSE "late"]
  /\ UNCHANGED <<work, delayed, dead, age, crashes>>

----------------------------------------------------------------------------
(* The workers.  A message that one of them handles is still in work: its  *)
(* handling takes effect when the copy is published, the charge committed  *)
(* or the message nacked.  Then it is acked, unless the worker dies first  *)
(* and the message is requeued beside the copy.                            *)
Acked(m) ==
  \/ work' = BagRemove(work, m) /\ UNCHANGED crashes
  \/ crashes < MaxCrashes /\ crashes' = crashes + 1 /\ UNCHANGED work

Handling(m, rows) == BagIn(m, work) /\ row[m.order] \in rows

Pending == {"in time", "late"}

(* The charge commits.                                                     *)
Pay(m) ==
  /\ Handling(m, Pending)
  /\ row' = [row EXCEPT ![m.order] = "PAID"]
  /\ Acked(m)
  /\ UNCHANGED <<delayed, dead, age>>

(* A duplicate of a message that led to PAID or FAILED.                    *)
Skip(m) ==
  /\ Handling(m, {"PAID", "FAILED"})
  /\ Acked(m)
  /\ UNCHANGED <<delayed, dead, row, age>>

PutAside(m, copy, delay) ==
  /\ delayed' = Append(delayed, Delayed(copy, delay))
  /\ Acked(m)
  /\ UNCHANGED dead

DeadLetter(m) ==
  /\ \/ dead' = dead \cup {m} /\ work' = BagRemove(work, m) /\ UNCHANGED crashes
     \/ crashes < MaxCrashes /\ crashes' = crashes + 1 /\ UNCHANGED <<dead, work>>
  /\ UNCHANGED delayed

(* Mutant: the last recheck is not used.                                   *)
OneRecheckLess(m) == m.notready + 1 < NotReadyMax

MayRecheck(m) == m.notready < NotReadyMax

(* Mutant: one retry too many.                                             *)
OneRetryMore(m) == m.retry <= MaxRetries

MayRetry(m) == m.retry < MaxRetries

(* process() finds no row and raises UpstreamNotReady.                     *)
NotReady(m) ==
  /\ Handling(m, {"open"})
  /\ \/ MayRecheck(m) /\ PutAside(m, [m EXCEPT !.notready = @ + 1], NotReadyDelay)
     \/ ~MayRecheck(m) /\ DeadLetter(m)
  /\ UNCHANGED <<row, age>>

(* The gateway declines: TransientError.  In the end the hook writes       *)
(* FAILED.                                                                 *)
Decline(m) ==
  /\ Handling(m, Pending)
  /\ \/ /\ MayRetry(m)
        /\ PutAside(m, [m EXCEPT !.retry = @ + 1, !.notready = 0], RetryDelay(m.retry + 1))
        /\ UNCHANGED row
     \/ /\ ~MayRetry(m)
        /\ DeadLetter(m)
        /\ row' = [row EXCEPT ![m.order] = "FAILED"]
  /\ UNCHANGED age

----------------------------------------------------------------------------
(* The broker.                                                             *)
Expired(e) == e.ttl > 0 /\ e.waited >= e.ttl

HeadExpired == delayed # <<>> /\ Expired(Head(delayed))

Release ==
  /\ HeadExpired
  /\ delayed' = Tail(delayed)
  /\ work' = BagAdd(work, Head(delayed).message)
  /\ UNCHANGED <<dead, row, age, crashes>>

Tick ==
  /\ ~HeadExpired
  /\ delayed' = [k \in DOMAIN delayed |->
                   [delayed[k] EXCEPT !.waited = Older(@, WaitBound)]]
  /\ age' = [o \in Orders |-> IF row[o] \in {"open"} \cup Pending
                              THEN Older(age[o], AgeBound) ELSE age[o]]
  /\ UNCHANGED <<work, dead, row, crashes>>

----------------------------------------------------------------------------
Init ==
  /\ work = EmptyBag
  /\ delayed = <<>>
  /\ dead = {}
  /\ row = [o \in Orders |-> "none"]
  /\ age = [o \in Orders |-> 0]
  /\ crashes = 0

WorkerStep == \E m \in BagToSet(work) : Pay(m) \/ Skip(m) \/ NotReady(m) \/ Decline(m)

Next ==
  \/ \E o \in Orders : Publish(o) \/ ApiCommit(o)
  \/ WorkerStep
  \/ Release
  \/ Tick

(* Time passes, the broker expires what is due, and workers work on or are *)
(* restarted.  No request need come or ever commit.                        *)
Fairness == WF_vars(Tick) /\ WF_vars(Release) /\ WF_vars(WorkerStep)

Safety == Init /\ [][Next]_vars
Spec   == Safety /\ Fairness

Waiting == [message : Message, ttl : 0..LongestDelay, waited : 0..WaitBound]

TypeOK ==
  /\ IsABag(work) /\ BagToSet(work) \subseteq Message
  /\ delayed \in Seq(Waiting)
  /\ dead \subseteq Message
  /\ row \in [Orders -> {"none", "open", "PAID", "FAILED"} \cup Pending]
  /\ age \in [Orders -> 0..AgeBound]
  /\ crashes \in 0..MaxCrashes

----------------------------------------------------------------------------
(* No message stays aside longer than the longest delay there is, although *)
(* short delays queue up behind long ones (one retry queue for backoffs    *)
(* and rechecks, common/messaging.py:110).                                 *)
BoundedWait == \A k \in DOMAIN delayed : delayed[k].waited <= LongestDelay

(* The rechecks give the API all the time they promise: an order that was  *)
(* committed within notready_max_retries * notready_delay_seconds of its   *)
(* event is never given up as never ready, also when a crash duplicates    *)
(* its message (workers/base.py:298).                                      *)
RecheckWindow ==
  \A m \in dead : row[m.order] = "in time" => m.retry = MaxRetries

(* A payment is given up only after the whole exponential backoff (5s,     *)
(* 10s, 20s in REPORT.md), counted from its order.created.                 *)
BackoffHonoured ==
  \A m \in dead : m.retry > 0 => age[m.order] >= Backoff[MaxRetries]

(* The delay in milliseconds that the counts in a copy's headers call for: *)
(* _handle_failure computes counts and delay one beside the other, in two  *)
(* branches (workers/base.py:299 and 327).                                 *)
CalledFor(m) ==
  IF m.notready > 0 THEN NotReadyDelay \div 1000
                    ELSE (RetryBaseDelay * 2^(m.retry - 1)) \div 1000

(* A copy comes back later than its own counts call for only while one     *)
(* whose counts call for a longer delay stands at the head of the queue:   *)
(* it is the mixing of rechecks and backoffs in one retry queue, and no    *)
(* delay given to the wrong copy, that makes BackOnTime fail.              *)
LateOnlyBehindLonger ==
  \A k \in DOMAIN delayed : delayed[k].waited > CalledFor(delayed[k].message) =>
    HeadExpired \/ CalledFor(Head(delayed).message) > CalledFor(delayed[k].message)

(* Every message put aside comes back, once and unchanged: the timed       *)
(* first-in-first-out queue implements the untimed retry queue that        *)
(* Messaging assumes, its fairness included.                               *)
Aside == BagOf(delayed)

Untimed == INSTANCE DelayedRetry WITH ready <- work, aside <- Aside
RetriesComeBack == Untimed!Spec

(* A message comes back when its own delay is over ("When the TTL expires, *)
(* the broker dead-letters the message back", ARCHITECTURE.md:57; "cheap   *)
(* 2s rechecks", REPORT.md:20).  Only the head of the queue does.          *)
BackOnTime ==
  \A k \in DOMAIN delayed : delayed[k].ttl > 0 => delayed[k].waited <= delayed[k].ttl
=============================================================================
