---------------------------- MODULE RetryProofs ----------------------------
(***************************************************************************)
(* The retries of the payment worker in time, for any number of orders,    *)
(* retries, rechecks and crashes and any delays: how long a message stays  *)
(* aside (WaitInv; delays of a millisecond or more), and what the counts   *)
(* of a message say of the age of its order (AgeInv).                      *)
(***************************************************************************)
EXTENDS RetryQueue, Counting

(* Every delay of these settings gives its message a TTL.                  *)
DelaysExpire ==
  /\ NotReadyDelay \div 1000 \in Nat \ {0}
  /\ \A n \in 1..MaxRetries : (RetryBaseDelay * 2^(n - 1)) \div 1000 \in Nat \ {0}

TimedWaiting == [message : Message, ttl : 1..LongestDelay, waited : 0..LongestDelay]

(* The messages aside stand in the order in which they came.               *)
WaitInv ==
  /\ DOMAIN work \subseteq Message
  /\ delayed \in Seq(TimedWaiting)
  /\ \A j, k \in DOMAIN delayed : j <= k => delayed[k].waited <= delayed[j].waited

----------------------------------------------------------------------------
(* The settings are numbers.                                               *)
LEMMA Numbers ==
  /\ MaxRetries \in Nat /\ NotReadyMax \in Nat /\ LongestDelay \in Nat
  /\ RetryBaseDelay \in Nat /\ NotReadyDelay \in Nat
BY SettingsAssumption

(* The parts of a message that waits.                                      *)
LEMMA WaitingParts ==
  ASSUME NEW e \in TimedWaiting
  PROVE  /\ e.message \in Message
         /\ e.ttl \in Nat /\ e.ttl > 0 /\ e.ttl <= LongestDelay
         /\ e.waited \in Nat /\ e.waited <= LongestDelay
BY Numbers DEF TimedWaiting

(* A waiting message, one millisecond later.                               *)
LEMMA WaitingLonger ==
  ASSUME NEW e \in TimedWaiting, e.waited < LongestDelay
  PROVE  LET f == [e EXCEPT !.waited = Older(@, WaitBound)]
         IN  f \in TimedWaiting /\ f.waited = e.waited + 1
<1> DEFINE n == Older(e.waited, WaitBound)
<1>1. n = e.waited + 1 /\ n \in 0..LongestDelay
  BY Numbers, WaitingParts DEF Older, WaitBound
<1> HIDE DEF n
<1>2. [e EXCEPT !.waited = n] \in TimedWaiting /\ [e EXCEPT !.waited = n].waited = n
  BY <1>1 DEF TimedWaiting
<1>3. QED
  BY <1>1, <1>2 DEF n

(* The bag of ready messages holds messages only.                          *)
LEMMA BagAddDomain ==
  ASSUME NEW B, NEW x PROVE DOMAIN BagAdd(B, x) = DOMAIN B \cup {x}
BY DEF BagAdd

(* Removing one adds none.                                                  *)
LEMMA BagRemoveDomain ==
  ASSUME NEW B, NEW x PROVE DOMAIN BagRemove(B, x) \subseteq DOMAIN B
BY DEF BagRemove

(* The copy that is put aside is a message, and its delay is in bounds.    *)
LEMMA PutAsideWaits ==
  ASSUME WaitInv, NEW m, NEW copy \in Message, NEW delay,
         ExpirationMs(delay) \in 1..LongestDelay, PutAside(m, copy, delay)
  PROVE  WaitInv'
<1>1. DOMAIN work' \subseteq Message
  BY BagRemoveDomain DEF WaitInv, PutAside, Acked
<1> DEFINE e == Delayed(copy, delay)
<1>2. e \in TimedWaiting /\ e.waited = 0
  BY SettingsAssumption DEF Delayed, TimedWaiting
<1> HIDE DEF e
<1>3. delayed' = Append(delayed, e) /\ delayed \in Seq(TimedWaiting)
  BY DEF PutAside, WaitInv, e
<1>4. /\ delayed' \in Seq(TimedWaiting) /\ Len(delayed') = Len(delayed) + 1
      /\ Len(delayed) \in Nat
      /\ \A k \in 1..Len(delayed) : delayed'[k] = delayed[k]
      /\ delayed'[Len(delayed) + 1] = e
  BY <1>2, <1>3
<1>5. DOMAIN delayed' = 1..(Len(delayed) + 1) /\ DOMAIN delayed = 1..Len(delayed)
  BY <1>3, <1>4
<1>6. ASSUME NEW j \in DOMAIN delayed', NEW k \in DOMAIN delayed', j <= k
      PROVE  delayed'[k].waited <= delayed'[j].waited
  <2>1. CASE k = Len(delayed) + 1
    <3>1. delayed'[j] \in TimedWaiting
      BY <1>4, <1>5
    <3>2. QED
      BY <1>2, <1>4, <2>1, <3>1, WaitingParts
  <2>2. CASE k # Len(delayed) + 1
    <3>1. j \in 1..Len(delayed) /\ k \in 1..Len(delayed)
      BY <1>4, <1>5, <1>6, <2>2
    <3>2. QED
      BY <1>4, <1>5, <1>6, <3>1 DEF WaitInv
  <2>3. QED
    BY <2>1, <2>2
<1>7. QED
  BY <1>1, <1>4, <1>6 DEF WaitInv

(* A copy of a message with other counts.                                  *)
LEMMA CopyMessage ==
  ASSUME NEW m \in Message, NEW n \in 0..MaxRetries, NEW k \in 0..NotReadyMax
  PROVE  [m EXCEPT !.retry = n, !.notready = k] \in Message
BY DEF Message

(* A step of the workers.                                                  *)
LEMMA WorkerWaits ==
  ASSUME DelaysExpire, WaitInv, NEW m \in BagToSet(work),
         Pay(m) \/ Skip(m) \/ NotReady(m) \/ Decline(m)
  PROVE  WaitInv'
<1>1. m \in Message
  BY DEF WaitInv, BagToSet
<1>2. ASSUME DOMAIN work' \subseteq Message, delayed' = delayed PROVE WaitInv'
  BY <1>2 DEF WaitInv
<1>3. CASE Pay(m) \/ Skip(m)
  BY <1>2, <1>3, BagRemoveDomain DEF Pay, Skip, Acked, WaitInv
<1>4. CASE DeadLetter(m)
  BY <1>2, <1>4, BagRemoveDomain DEF DeadLetter, WaitInv
<1>5. CASE MayRecheck(m) /\ PutAside(m, [m EXCEPT !.notready = @ + 1], NotReadyDelay)
  <2>1. [m EXCEPT !.notready = @ + 1] \in Message
    BY <1>1, <1>5, SettingsAssumption DEF Message, MayRecheck
  <2>2. ExpirationMs(NotReadyDelay) \in 1..LongestDelay
    BY SettingsAssumption DEF ExpirationMs, DelaysExpire
  <2>3. QED
    BY <1>5, <2>1, <2>2, PutAsideWaits
<1>6. CASE MayRetry(m) /\ PutAside(m, [m EXCEPT !.retry = @ + 1, !.notready = 0],
                                   RetryDelay(m.retry + 1))
  <2> DEFINE n == m.retry + 1
  <2>1. n \in 1..MaxRetries
    BY <1>1, <1>6, Numbers DEF Message, MayRetry
  <2>2. [m EXCEPT !.retry = @ + 1, !.notready = 0] \in Message
    <3>1. n \in 0..MaxRetries /\ 0 \in 0..NotReadyMax
      BY <2>1, Numbers
    <3>2. [m EXCEPT !.retry = n, !.notready = 0] \in Message
      BY <1>1, <3>1, CopyMessage
    <3>3. QED
      BY <3>2
  <2> HIDE DEF n
  <2>3. /\ (RetryBaseDelay * 2^(n - 1)) \div 1000 \in Nat \ {0}
        /\ (RetryBaseDelay * 2^(n - 1)) \div 1000 <= LongestDelay
    BY <2>1, SettingsAssumption DEF DelaysExpire
  <2>4. ExpirationMs(RetryDelay(n)) \in 1..LongestDelay
    BY <2>3, Numbers DEF ExpirationMs, RetryDelay
  <2>5. QED
    BY <1>6, <2>2, <2>4, PutAsideWaits DEF n
<1>7. QED
  BY <1>3, <1>4, <1>5, <1>6 DEF NotReady, Decline

(* The broker puts the head back.                                          *)
LEMMA ReleaseWaits ==
  ASSUME WaitInv, Release
  PROVE  WaitInv'
<1>1. delayed \in Seq(TimedWaiting) /\ delayed # <<>>
  BY DEF WaitInv, Release, HeadExpired
<1>2. /\ Tail(delayed) \in Seq(TimedWaiting) /\ Head(delayed) \in TimedWaiting
      /\ Len(Tail(delayed)) = Len(delayed) - 1 /\ Len(delayed) \in Nat
      /\ \A k \in 1..Len(Tail(delayed)) : Tail(delayed)[k] = delayed[k + 1]
  BY <1>1
<1>3. DOMAIN Tail(delayed) = 1..(Len(delayed) - 1) /\ DOMAIN delayed = 1..Len(delayed)
  BY <1>1, <1>2
<1>4. ASSUME NEW j \in DOMAIN Tail(delayed), NEW k \in DOMAIN Tail(delayed), j <= k
      PROVE  Tail(delayed)[k].waited <= Tail(delayed)[j].waited
  <2>1. j + 1 \in DOMAIN delayed /\ k + 1 \in DOMAIN delayed /\ j + 1 <= k + 1
    BY <1>2, <1>3, <1>4
  <2>2. QED
    BY <1>2, <1>3, <2>1 DEF WaitInv
<1>5. DOMAIN work' \subseteq Message
  <2>1. Head(delayed).message \in Message /\ work' = BagAdd(work, Head(delayed).message)
    BY <1>2, WaitingParts DEF Release
  <2>2. DOMAIN work' = DOMAIN work \cup {Head(delayed).message}
    BY <2>1, BagAddDomain
  <2>3. QED
    BY <2>1, <2>2 DEF WaitInv
<1>6. delayed' = Tail(delayed)
  BY DEF Release
<1>7. QED
  BY <1>2, <1>4, <1>5, <1>6 DEF WaitInv

(* While the head has not expired, none has waited its longest delay.      *)
LEMMA TickWaits ==
  ASSUME WaitInv, Tick
  PROVE  WaitInv'
<1>1. /\ delayed \in Seq(TimedWaiting) /\ DOMAIN delayed = 1..Len(delayed)
      /\ Len(delayed) \in Nat /\ \A k \in DOMAIN delayed : delayed[k] \in TimedWaiting
  BY DEF WaitInv
<1>2. ASSUME NEW k \in DOMAIN delayed PROVE delayed[k].waited < LongestDelay
  <2>1. 1 \in DOMAIN delayed /\ 1 <= k /\ delayed # <<>> /\ Head(delayed) = delayed[1]
    BY <1>1
  <2>2. ~Expired(delayed[1])
    BY <2>1 DEF Tick, HeadExpired
  <2>3. delayed[1].waited < delayed[1].ttl /\ delayed[1].ttl <= LongestDelay
    BY <1>1, <2>1, <2>2, WaitingParts DEF Expired
  <2>4. delayed[k].waited <= delayed[1].waited
    BY <2>1 DEF WaitInv
  <2>5. QED
    BY <1>1, <2>1, <2>3, <2>4, WaitingParts, Numbers
<1>3. /\ DOMAIN delayed' = DOMAIN delayed
      /\ \A k \in DOMAIN delayed :
           delayed'[k] = [delayed[k] EXCEPT !.waited = Older(@, WaitBound)]
  BY DEF Tick
<1>4. \A k \in DOMAIN delayed :
        delayed'[k] \in TimedWaiting /\ delayed'[k].waited = delayed[k].waited + 1
  BY <1>1, <1>2, <1>3, WaitingLonger
<1>5. delayed' = [k \in 1..Len(delayed) |-> delayed'[k]]
  BY <1>1 DEF Tick
<1>6. delayed' \in Seq(TimedWaiting)
  BY <1>1, <1>4, <1>5
<1>7. ASSUME NEW j \in DOMAIN delayed, NEW k \in DOMAIN delayed, j <= k
      PROVE  delayed'[k].waited <= delayed'[j].waited
  <2>1. delayed[k].waited <= delayed[j].waited
    BY <1>7 DEF WaitInv
  <2>2. delayed[k].waited \in Nat /\ delayed[j].waited \in Nat
    BY <1>1, <1>7, WaitingParts
  <2>3. QED
    BY <1>4, <1>7, <2>1, <2>2
<1>8. QED
  BY <1>3, <1>6, <1>7 DEF WaitInv, Tick

(* The queue keeps its order, and its head is released in time.            *)
LEMMA WaitInvariant == DelaysExpire => (Safety => []WaitInv)
<1> SUFFICES ASSUME DelaysExpire PROVE Safety => []WaitInv
  OBVIOUS
<1>1. Init => WaitInv
  BY DEF Init, WaitInv, EmptyBag, SetToBag
<1>2. WaitInv /\ [Next]_vars => WaitInv'
  <2> SUFFICES ASSUME WaitInv, [Next]_vars PROVE WaitInv'
    OBVIOUS
  <2>1. CASE UNCHANGED <<work, delayed>>
    BY <2>1 DEF WaitInv
  <2>2. ASSUME NEW o \in Orders, Publish(o) PROVE WaitInv'
    <3> DEFINE m == [order |-> o, retry |-> 0, notready |-> 0]
    <3>1. m \in Message
      BY Numbers DEF Message
    <3>2. work' = BagAdd(work, m) /\ delayed' = delayed
      BY <2>2 DEF Publish
    <3> HIDE DEF m
    <3>3. DOMAIN work' = DOMAIN work \cup {m}
      BY <3>2, BagAddDomain
    <3>4. QED
      BY <3>1, <3>2, <3>3 DEF WaitInv
  <2>3. QED
    BY <2>1, <2>2, WorkerWaits, ReleaseWaits, TickWaits DEF Next, ApiCommit, WorkerStep, vars
<1>3. QED
  BY <1>1, <1>2, PTL DEF Safety

(* No message stays aside longer than the longest delay of the settings,   *)
(* however many others are put aside before it (BoundedWait of run         *)
(* retries), provided that no delay rounds to zero milliseconds.           *)
THEOREM WaitIsBounded == DelaysExpire => (Safety => []BoundedWait)
<1>1. WaitInv => BoundedWait
  <2> SUFFICES ASSUME WaitInv, NEW k \in DOMAIN delayed PROVE delayed[k].waited <= LongestDelay
    BY DEF BoundedWait
  <2>1. delayed[k] \in TimedWaiting
    BY DEF WaitInv
  <2>2. QED
    BY <2>1, WaitingParts
<1>2. QED
  BY <1>1, WaitInvariant, PTL

(* Every copy that waits has the delay that its counts call for.           *)
CalledInv == \A k \in DOMAIN delayed : delayed[k].ttl = CalledFor(delayed[k].message)

(* A copy put aside with the right delay keeps it so.                      *)
LEMMA PutAsideCalled ==
  ASSUME WaitInv, CalledInv, NEW m, NEW copy, NEW delay, PutAside(m, copy, delay),
         ExpirationMs(delay) = CalledFor(copy)
  PROVE  CalledInv'
<1> DEFINE e == Delayed(copy, delay)
<1>1. e.ttl = CalledFor(e.message)
  BY DEF Delayed
<1> HIDE DEF e
<1>2. delayed' = Append(delayed, e) /\ delayed \in Seq(TimedWaiting)
  BY DEF PutAside, WaitInv, e
<1>3. ASSUME NEW k \in DOMAIN delayed' PROVE delayed'[k].ttl = CalledFor(delayed'[k].message)
  <2>1. delayed'[k] = e \/ (k \in DOMAIN delayed /\ delayed'[k] = delayed[k])
    BY <1>2
  <2>2. QED
    BY <1>1, <2>1 DEF CalledInv
<1>4. QED
  BY <1>3 DEF CalledInv

(* _handle_failure gives each copy the delay its counts call for.          *)
LEMMA WorkerCalled ==
  ASSUME WaitInv, CalledInv, NEW m \in BagToSet(work),
         Pay(m) \/ Skip(m) \/ NotReady(m) \/ Decline(m)
  PROVE  CalledInv'
<1>1. m \in Message
  BY DEF WaitInv, BagToSet
<1>2. CASE Pay(m) \/ Skip(m) \/ DeadLetter(m)
  BY <1>2 DEF Pay, Skip, DeadLetter, CalledInv
<1>3. CASE PutAside(m, [m EXCEPT !.notready = @ + 1], NotReadyDelay)
  <2>1. PICK copy : copy = [m EXCEPT !.notready = @ + 1]
    OBVIOUS
  <2>2. copy.notready > 0
    BY <1>1, <2>1, Numbers DEF Message
  <2>3. ExpirationMs(NotReadyDelay) = CalledFor(copy)
    BY <2>2 DEF ExpirationMs, CalledFor
  <2>4. QED
    BY <1>3, <2>1, <2>3, PutAsideCalled
<1>4. CASE PutAside(m, [m EXCEPT !.retry = @ + 1, !.notready = 0], RetryDelay(m.retry + 1))
  <2>1. PICK copy, n : copy = [m EXCEPT !.retry = @ + 1, !.notready = 0] /\ n = m.retry + 1
    OBVIOUS
  <2>2. copy.notready = 0 /\ copy.retry = n
    BY <1>1, <2>1 DEF Message
  <2>3. ExpirationMs(RetryDelay(n)) = CalledFor(copy)
    BY <2>2 DEF ExpirationMs, CalledFor, RetryDelay
  <2>4. QED
    BY <1>4, <2>1, <2>3, PutAsideCalled
<1>5. QED
  BY <1>2, <1>3, <1>4 DEF NotReady, Decline

(* And no copy is given another one while it waits.                        *)
LEMMA CalledInvariant == DelaysExpire => (Safety => []CalledInv)
<1> SUFFICES ASSUME DelaysExpire PROVE Safety => []CalledInv
  OBVIOUS
<1>1. Init => CalledInv
  BY DEF Init, CalledInv
<1>2. WaitInv /\ CalledInv /\ [Next]_vars => CalledInv'
  <2> SUFFICES ASSUME WaitInv, CalledInv, [Next]_vars PROVE CalledInv'
    OBVIOUS
  <2>1. CASE UNCHANGED delayed
    BY <2>1 DEF CalledInv
  <2>2. CASE Release
    <3>1. /\ delayed' = Tail(delayed) /\ delayed \in Seq(TimedWaiting) /\ delayed # <<>>
      BY <2>2 DEF Release, HeadExpired, WaitInv
    <3>2. \A k \in DOMAIN delayed' : k + 1 \in DOMAIN delayed /\ delayed'[k] = delayed[k + 1]
      BY <3>1
    <3>3. QED
      BY <3>2 DEF CalledInv
  <2>3. CASE Tick
    <3>1. DOMAIN delayed' = DOMAIN delayed
      BY <2>3 DEF Tick
    <3>2. \A k \in DOMAIN delayed : delayed[k] \in TimedWaiting
      BY DEF WaitInv
    <3>3. \A k \in DOMAIN delayed :
            delayed'[k].ttl = delayed[k].ttl /\ delayed'[k].message = delayed[k].message
      BY <2>3, <3>2 DEF Tick, TimedWaiting
    <3>4. QED
      BY <3>1, <3>3 DEF CalledInv
  <2>4. QED
    BY <2>1, <2>2, <2>3, WorkerCalled DEF Next, Publish, ApiCommit, WorkerStep, vars
<1>3. QED
  BY <1>1, <1>2, WaitInvariant, PTL DEF Safety

(* A copy is back later than its counts call for only behind one whose     *)
(* counts call for a longer delay (LateOnlyBehindLonger): each has the     *)
(* delay its counts call for, it waits no longer than the head does, and   *)
(* the head not longer than its delay.                                     *)
THEOREM LateBehindLonger == DelaysExpire => (Safety => []LateOnlyBehindLonger)
<1>1. WaitInv /\ CalledInv => LateOnlyBehindLonger
  <2> SUFFICES ASSUME WaitInv, CalledInv, NEW k \in DOMAIN delayed,
                      delayed[k].waited > CalledFor(delayed[k].message), ~ HeadExpired
               PROVE  CalledFor(Head(delayed).message) > CalledFor(delayed[k].message)
    BY DEF LateOnlyBehindLonger
  <2>1. 1 \in DOMAIN delayed /\ 1 <= k /\ Head(delayed) = delayed[1] /\ delayed # <<>>
    BY DEF WaitInv
  <2>2. delayed[1] \in TimedWaiting /\ delayed[k] \in TimedWaiting
    BY <2>1 DEF WaitInv
  <2>3. delayed[k].waited <= delayed[1].waited
    BY <2>1 DEF WaitInv
  <2>4. delayed[1].waited < delayed[1].ttl
    BY <2>1, <2>2, WaitingParts DEF HeadExpired, Expired
  <2>5. /\ delayed[1].ttl = CalledFor(Head(delayed).message)
        /\ delayed[k].ttl = CalledFor(delayed[k].message)
    BY <2>1 DEF CalledInv
  <2>6. delayed[1].ttl > delayed[k].ttl
    BY <2>2, <2>3, <2>4, <2>5, WaitingParts
  <2>7. QED
    BY <2>5, <2>6
<1>2. QED
  BY <1>1, WaitInvariant, CalledInvariant, PTL

----------------------------------------------------------------------------
(* What Backoff is.  Its recursion is unfolded by least counterexamples.   *)

(* The delay before retry n.                                               *)
DelayMs(n) == (RetryBaseDelay * 2^(n - 1)) \div 1000

(* g is the backoff of up to n retries.                                    *)
BackoffUpTo(g, n) ==
  /\ DOMAIN g = 0..n
  /\ g[0] = 0
  /\ \A k \in 1..n : g[k] = g[k - 1] + DelayMs(k)

(* There is one for every n.                                               *)
LEMMA BackoffUpToExists == \A n \in Nat : \E g : BackoffUpTo(g, n)
<1> DEFINE Bad == {n \in Nat : ~ \E g : BackoffUpTo(g, n)}
<1> SUFFICES ASSUME Bad # {} PROVE FALSE
  OBVIOUS
<1>1. PICK n \in Bad : \A m \in Bad : n <= m
  <2>1. Bad \subseteq Nat
    OBVIOUS
  <2> HIDE DEF Bad
  <2>2. QED
    BY <2>1, LeastNatural
<1>2. CASE n = 0
  <2>1. BackoffUpTo([k \in 0..0 |-> 0], 0)
    BY DEF BackoffUpTo
  <2>2. QED
    BY <2>1, <1>1, <1>2
<1>3. CASE n # 0
  <2>1. n - 1 \in Nat /\ ~ (n <= n - 1) /\ n \in Nat
    BY <1>1, <1>3
  <2>2. PICK g : BackoffUpTo(g, n - 1)
    BY <1>1, <2>1
  <2> DEFINE h == [k \in 0..n |-> IF k = n THEN g[n - 1] + DelayMs(n) ELSE g[k]]
  <2>3. DOMAIN h = 0..n /\ h[0] = 0
    BY <2>1, <2>2, <1>3 DEF BackoffUpTo
  <2>4. ASSUME NEW k \in 1..n PROVE h[k] = h[k - 1] + DelayMs(k)
    <3>1. k - 1 \in 0..n /\ k - 1 # n /\ k \in 0..n
      BY <2>1
    <3>2. h[k - 1] = g[k - 1] /\ h[k] = IF k = n THEN g[n - 1] + DelayMs(n) ELSE g[k]
      BY <3>1
    <3>3. k # n => k \in 1..(n - 1)
      BY <2>1
    <3>4. QED
      BY <2>2, <3>2, <3>3 DEF BackoffUpTo
  <2>5. BackoffUpTo(h, n)
    BY <2>3, <2>4 DEF BackoffUpTo
  <2>6. QED
    BY <2>5, <1>1
<1>4. QED
  BY <1>2, <1>3

(* Two of them agree.                                                      *)
LEMMA BackoffUpToUnique ==
  ASSUME NEW n \in Nat, NEW m \in Nat, n <= m, NEW g, NEW h,
         BackoffUpTo(g, n), BackoffUpTo(h, m)
  PROVE  \A k \in 0..n : g[k] = h[k]
<1> DEFINE Bad == {k \in 0..n : g[k] # h[k]}
<1> SUFFICES ASSUME Bad # {} PROVE FALSE
  OBVIOUS
<1>1. PICK k \in Bad : \A j \in Bad : k <= j
  <2>1. Bad \subseteq Nat
    OBVIOUS
  <2> HIDE DEF Bad
  <2>2. QED
    BY <2>1, LeastNatural
<1>2. k # 0
  BY <1>1 DEF BackoffUpTo
<1>3. k \in 1..n /\ k - 1 \in 0..n /\ ~ (k <= k - 1) /\ k \in 1..m
  BY <1>1, <1>2
<1>4. g[k - 1] = h[k - 1]
  BY <1>1, <1>3
<1>5. g[k] = h[k]
  BY <1>3, <1>4 DEF BackoffUpTo
<1>6. QED
  BY <1>1, <1>5

(* The recursive definition defines the sum of the delays.                 *)
LEMMA BackoffSums ==
  Backoff = [n \in Nat |-> IF n = 0 THEN 0 ELSE Backoff[n - 1] + DelayMs(n)]
<1> DEFINE f == [n \in Nat |-> CHOOSE g : BackoffUpTo(g, n)]
           b == [n \in Nat |-> f[n][n]]
<1>1. ASSUME NEW n \in Nat PROVE BackoffUpTo(f[n], n)
  BY BackoffUpToExists
<1> HIDE DEF f
<1>2. ASSUME NEW n \in Nat PROVE b[n] = IF n = 0 THEN 0 ELSE b[n - 1] + DelayMs(n)
  <2>1. CASE n = 0
    BY <1>1, <2>1 DEF BackoffUpTo
  <2>2. CASE n # 0
    <3>1. n - 1 \in Nat /\ n - 1 <= n /\ n \in 1..n /\ n - 1 \in 0..(n - 1)
      BY <2>2
    <3>2. BackoffUpTo(f[n], n) /\ BackoffUpTo(f[n - 1], n - 1)
      BY <1>1, <3>1
    <3>3. f[n - 1][n - 1] = f[n][n - 1]
      BY <3>1, <3>2, BackoffUpToUnique
    <3>4. f[n][n] = f[n][n - 1] + DelayMs(n)
      BY <3>1, <3>2 DEF BackoffUpTo
    <3>5. QED
      BY <2>2, <3>1, <3>3, <3>4
  <2>3. QED
    BY <2>1, <2>2
<1>3. b = [n \in Nat |-> IF n = 0 THEN 0 ELSE b[n - 1] + DelayMs(n)]
  BY <1>2
<1> HIDE DEF b
<1>4. Backoff = CHOOSE g : g = [n \in Nat |-> IF n = 0 THEN 0 ELSE g[n - 1] + DelayMs(n)]
  BY DEF Backoff, DelayMs
<1>5. QED
  BY <1>3, <1>4

(* Every backoff within max_retries is a number of milliseconds.           *)
LEMMA BackoffNat ==
  /\ \A n \in 0..MaxRetries : Backoff[n] \in Nat
  /\ \A n \in 1..MaxRetries : Backoff[n] = Backoff[n - 1] + DelayMs(n) /\ DelayMs(n) \in Nat
<1>1. ASSUME NEW n \in 1..MaxRetries
      PROVE  Backoff[n] = Backoff[n - 1] + DelayMs(n) /\ DelayMs(n) \in Nat
  <2>1. n \in Nat /\ n # 0
    BY Numbers
  <2>2. DelayMs(n) \in Nat
    BY SettingsAssumption DEF DelayMs
  <2>3. QED
    BY <2>1, <2>2, BackoffSums
<1>2. Backoff[0] = 0
  BY BackoffSums
<1> DEFINE Bad == {n \in 0..MaxRetries : Backoff[n] \notin Nat}
<1>3. Bad = {}
  <2> SUFFICES ASSUME Bad # {} PROVE FALSE
    OBVIOUS
  <2>1. PICK n \in Bad : \A m \in Bad : n <= m
    <3>1. Bad \subseteq Nat
      OBVIOUS
    <3> HIDE DEF Bad
    <3>2. QED
      BY <3>1, LeastNatural
  <2>2. n # 0
    BY <1>2, <2>1
  <2>3. n \in 1..MaxRetries /\ n - 1 \in 0..MaxRetries /\ ~ (n <= n - 1)
    BY <2>1, <2>2, Numbers
  <2>4. Backoff[n - 1] \in Nat
    BY <2>1, <2>3
  <2>5. QED
    BY <1>1, <2>1, <2>3, <2>4
<1>4. QED
  BY <1>1, <1>3

----------------------------------------------------------------------------
(* The counts of a message say how old its order is at least.              *)

NotReadyMs == NotReadyDelay \div 1000

(* What the retries, or the rechecks, of a message amount to.              *)
Waits(m) == IF m.retry > 0 THEN Backoff[m.retry] ELSE m.notready * NotReadyMs

Unsettled == {"open"} \cup Pending

Rows == [Orders -> {"none", "PAID", "FAILED"} \cup Unsettled]

(* The order of m, if it is still open, has only been rechecked; if it is  *)
(* not settled, it is t milliseconds old, or older than is told apart.     *)
Aged(rows, ages, m, t) ==
  /\ m \in Message
  /\ rows[m.order] # "none"
  /\ rows[m.order] = "open" => m.retry = 0
  /\ rows[m.order] \in Unsettled => ages[m.order] >= t \/ ages[m.order] >= AgeBound

(* m was given up after the whole backoff, or after the whole window of an *)
(* order that has not been committed by then.                              *)
GivenUp(rows, ages, m) ==
  /\ m \in Message
  /\ rows[m.order] # "none"
  /\ m.retry > 0 => ages[m.order] >= Backoff[MaxRetries]
  /\ m.retry = MaxRetries \/ rows[m.order] # "in time"
  /\ rows[m.order] = "open" => ages[m.order] >= Window

Entry == [message : Message, ttl : Nat, waited : Nat]

(* The last delay of a message aside is still running.                     *)
AsideFor(e) == Waits(e.message) - e.ttl + e.waited

AgeInv ==
  /\ row \in Rows /\ age \in [Orders -> 0..AgeBound]
  /\ delayed \in Seq(Entry)
  /\ \A m \in DOMAIN work : Aged(row, age, m, Waits(m))
  /\ \A k \in DOMAIN delayed : Aged(row, age, delayed[k].message, AsideFor(delayed[k]))
  /\ \A m \in dead : GivenUp(row, age, m)

(* The bounds are numbers.                                                 *)
LEMMA BoundsNat ==
  /\ NotReadyMs \in Nat /\ Window \in Nat /\ Window = NotReadyMax * NotReadyMs
  /\ Backoff[MaxRetries] \in Nat
  /\ AgeBound \in Nat /\ AgeBound >= Window /\ AgeBound >= Backoff[MaxRetries]
<1>1. NotReadyMs \in Nat
  BY SettingsAssumption DEF NotReadyMs
<1>2. Window = NotReadyMax * NotReadyMs
  BY DEF Window, NotReadyMs
<1>3. \A n, d \in Nat : n * d \in Nat
  OBVIOUS
<1>4. Window \in Nat
  BY <1>1, <1>2, <1>3, Numbers
<1>5. Backoff[MaxRetries] \in Nat
  BY Numbers, BackoffNat
<1>6. QED
  BY <1>1, <1>2, <1>4, <1>5 DEF AgeBound

(* So is what a message has waited for.                                    *)
LEMMA WaitsNat ==
  ASSUME NEW m \in Message
  PROVE  /\ Waits(m) \in Nat /\ m.order \in Orders
         /\ m.retry \in 0..MaxRetries /\ m.notready \in 0..NotReadyMax
<1>1. m.order \in Orders /\ m.retry \in 0..MaxRetries /\ m.notready \in 0..NotReadyMax
  BY DEF Message
<1>2. \A n, d \in Nat : n * d \in Nat
  OBVIOUS
<1>3. m.notready \in Nat /\ m.notready * NotReadyMs \in Nat
  BY <1>1, <1>2, BoundsNat, Numbers
<1>4. QED
  BY <1>1, <1>3, BackoffNat DEF Waits

(* What a step other than a tick does to the orders.                       *)
RowsFlow ==
  /\ age' = age /\ row' \in Rows
  /\ \A o \in Orders :
       \/ row'[o] = row[o]
       \/ row[o] = "none" /\ row'[o] = "open"
       \/ row[o] = "open" /\ row'[o] = IF age[o] < Window THEN "in time" ELSE "late"
       \/ row[o] \in Pending /\ row'[o] \in {"PAID", "FAILED"}

(* It takes nothing from what is known of a message.                       *)
LEMMA AgedStays ==
  ASSUME AgeInv, RowsFlow
  PROVE  /\ \A m, t : Aged(row, age, m, t) => Aged(row', age', m, t)
         /\ \A m : GivenUp(row, age, m) => GivenUp(row', age', m)
<1>1. ASSUME NEW m, NEW t, Aged(row, age, m, t) PROVE Aged(row', age', m, t)
  <2>1. m.order \in Orders
    BY <1>1, WaitsNat DEF Aged
  <2>2. QED
    BY <1>1, <2>1 DEF Aged, RowsFlow, Unsettled, Pending
<1>2. ASSUME NEW m, GivenUp(row, age, m) PROVE GivenUp(row', age', m)
  <2>1. m.order \in Orders
    BY <1>2, WaitsNat DEF GivenUp
  <2>2. age[m.order] \in Nat
    BY <2>1, BoundsNat DEF AgeInv
  <2>3. age[m.order] >= Window => ~ (age[m.order] < Window)
    BY <2>2, BoundsNat
  <2>4. QED
    BY <1>2, <2>1, <2>3 DEF GivenUp, RowsFlow, Pending
<1>3. QED
  BY <1>1, <1>2

(* A step that puts no message aside.                                      *)
LEMMA NothingAside ==
  ASSUME AgeInv, RowsFlow, delayed' = delayed,
         \A m \in DOMAIN work' : m \in DOMAIN work \/ Aged(row', age', m, Waits(m)),
         \A m \in dead' : m \in dead \/ GivenUp(row', age', m)
  PROVE  AgeInv'
<1>1. \A m \in DOMAIN work' : Aged(row', age', m, Waits(m))
  BY AgedStays DEF AgeInv
<1>2. \A k \in DOMAIN delayed' : Aged(row', age', delayed'[k].message, AsideFor(delayed'[k]))
  BY AgedStays DEF AgeInv
<1>3. \A m \in dead' : GivenUp(row', age', m)
  BY AgedStays DEF AgeInv
<1>4. QED
  BY <1>1, <1>2, <1>3 DEF AgeInv, RowsFlow

(* The copy of a message is put aside for a delay.                         *)
LEMMA PutAsideAged ==
  ASSUME AgeInv, row' = row, age' = age, NEW m, NEW copy, NEW delay,
         PutAside(m, copy, delay), ExpirationMs(delay) \in Nat,
         Aged(row, age, copy, Waits(copy) - ExpirationMs(delay))
  PROVE  AgeInv'
<1> DEFINE e == Delayed(copy, delay)
<1>1. /\ e \in Entry
      /\ e.message = copy /\ AsideFor(e) = Waits(copy) - ExpirationMs(delay)
  <2>1. copy \in Message /\ Waits(copy) \in Nat
    BY WaitsNat DEF Aged
  <2>2. e = [message |-> copy, ttl |-> ExpirationMs(delay), waited |-> 0]
    BY DEF Delayed
  <2>3. QED
    BY <2>1, <2>2 DEF AsideFor, Entry
<1> HIDE DEF e
<1>2. delayed' = Append(delayed, e)
  BY DEF PutAside, e
<1>3. /\ delayed' \in Seq(Entry)
      /\ \A k \in DOMAIN delayed' :
           delayed'[k] = e \/ (k \in DOMAIN delayed /\ delayed'[k] = delayed[k])
  <2>1. delayed \in Seq(Entry) /\ e \in Entry
    BY <1>1 DEF AgeInv
  <2>2. /\ delayed' \in Seq(Entry) /\ Len(delayed') = Len(delayed) + 1 /\ Len(delayed) \in Nat
        /\ DOMAIN delayed = 1..Len(delayed) /\ delayed'[Len(delayed) + 1] = e
        /\ \A k \in 1..Len(delayed) : delayed'[k] = delayed[k]
    BY <1>2, <2>1
  <2>3. DOMAIN delayed' = 1..(Len(delayed) + 1)
    BY <2>2
  <2>4. ASSUME NEW k \in DOMAIN delayed'
        PROVE  delayed'[k] = e \/ (k \in DOMAIN delayed /\ delayed'[k] = delayed[k])
    <3>1. k = Len(delayed) + 1 \/ k \in 1..Len(delayed)
      BY <2>2, <2>3
    <3>2. QED
      BY <2>2, <3>1
  <2>5. QED
    BY <2>2, <2>4
<1>4. \A k \in DOMAIN delayed' : Aged(row', age', delayed'[k].message, AsideFor(delayed'[k]))
  BY <1>1, <1>3 DEF AgeInv
<1>5. \A n \in DOMAIN work' : Aged(row', age', n, Waits(n))
  BY BagRemoveDomain DEF PutAside, Acked, AgeInv
<1>6. dead' = dead
  BY DEF PutAside
<1>7. QED
  BY <1>3, <1>4, <1>5, <1>6 DEF AgeInv

(* Requests and the handling of messages that are not put aside.           *)
LEMMA RequestAged ==
  ASSUME AgeInv, NEW o \in Orders, Publish(o) \/ ApiCommit(o)
  PROVE  AgeInv'
<1>1. CASE Publish(o)
  <2> DEFINE m == [order |-> o, retry |-> 0, notready |-> 0]
  <2>1. m \in Message /\ m.order = o /\ m.retry = 0 /\ Waits(m) = 0
    BY Numbers, BoundsNat DEF Message, Waits
  <2>2. work' = BagAdd(work, m) /\ delayed' = delayed /\ dead' = dead
    BY <1>1 DEF Publish
  <2> HIDE DEF m
  <2>3. RowsFlow /\ row'[o] = "open"
    BY <1>1 DEF Publish, RowsFlow, AgeInv, Rows, Unsettled
  <2>4. age' = age /\ age[o] \in Nat
    BY <1>1, BoundsNat DEF Publish, AgeInv
  <2>5. Aged(row', age', m, Waits(m))
    <3>1. age'[m.order] >= Waits(m) /\ row'[m.order] # "none"
      BY <2>1, <2>3, <2>4
    <3>2. QED
      BY <2>1, <3>1 DEF Aged
  <2>6. DOMAIN work' = DOMAIN work \cup {m}
    BY <2>2, BagAddDomain
  <2>7. QED
    BY <2>2, <2>3, <2>5, <2>6, NothingAside
<1>2. CASE ApiCommit(o)
  <2>1. RowsFlow
    BY <1>2 DEF ApiCommit, RowsFlow, AgeInv, Rows, Unsettled, Pending
  <2>2. QED
    BY <1>2, <2>1, NothingAside DEF ApiCommit
<1>3. QED
  BY <1>1, <1>2

(* A step of the workers.                                                  *)
LEMMA WorkerAged ==
  ASSUME AgeInv, NEW m \in BagToSet(work),
         Pay(m) \/ Skip(m) \/ NotReady(m) \/ Decline(m)
  PROVE  AgeInv'
<1>1. /\ m \in Message /\ Aged(row, age, m, Waits(m)) /\ Waits(m) \in Nat
      /\ m.order \in Orders /\ m.retry \in 0..MaxRetries /\ m.notready \in 0..NotReadyMax
  BY WaitsNat DEF AgeInv, BagToSet, Aged
<1>2. /\ age[m.order] \in Nat
      /\ row[m.order] \in Unsettled => age[m.order] >= Waits(m) \/ age[m.order] >= AgeBound
  BY <1>1, BoundsNat DEF AgeInv, Aged
<1>3. ASSUME row' = row, age' = age PROVE RowsFlow
  BY <1>3 DEF RowsFlow, AgeInv
<1>4. ASSUME Acked(m) PROVE \A n \in DOMAIN work' : n \in DOMAIN work
  BY <1>4, BagRemoveDomain DEF Acked
<1>5. ASSUME DeadLetter(m)
      PROVE  /\ \A n \in DOMAIN work' : n \in DOMAIN work
             /\ \A n \in dead' : n \in dead \/ n = m
             /\ delayed' = delayed
  BY <1>5, BagRemoveDomain DEF DeadLetter
<1>6. CASE Pay(m)
  <2>1. RowsFlow
    BY <1>1, <1>6 DEF Pay, Handling, RowsFlow, AgeInv, Rows
  <2>2. QED
    BY <1>4, <1>6, <2>1, NothingAside DEF Pay
<1>7. CASE Skip(m)
  BY <1>3, <1>4, <1>7, NothingAside DEF Skip
<1>8. CASE NotReady(m)
  <2>1. row' = row /\ age' = age /\ row[m.order] = "open" /\ m.retry = 0
    BY <1>1, <1>8 DEF NotReady, Handling, Aged
  <2>2. Waits(m) = m.notready * NotReadyMs
    BY <2>1 DEF Waits
  <2>3. CASE MayRecheck(m) /\ PutAside(m, [m EXCEPT !.notready = @ + 1], NotReadyDelay)
    <3> DEFINE copy == [m EXCEPT !.notready = @ + 1]
    <3>1. /\ copy \in Message /\ copy.order = m.order
          /\ copy.retry = 0 /\ copy.notready = m.notready + 1
      BY <1>1, <2>1, <2>3, Numbers DEF Message, MayRecheck
    <3>2. PutAside(m, copy, NotReadyDelay)
      BY <2>3
    <3> HIDE DEF copy
    <3>3. \A n, d \in Nat : (n + 1) * d - d = n * d
      OBVIOUS
    <3>4. Waits(copy) = (m.notready + 1) * NotReadyMs
      BY <3>1 DEF Waits
    <3>5. ExpirationMs(NotReadyDelay) = NotReadyMs /\ NotReadyMs \in Nat /\ m.notready \in Nat
      BY <1>1, BoundsNat, Numbers DEF ExpirationMs, NotReadyMs
    <3>6. Waits(copy) - ExpirationMs(NotReadyDelay) = Waits(m)
      BY <2>2, <3>3, <3>4, <3>5
    <3>7. Aged(row, age, copy, Waits(m))
      BY <1>1, <2>1, <3>1 DEF Aged
    <3>8. QED
      BY <2>1, <3>2, <3>5, <3>6, <3>7, PutAsideAged
  <2>4. CASE ~ MayRecheck(m) /\ DeadLetter(m)
    <3>1. m.notready = NotReadyMax
      BY <1>1, <2>4, Numbers DEF MayRecheck
    <3>2. age[m.order] >= Window
      BY <1>2, <2>1, <2>2, <3>1, BoundsNat DEF Unsettled
    <3>3. GivenUp(row, age, m)
      BY <1>1, <2>1, <3>2 DEF GivenUp
    <3>4. QED
      BY <1>3, <1>5, <2>1, <2>4, <3>3, NothingAside
  <2>5. QED
    BY <1>8, <2>3, <2>4 DEF NotReady
<1>9. CASE Decline(m)
  <2>1. age' = age /\ row[m.order] \in Pending /\ row[m.order] \in Unsettled
    BY <1>9 DEF Decline, Handling, Unsettled
  <2>2. CASE /\ MayRetry(m) /\ row' = row
             /\ PutAside(m, [m EXCEPT !.retry = @ + 1, !.notready = 0], RetryDelay(m.retry + 1))
    <3> DEFINE n == m.retry + 1
               copy == [m EXCEPT !.retry = n, !.notready = 0]
    <3>1. n \in 1..MaxRetries /\ n \in 0..MaxRetries /\ 0 \in 0..NotReadyMax /\ n > 0
      BY <1>1, <2>2, Numbers DEF MayRetry
    <3>2. PutAside(m, copy, RetryDelay(n))
      BY <2>2
    <3>3. m.retry = n - 1 /\ m.retry \in Nat
      BY <1>1, Numbers
    <3> HIDE DEF n
    <3>4. copy \in Message /\ copy.order = m.order /\ copy.retry = n
      BY <1>1, <3>1 DEF Message
    <3> HIDE DEF copy
    <3>5. Waits(copy) = Backoff[n]
      BY <3>1, <3>4 DEF Waits
    <3>6. ExpirationMs(RetryDelay(n)) = DelayMs(n)
      BY DEF ExpirationMs, RetryDelay, DelayMs
    <3>7. /\ Backoff[n] = Backoff[m.retry] + DelayMs(n)
          /\ DelayMs(n) \in Nat /\ Backoff[m.retry] \in Nat
      BY <1>1, <3>1, <3>3, BackoffNat
    <3>8. Waits(copy) - ExpirationMs(RetryDelay(n)) = Backoff[m.retry]
      BY <3>5, <3>6, <3>7
    <3>9. age[m.order] >= Backoff[m.retry] \/ age[m.order] >= AgeBound
      <4>1. CASE m.retry > 0
        BY <1>2, <2>1, <4>1 DEF Waits
      <4>2. CASE m.retry = 0
        BY <1>2, <4>2, BackoffSums
      <4>3. m.retry > 0 \/ m.retry = 0
        BY <1>1, Numbers
      <4>4. QED
        BY <4>1, <4>2, <4>3
    <3>10. Aged(row, age, copy, Backoff[m.retry])
      BY <1>1, <2>1, <3>4, <3>9 DEF Aged, Pending
    <3>11. QED
      BY <2>1, <2>2, <3>2, <3>6, <3>7, <3>8, <3>10, PutAsideAged
  <2>3. CASE /\ ~ MayRetry(m) /\ DeadLetter(m)
             /\ row' = [row EXCEPT ![m.order] = "FAILED"]
    <3>1. m.retry = MaxRetries
      BY <1>1, <2>3, Numbers DEF MayRetry
    <3>2. m.retry > 0 => age[m.order] >= Backoff[MaxRetries]
      BY <1>2, <2>1, <3>1, BoundsNat DEF Waits
    <3>3. RowsFlow /\ row'[m.order] = "FAILED"
      BY <1>1, <2>1, <2>3 DEF RowsFlow, AgeInv, Rows
    <3>4. GivenUp(row', age', m)
      BY <1>1, <2>1, <3>1, <3>2, <3>3 DEF GivenUp
    <3>5. QED
      BY <1>5, <2>3, <3>3, <3>4, NothingAside
  <2>4. QED
    BY <1>9, <2>2, <2>3 DEF Decline
<1>10. QED
  BY <1>6, <1>7, <1>8, <1>9

(* A message comes back when its last delay is over.                       *)
LEMMA ReleaseAged ==
  ASSUME AgeInv, Release
  PROVE  AgeInv'
<1> DEFINE e == Head(delayed)
<1>1. delayed \in Seq(Entry) /\ delayed # <<>> /\ Expired(e)
  BY DEF AgeInv, Release, HeadExpired
<1>2. /\ Tail(delayed) \in Seq(Entry) /\ e \in Entry /\ 1 \in DOMAIN delayed /\ e = delayed[1]
      /\ \A k \in DOMAIN Tail(delayed) :
           k + 1 \in DOMAIN delayed /\ Tail(delayed)[k] = delayed[k + 1]
  BY <1>1
<1>3. row' = row /\ age' = age /\ dead' = dead /\ delayed' = Tail(delayed)
      /\ work' = BagAdd(work, e.message)
  BY DEF Release
<1>4. Aged(row, age, e.message, AsideFor(e))
  BY <1>2 DEF AgeInv
<1> HIDE DEF e
<1>5. e.message \in Message /\ e.ttl \in Nat /\ e.waited \in Nat /\ e.waited >= e.ttl
  BY <1>1, <1>2 DEF Expired, Entry
<1>6. Waits(e.message) \in Nat /\ e.message.order \in Orders
  BY <1>5, WaitsNat
<1>7. AsideFor(e) >= Waits(e.message) /\ AsideFor(e) \in Int
  BY <1>5, <1>6 DEF AsideFor
<1>8. age[e.message.order] \in Nat
  BY <1>6, BoundsNat DEF AgeInv
<1>9. Aged(row, age, e.message, Waits(e.message))
  BY <1>4, <1>6, <1>7, <1>8 DEF Aged
<1>10. ASSUME NEW n \in DOMAIN work' PROVE Aged(row', age', n, Waits(n))
  <2>1. DOMAIN work' = DOMAIN work \cup {e.message}
    BY <1>3, BagAddDomain
  <2>2. QED
    BY <1>3, <1>9, <2>1 DEF AgeInv
<1>11. \A k \in DOMAIN delayed' : Aged(row', age', delayed'[k].message, AsideFor(delayed'[k]))
  BY <1>2, <1>3 DEF AgeInv
<1>12. QED
  BY <1>2, <1>3, <1>10, <1>11 DEF AgeInv

(* The orders grow older as fast as the messages wait.                     *)
LEMMA TickAged ==
  ASSUME AgeInv, Tick
  PROVE  AgeInv'
<1>1. row' = row /\ dead' = dead /\ work' = work
  BY DEF Tick
<1>2. ASSUME NEW o \in Orders
      PROVE  /\ age[o] \in Nat /\ age'[o] \in 0..AgeBound /\ age'[o] >= age[o]
             /\ row[o] \in Unsettled => age'[o] >= age[o] + 1 \/ age'[o] >= AgeBound
  BY BoundsNat DEF AgeInv, Tick, Older, Unsettled
<1>3. age' \in [Orders -> 0..AgeBound]
  BY <1>2 DEF Tick
<1>4. ASSUME NEW m, NEW t \in Int, NEW u \in Int, u <= t + 1, Aged(row, age, m, t)
      PROVE  Aged(row', age', m, u)
  <2>1. m.order \in Orders
    BY <1>4, WaitsNat DEF Aged
  <2>2. QED
    BY <1>1, <1>2, <1>4, <2>1, BoundsNat DEF Aged
<1>5. ASSUME NEW m \in DOMAIN work' PROVE Aged(row', age', m, Waits(m))
  <2>1. Aged(row, age, m, Waits(m)) /\ Waits(m) \in Nat
    BY <1>1, WaitsNat DEF AgeInv, Aged
  <2>2. Waits(m) \in Int /\ Waits(m) <= Waits(m) + 1
    BY <2>1
  <2>3. QED
    BY <1>4, <2>1, <2>2
<1>6. \A m \in dead' : GivenUp(row', age', m)
  <2> SUFFICES ASSUME NEW m \in dead PROVE GivenUp(row', age', m)
    BY <1>1
  <2>1. GivenUp(row, age, m) /\ m.order \in Orders
    BY WaitsNat DEF AgeInv, GivenUp
  <2>2. age'[m.order] \in Nat /\ age[m.order] \in Nat /\ age'[m.order] >= age[m.order]
    BY <1>2, <2>1, BoundsNat
  <2>3. \A t \in Nat : age[m.order] >= t => age'[m.order] >= t
    BY <2>2
  <2>4. QED
    BY <1>1, <2>1, <2>3, BoundsNat DEF GivenUp
<1>7. /\ delayed \in Seq(Entry) /\ DOMAIN delayed = 1..Len(delayed) /\ Len(delayed) \in Nat
      /\ \A k \in DOMAIN delayed : delayed[k] \in Entry
  BY DEF AgeInv
<1>8. delayed' = [k \in DOMAIN delayed |-> [delayed[k] EXCEPT !.waited = Older(@, WaitBound)]]
  BY DEF Tick
<1>9. ASSUME NEW e \in Entry
      PROVE  LET f == [e EXCEPT !.waited = Older(@, WaitBound)]
             IN  /\ f \in Entry /\ f.message = e.message /\ f.ttl = e.ttl
                 /\ e.ttl \in Nat /\ e.waited \in Nat /\ f.waited <= e.waited + 1
  <2>1. e.ttl \in Nat /\ e.waited \in Nat /\ WaitBound \in Nat
    BY Numbers DEF WaitBound, Entry
  <2>2. Older(e.waited, WaitBound) \in Nat /\ Older(e.waited, WaitBound) <= e.waited + 1
    BY <2>1 DEF Older
  <2> DEFINE n == Older(e.waited, WaitBound)
  <2> HIDE DEF n
  <2>3. LET f == [e EXCEPT !.waited = n]
        IN  f \in Entry /\ f.message = e.message /\ f.ttl = e.ttl /\ f.waited = n
    BY <2>2 DEF Entry, n
  <2>4. QED
    BY <2>1, <2>2, <2>3 DEF n
<1>10. ASSUME NEW k \in DOMAIN delayed
       PROVE  /\ delayed'[k] \in Entry
              /\ Aged(row', age', delayed'[k].message, AsideFor(delayed'[k]))
  <2> DEFINE e == delayed[k]
             f == delayed'[k]
  <2>1. e \in Entry /\ f = [e EXCEPT !.waited = Older(@, WaitBound)]
    BY <1>7, <1>8
  <2>2. Aged(row, age, e.message, AsideFor(e))
    BY DEF AgeInv
  <2> HIDE DEF e, f
  <2>3. /\ f \in Entry /\ f.message = e.message /\ f.ttl = e.ttl /\ f.waited \in Nat
        /\ e.ttl \in Nat /\ e.waited \in Nat /\ f.waited <= e.waited + 1
    <3>1. /\ f \in Entry /\ f.message = e.message /\ f.ttl = e.ttl
          /\ e.ttl \in Nat /\ e.waited \in Nat /\ f.waited <= e.waited + 1
      BY <1>9, <2>1
    <3>2. f.waited \in Nat
      BY <3>1 DEF Entry
    <3>3. QED
      BY <3>1, <3>2
  <2>4. Waits(e.message) \in Nat
    <3>1. e.message \in Message
      BY <2>1 DEF Entry
    <3>2. QED
      BY <3>1, WaitsNat
  <2>5. AsideFor(e) \in Int /\ AsideFor(f) \in Int /\ AsideFor(f) <= AsideFor(e) + 1
    BY <2>3, <2>4 DEF AsideFor
  <2>6. Aged(row', age', f.message, AsideFor(f))
    BY <1>4, <2>2, <2>3, <2>5
  <2>7. QED
    BY <2>3, <2>6 DEF f
<1>11. DOMAIN delayed' = DOMAIN delayed /\ delayed' \in Seq(Entry)
  <2>1. delayed' = [k \in 1..Len(delayed) |-> delayed'[k]]
    BY <1>7, <1>8
  <2>2. QED
    BY <1>7, <1>8, <1>10, <2>1
<1>12. QED
  BY <1>1, <1>3, <1>5, <1>6, <1>10, <1>11 DEF AgeInv

(* What a message's counts say of its order's age never turns false.       *)
LEMMA AgeInvariant == Safety => []AgeInv
<1>1. Init => AgeInv
  <2> SUFFICES ASSUME Init PROVE AgeInv
    OBVIOUS
  <2>1. DOMAIN work = {} /\ delayed = <<>> /\ dead = {}
    BY DEF Init, EmptyBag, SetToBag
  <2>2. row \in Rows /\ age \in [Orders -> 0..AgeBound]
    BY BoundsNat DEF Init, Rows
  <2>3. QED
    BY <2>1, <2>2 DEF AgeInv
<1>2. AgeInv /\ [Next]_vars => AgeInv'
  <2> SUFFICES ASSUME AgeInv, [Next]_vars PROVE AgeInv'
    OBVIOUS
  <2>1. CASE UNCHANGED vars
    BY <2>1 DEF AgeInv, vars
  <2>2. QED
    BY <2>1, RequestAged, WorkerAged, ReleaseAged, TickAged DEF Next, WorkerStep
<1>3. QED
  BY <1>1, <1>2, PTL DEF Safety

(* However its copies, its duplicates and the messages of other orders     *)
(* interleave in the one retry queue, no payment is given up before the    *)
(* whole exponential backoff is over (BackoffHonoured of run retries).     *)
THEOREM NoEarlyFailure == Safety => []BackoffHonoured
<1>1. AgeInv => BackoffHonoured
  BY DEF AgeInv, GivenUp, BackoffHonoured
<1>2. QED
  BY <1>1, AgeInvariant, PTL

(* An order that is committed while the rechecks last is never given up as *)
(* one that never became ready (RecheckWindow of run retries).             *)
THEOREM CommittedInTime == Safety => []RecheckWindow
<1>1. AgeInv => RecheckWindow
  BY DEF AgeInv, GivenUp, RecheckWindow
<1>2. QED
  BY <1>1, AgeInvariant, PTL

----------------------------------------------------------------------------
(* Types.  AgeInv gives those of the orders and the messages; the bag, the *)
(* clocks of the retry queue and the crashes remain.                       *)
CountsOK ==
  /\ IsABag(work)
  /\ delayed \in Seq(Waiting)
  /\ crashes \in 0..MaxCrashes

(* The two operations on bags keep them bags.                              *)
LEMMA BagsStayBags ==
  ASSUME NEW B, NEW x, IsABag(B)
  PROVE  IsABag(BagAdd(B, x)) /\ IsABag(BagRemove(B, x))
<1>1. \A y \in DOMAIN B : B[y] \in Nat /\ B[y] > 0
  BY DEF IsABag
<1>2. IsABag(BagAdd(B, x))
  BY <1>1 DEF IsABag, BagAdd
<1>3. IsABag(BagRemove(B, x))
  BY <1>1 DEF IsABag, BagRemove
<1>4. QED
  BY <1>2, <1>3

(* A step of the workers.                                                  *)
LEMMA WorkerCounts ==
  ASSUME AgeInv, CountsOK, NEW m \in BagToSet(work),
         Pay(m) \/ Skip(m) \/ NotReady(m) \/ Decline(m)
  PROVE  CountsOK'
<1>1. ASSUME Acked(m) PROVE IsABag(work') /\ crashes' \in 0..MaxCrashes
  BY <1>1, BagsStayBags, SettingsAssumption DEF Acked, CountsOK
<1>2. ASSUME DeadLetter(m) PROVE CountsOK'
  BY <1>2, BagsStayBags, SettingsAssumption DEF DeadLetter, CountsOK
<1>3. ASSUME NEW copy \in Message, NEW delay, ExpirationMs(delay) \in 0..LongestDelay,
             PutAside(m, copy, delay)
      PROVE  CountsOK'
  <2>1. Delayed(copy, delay) \in Waiting
    BY <1>3, Numbers DEF Delayed, Waiting, WaitBound
  <2>2. delayed' \in Seq(Waiting)
    BY <1>3, <2>1 DEF PutAside, CountsOK
  <2>3. QED
    BY <1>1, <1>3, <2>2 DEF PutAside, CountsOK
<1>4. m \in Message /\ m.retry \in 0..MaxRetries /\ m.notready \in 0..NotReadyMax
  BY WaitsNat DEF AgeInv, BagToSet, Aged
<1>5. CASE MayRecheck(m) /\ PutAside(m, [m EXCEPT !.notready = @ + 1], NotReadyDelay)
  <2>1. [m EXCEPT !.notready = @ + 1] \in Message
    BY <1>4, <1>5, Numbers DEF Message, MayRecheck
  <2>2. ExpirationMs(NotReadyDelay) \in 0..LongestDelay
    BY SettingsAssumption DEF ExpirationMs
  <2>3. QED
    BY <1>3, <1>5, <2>1, <2>2
<1>6. CASE /\ MayRetry(m)
           /\ PutAside(m, [m EXCEPT !.retry = @ + 1, !.notready = 0], RetryDelay(m.retry + 1))
  <2> DEFINE n == m.retry + 1
  <2>1. n \in 1..MaxRetries /\ n \in 0..MaxRetries /\ 0 \in 0..NotReadyMax
    BY <1>4, <1>6, Numbers DEF MayRetry
  <2>2. PutAside(m, [m EXCEPT !.retry = n, !.notready = 0], RetryDelay(n))
    BY <1>6
  <2> HIDE DEF n
  <2>3. [m EXCEPT !.retry = n, !.notready = 0] \in Message
    BY <1>4, <2>1, CopyMessage
  <2>4. ExpirationMs(RetryDelay(n)) \in 0..LongestDelay
    BY <2>1, SettingsAssumption DEF ExpirationMs, RetryDelay
  <2>5. QED
    BY <1>3, <2>2, <2>3, <2>4
<1>7. CASE Pay(m) \/ Skip(m)
  BY <1>1, <1>7 DEF Pay, Skip, CountsOK
<1>8. QED
  BY <1>2, <1>5, <1>6, <1>7 DEF NotReady, Decline

(* Every variable keeps its type (TypeOK of run retries): in particular no *)
(* copy is counted beyond max_retries or notready_max_retries.             *)
THEOREM RetriesTyped == Safety => []TypeOK
<1>1. Init => CountsOK
  BY SettingsAssumption DEF Init, CountsOK, EmptyBag, SetToBag, IsABag
<1>2. AgeInv /\ CountsOK /\ [Next]_vars => CountsOK'
  <2> SUFFICES ASSUME AgeInv, CountsOK, [Next]_vars PROVE CountsOK'
    OBVIOUS
  <2>1. CASE UNCHANGED vars
    BY <2>1 DEF CountsOK, vars
  <2>2. ASSUME NEW o \in Orders, Publish(o) \/ ApiCommit(o) PROVE CountsOK'
    BY <2>2, BagsStayBags DEF Publish, ApiCommit, CountsOK
  <2>3. CASE Release
    <3>1. delayed \in Seq(Waiting) /\ delayed # <<>>
      BY <2>3 DEF CountsOK, Release, HeadExpired
    <3>2. Tail(delayed) \in Seq(Waiting)
      BY <3>1
    <3>3. QED
      BY <2>3, <3>2, BagsStayBags DEF Release, CountsOK
  <2>4. CASE Tick
    <3>1. /\ delayed \in Seq(Waiting) /\ DOMAIN delayed = 1..Len(delayed) /\ Len(delayed) \in Nat
          /\ \A k \in DOMAIN delayed : delayed[k] \in Waiting
      BY DEF CountsOK
    <3>2. ASSUME NEW e \in Waiting
          PROVE  [e EXCEPT !.waited = Older(@, WaitBound)] \in Waiting
      <4>1. e.waited \in 0..WaitBound /\ WaitBound \in Nat
        BY Numbers DEF Waiting, WaitBound
      <4>2. Older(e.waited, WaitBound) \in 0..WaitBound
        BY <4>1 DEF Older
      <4> DEFINE n == Older(e.waited, WaitBound)
      <4> HIDE DEF n
      <4>3. [e EXCEPT !.waited = n] \in Waiting
        BY <4>2 DEF Waiting, n
      <4>4. QED
        BY <4>3 DEF n
    <3>3. delayed' = [k \in 1..Len(delayed) |->
                        [delayed[k] EXCEPT !.waited = Older(@, WaitBound)]]
      BY <2>4, <3>1 DEF Tick
    <3>4. delayed' \in Seq(Waiting)
      BY <3>1, <3>2, <3>3
    <3>5. QED
      BY <2>4, <3>4 DEF Tick, CountsOK
  <2>5. QED
    BY <2>1, <2>2, <2>3, <2>4, WorkerCounts DEF Next, WorkerStep
<1>3. AgeInv /\ CountsOK => TypeOK
  <2> SUFFICES ASSUME AgeInv, CountsOK PROVE TypeOK
    OBVIOUS
  <2>1. BagToSet(work) \subseteq Message /\ dead \subseteq Message
    BY DEF AgeInv, Aged, GivenUp, BagToSet
  <2>2. Rows = [Orders -> {"none", "open", "PAID", "FAILED"} \cup Pending]
    <3>1. {"none", "PAID", "FAILED"} \cup Unsettled = {"none", "open", "PAID", "FAILED"} \cup Pending
      BY DEF Unsettled
    <3>2. QED
      BY <3>1 DEF Rows
  <2>3. QED
    BY <2>1, <2>2 DEF AgeInv, CountsOK, TypeOK
<1>4. QED
  BY <1>1, <1>2, <1>3, AgeInvariant, PTL DEF Safety

----------------------------------------------------------------------------
(* The queue as a bag, and the untimed retry queue.                        *)
LEMMA AppendAdds ==
  ASSUME NEW E, NEW s \in Seq(E), NEW e \in E
  PROVE  BagOf(Append(s, e)) = BagAdd(BagOf(s), e.message)
<1> DEFINE t == Append(s, e)
           x == e.message
<1>1. /\ MessagesIn(t) = MessagesIn(s) \cup {x}
      /\ Copies(t, x) = Copies(s, x) + 1
      /\ \A m : m # x => Copies(t, m) = Copies(s, m)
  BY AppendAddsCopy
<1>2. x \in MessagesIn(s) <=> Copies(s, x) # 0
  BY CopiesCounted
<1> HIDE DEF t, x
<1>3. BagOf(s) = [m \in MessagesIn(s) |-> Copies(s, m)] /\ DOMAIN BagOf(s) = MessagesIn(s)
  BY DEF BagOf
<1>4. BagOf(t) = [m \in MessagesIn(t) |-> Copies(t, m)]
  BY DEF BagOf
<1>5. CASE x \in MessagesIn(s)
  BY <1>1, <1>3, <1>4, <1>5 DEF BagAdd, t, x
<1>6. CASE x \notin MessagesIn(s)
  <2>1. Copies(t, x) = 1
    BY <1>1, <1>2, <1>6
  <2>2. QED
    BY <1>1, <1>3, <1>4, <1>6, <2>1 DEF BagAdd, t, x
<1>7. QED
  BY <1>5, <1>6

(* Taking the head takes one copy of its message.                          *)
LEMMA TailRemoves ==
  ASSUME NEW E, NEW s \in Seq(E), s # <<>>
  PROVE  /\ Head(s).message \in DOMAIN BagOf(s)
         /\ BagOf(Tail(s)) = BagRemove(BagOf(s), Head(s).message)
<1> DEFINE t == Tail(s)
           x == Head(s).message
<1>1. /\ x \in MessagesIn(s)
      /\ Copies(t, x) = Copies(s, x) - 1
      /\ \A m : m # x => Copies(t, m) = Copies(s, m)
  BY TailTakesCopy
<1>2. t \in Seq(E)
  OBVIOUS
<1>3. \A m : m \in MessagesIn(t) <=> Copies(t, m) # 0
  BY <1>2, CopiesCounted
<1>4. \A m : Copies(s, m) \in Nat /\ (m \in MessagesIn(s) <=> Copies(s, m) # 0)
  BY CopiesCounted
<1> HIDE DEF t, x
<1>5. BagOf(s) = [m \in MessagesIn(s) |-> Copies(s, m)] /\ DOMAIN BagOf(s) = MessagesIn(s)
  BY DEF BagOf
<1>6. BagOf(t) = [m \in MessagesIn(t) |-> Copies(t, m)]
  BY DEF BagOf
<1>7. \A m : m # x => (m \in MessagesIn(t) <=> m \in MessagesIn(s))
  BY <1>1, <1>3, <1>4
<1>8. CASE Copies(s, x) = 1
  <2>1. x \notin MessagesIn(t)
    BY <1>1, <1>3, <1>8
  <2>2. MessagesIn(t) = MessagesIn(s) \ {x}
    BY <1>7, <2>1
  <2>3. BagOf(t) = [m \in MessagesIn(s) \ {x} |-> BagOf(s)[m]]
    BY <1>1, <1>5, <1>6, <2>2
  <2>4. QED
    BY <1>1, <1>5, <1>8, <2>3 DEF BagRemove, t, x
<1>9. CASE Copies(s, x) # 1
  <2>1. x \in MessagesIn(t)
    BY <1>1, <1>3, <1>4, <1>9
  <2>2. \A m : m \in MessagesIn(t) <=> m \in MessagesIn(s)
    BY <1>1, <1>7, <2>1
  <2>3. BagOf(t) = [m \in MessagesIn(s) |-> IF m = x THEN BagOf(s)[m] - 1 ELSE BagOf(s)[m]]
    <3>1. MessagesIn(t) = MessagesIn(s)
      BY <2>2 DEF MessagesIn
    <3>2. QED
      BY <1>1, <1>5, <1>6, <3>1
  <2>4. QED
    BY <1>1, <1>5, <1>9, <2>3 DEF BagRemove, t, x
<1>10. QED
  BY <1>8, <1>9

(* The abstract module's bag operators are the same.                       *)
LEMMA SameBags ==
  \A B, x : /\ Untimed!BagAdd(B, x) = BagAdd(B, x)
            /\ Untimed!BagRemove(B, x) = BagRemove(B, x)
BY DEF Untimed!BagAdd, Untimed!BagRemove, BagAdd, BagRemove

(* An expired message comes back as ComeBack says.                         *)
LEMMA ReleaseComesBack ==
  ASSUME TypeOK, Release
  PROVE  \E m \in Message : Untimed!ComeBack(m)
<1> DEFINE m == Head(delayed).message
<1>1. delayed \in Seq(Waiting) /\ delayed # <<>>
  BY DEF TypeOK, Release, HeadExpired
<1>2. m \in Message
  <2>1. Head(delayed) \in Waiting
    BY <1>1
  <2>2. QED
    BY <2>1 DEF Waiting
<1>3. m \in DOMAIN Aside /\ Aside' = BagRemove(Aside, m)
  BY <1>1, TailRemoves DEF Release, Aside
<1>4. work' = BagAdd(work, m)
  BY DEF Release
<1> HIDE DEF m
<1>5. Untimed!ComeBack(m)
  BY <1>3, <1>4, SameBags DEF Untimed!ComeBack
<1>6. QED
  BY <1>2, <1>5

(* A copy that is sent to the retry queue is put aside as PutAside says.   *)
LEMMA DelayPutsAside ==
  ASSUME TypeOK, NEW m \in Message, NEW copy \in Message, NEW delay,
         ExpirationMs(delay) \in 0..LongestDelay, PutAside(m, copy, delay)
  PROVE  Untimed!PutAside(copy)
<1> DEFINE e == Delayed(copy, delay)
<1>1. e \in Waiting /\ e.message = copy
  BY Numbers DEF Delayed, Waiting, WaitBound
<1> HIDE DEF e
<1>2. delayed \in Seq(Waiting) /\ delayed' = Append(delayed, e)
  BY DEF TypeOK, PutAside, e
<1>3. Aside' = BagAdd(Aside, copy)
  BY <1>1, <1>2, AppendAdds DEF Aside
<1>4. work' = work \/ work' = BagRemove(work, m)
  BY DEF PutAside, Acked
<1>5. QED
  BY <1>3, <1>4, SameBags DEF Untimed!PutAside

(* A step of the workers takes a message, puts one aside, or does nothing  *)
(* to the two queues.                                                      *)
LEMMA WorkerUntimed ==
  ASSUME TypeOK, NEW m \in BagToSet(work), Pay(m) \/ Skip(m) \/ NotReady(m) \/ Decline(m)
  PROVE  \/ \E n \in Message : Untimed!Take(n) \/ Untimed!PutAside(n)
         \/ UNCHANGED <<work, Aside>>
<1>1. /\ m \in Message /\ m \in DOMAIN work
      /\ m.retry \in 0..MaxRetries /\ m.notready \in 0..NotReadyMax
  BY DEF TypeOK, BagToSet, Message
<1>2. ASSUME work' = work \/ work' = BagRemove(work, m), UNCHANGED delayed
      PROVE  Untimed!Take(m) \/ UNCHANGED <<work, Aside>>
  BY <1>1, <1>2, SameBags DEF Untimed!Take, Aside
<1>3. CASE Pay(m) \/ Skip(m) \/ DeadLetter(m)
  BY <1>1, <1>2, <1>3 DEF Pay, Skip, DeadLetter, Acked
<1>4. CASE MayRecheck(m) /\ PutAside(m, [m EXCEPT !.notready = @ + 1], NotReadyDelay)
  <2>1. [m EXCEPT !.notready = @ + 1] \in Message
    BY <1>1, <1>4, Numbers DEF Message, MayRecheck
  <2>2. ExpirationMs(NotReadyDelay) \in 0..LongestDelay
    BY SettingsAssumption DEF ExpirationMs
  <2>3. QED
    BY <1>1, <1>4, <2>1, <2>2, DelayPutsAside
<1>5. CASE /\ MayRetry(m)
           /\ PutAside(m, [m EXCEPT !.retry = @ + 1, !.notready = 0], RetryDelay(m.retry + 1))
  <2> DEFINE n == m.retry + 1
  <2>1. n \in 1..MaxRetries /\ n \in 0..MaxRetries /\ 0 \in 0..NotReadyMax
    BY <1>1, <1>5, Numbers DEF MayRetry
  <2>2. PutAside(m, [m EXCEPT !.retry = n, !.notready = 0], RetryDelay(n))
    BY <1>5
  <2> HIDE DEF n
  <2>3. [m EXCEPT !.retry = n, !.notready = 0] \in Message
    BY <1>1, <2>1, CopyMessage
  <2>4. ExpirationMs(RetryDelay(n)) \in 0..LongestDelay
    BY <2>1, SettingsAssumption DEF ExpirationMs, RetryDelay
  <2>5. QED
    BY <1>1, <2>2, <2>3, <2>4, DelayPutsAside
<1>6. QED
  BY <1>3, <1>4, <1>5 DEF NotReady, Decline

(* A tick changes no message.                                              *)
LEMMA TickUntimed ==
  ASSUME TypeOK, Tick PROVE UNCHANGED <<work, Aside>>
<1>1. /\ DOMAIN delayed' = DOMAIN delayed
      /\ \A k \in DOMAIN delayed : delayed'[k].message = delayed[k].message
  <2>1. \A k \in DOMAIN delayed : delayed[k] \in Waiting
    BY DEF TypeOK
  <2>2. \A e \in Waiting : \A n : [e EXCEPT !.waited = n].message = e.message
    BY DEF Waiting
  <2>3. QED
    BY <2>1, <2>2 DEF Tick
<1>2. \A m : Places(delayed', m) = Places(delayed, m)
  BY <1>1 DEF Places
<1>3. MessagesIn(delayed') = MessagesIn(delayed)
  BY <1>1 DEF MessagesIn
<1>4. QED
  BY <1>2, <1>3 DEF Aside, BagOf, Copies, Tick

(* The timed queue implements the retry queue that Messaging assumes, but  *)
(* for its fairness (Safety of DelayedRetry, the safety part of            *)
(* RetriesComeBack): whatever expires, in whatever order, is one of the    *)
(* messages put aside, once and unchanged.                                 *)
THEOREM RetriesRefine == Safety => Untimed!Safety
<1>1. Init => Untimed!Init
  <2> SUFFICES ASSUME Init PROVE Untimed!Init
    OBVIOUS
  <2>1. DOMAIN delayed = {} /\ work = [m \in {} |-> 0]
    BY DEF Init, EmptyBag, SetToBag
  <2>2. MessagesIn(delayed) = {}
    BY <2>1 DEF MessagesIn
  <2>3. QED
    BY <2>1, <2>2 DEF Untimed!Init, Untimed!NoMessages, Aside, BagOf
<1>2. TypeOK /\ [Next]_vars => [Untimed!Next]_<<work, Aside>>
  <2> SUFFICES ASSUME TypeOK, [Next]_vars, ~ UNCHANGED <<work, Aside>> PROVE Untimed!Next
    OBVIOUS
  <2>1. ASSUME NEW o \in Orders, Publish(o) PROVE Untimed!Next
    <3>1. [order |-> o, retry |-> 0, notready |-> 0] \in Message
      BY Numbers DEF Message
    <3>2. Untimed!Arrive([order |-> o, retry |-> 0, notready |-> 0])
      BY <2>1, SameBags DEF Publish, Untimed!Arrive, Aside
    <3>3. QED
      BY <3>1, <3>2 DEF Untimed!Next
  <2>2. CASE WorkerStep
    BY <2>2, WorkerUntimed DEF WorkerStep, Untimed!Next
  <2>3. CASE Release
    BY <2>3, ReleaseComesBack DEF Untimed!Next
  <2>4. CASE Tick
    BY <2>4, TickUntimed
  <2>5. ASSUME NEW o \in Orders, ApiCommit(o) PROVE UNCHANGED <<work, Aside>>
    BY <2>5 DEF ApiCommit, Aside
  <2>6. CASE UNCHANGED vars
    BY <2>6 DEF vars, Aside
  <2>7. QED
    BY <2>1, <2>2, <2>3, <2>4, <2>5, <2>6 DEF Next
<1>3. QED
  BY <1>1, <1>2, RetriesTyped, PTL DEF Safety, Untimed!Safety, Untimed!vars
=============================================================================
