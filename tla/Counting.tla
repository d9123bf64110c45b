------------------------------ MODULE Counting ------------------------------
(***************************************************************************)
(* Facts about numbers and finite sets that the proofs use: induction      *)
(* over the natural numbers, in the form that needs no operator as a       *)
(* parameter, and how many copies of a message stand in a queue.           *)
(***************************************************************************)
EXTENDS QueueBag, Integers, FiniteSetTheorems, TLAPS

(* A nonempty set of naturals has a least element.                         *)
LEMMA LeastNatural ==
  ASSUME NEW T, T \subseteq Nat, T # {}
  PROVE  \E x \in T : \A y \in T : x <= y
<1> DEFINE R == OpToRel(<, Nat)
<1>1. IsWellFoundedOn(R, Nat)
  BY NatLessThanWellFounded
<1>2. \A y, x \in Nat : y < x => <<y, x>> \in R
  BY DEF OpToRel
<1> HIDE DEF R
<1>3. PICK x \in T : \A y \in T : ~ (<<y, x>> \in R)
  BY <1>1, WFMin
<1>4. ASSUME NEW y \in T PROVE x <= y
  <2>1. x \in Nat /\ y \in Nat
    OBVIOUS
  <2>2. ~ (y < x)
    BY <1>2, <1>3, <2>1
  <2>3. QED
    BY <2>1, <2>2
<1>5. QED
  BY <1>4

----------------------------------------------------------------------------
(* A queue holds finitely many copies, at least one if any.                *)
LEMMA CopiesCounted ==
  ASSUME NEW E, NEW s \in Seq(E), NEW m
  PROVE  /\ IsFiniteSet(Places(s, m))
         /\ Copies(s, m) \in Nat
         /\ m \in MessagesIn(s) <=> Copies(s, m) # 0
<1>1. Places(s, m) \in SUBSET (1..Len(s)) /\ Len(s) \in Int /\ 1 \in Int
  BY DEF Places
<1>2. IsFiniteSet(1..Len(s))
  BY <1>1, FS_Interval
<1>3. IsFiniteSet(Places(s, m))
  BY <1>1, <1>2, FS_Subset
<1>4. Copies(s, m) \in Nat
  BY <1>3, FS_CardinalityType DEF Copies
<1>5. m \in MessagesIn(s) <=> Places(s, m) # {}
  BY DEF Places, MessagesIn
<1>6. Places(s, m) # {} <=> Copies(s, m) # 0
  BY <1>3, FS_EmptySet DEF Copies
<1>7. QED
  BY <1>3, <1>4, <1>5, <1>6

(* Appending adds one copy of the message appended.                        *)
LEMMA AppendAddsCopy ==
  ASSUME NEW E, NEW s \in Seq(E), NEW e \in E
  PROVE  LET t == Append(s, e)
         IN  /\ MessagesIn(t) = MessagesIn(s) \cup {e.message}
             /\ Copies(t, e.message) = Copies(s, e.message) + 1
             /\ \A m : m # e.message => Copies(t, m) = Copies(s, m)
<1> DEFINE t == Append(s, e)
           n == Len(s) + 1
           x == e.message
<1>1. /\ t \in Seq(E) /\ DOMAIN t = DOMAIN s \cup {n} /\ n \notin DOMAIN s
      /\ t[n] = e /\ \A k \in DOMAIN s : t[k] = s[k]
  OBVIOUS
<1> HIDE DEF t, n
<1>2. Places(t, x) = Places(s, x) \cup {n} /\ n \notin Places(s, x)
  BY <1>1 DEF Places
<1>3. IsFiniteSet(Places(s, x))
  BY CopiesCounted
<1>4. Copies(t, x) = Copies(s, x) + 1
  BY <1>2, <1>3, FS_AddElement DEF Copies
<1>5. \A m : m # x => Places(t, m) = Places(s, m)
  BY <1>1 DEF Places
<1>6. MessagesIn(t) = MessagesIn(s) \cup {x}
  BY <1>1 DEF MessagesIn
<1>7. QED
  BY <1>4, <1>5, <1>6 DEF Copies, t

(* The positions behind the head are those of the tail.                    *)
LEMMA TailCopies ==
  ASSUME NEW E, NEW s \in Seq(E), s # <<>>, NEW m
  PROVE  Copies(Tail(s), m) = Cardinality(Places(s, m) \ {1})
<1> DEFINE t == Tail(s)
           S == Places(t, m)
           T == Places(s, m) \ {1}
           f == [k \in S |-> k + 1]
<1>1. /\ t \in Seq(E) /\ Len(s) \in Nat \ {0} /\ DOMAIN s = 1..Len(s)
      /\ DOMAIN t = 1..(Len(s) - 1) /\ \A k \in DOMAIN t : t[k] = s[k + 1]
  OBVIOUS
<1> HIDE DEF t
<1>2. \A k \in S : k \in Nat /\ k + 1 \in T
  BY <1>1 DEF Places
<1>3. ASSUME NEW j \in T PROVE \E k \in S : k + 1 = j
  <2>1. j - 1 \in DOMAIN t /\ (j - 1) + 1 = j
    BY <1>1 DEF Places
  <2>2. j - 1 \in S
    BY <1>1, <2>1 DEF Places
  <2>3. QED
    BY <2>1, <2>2
<1> HIDE DEF S, T
<1>4. f \in Bijection(S, T)
  BY <1>2, <1>3 DEF Bijection, Injection, Surjection, IsInjective
<1> HIDE DEF f
<1>5. ExistsBijection(S, T)
  BY <1>4 DEF ExistsBijection
<1>6. IsFiniteSet(S)
  BY <1>1, CopiesCounted DEF S
<1>7. Cardinality(T) = Cardinality(S)
  BY <1>5, <1>6, FS_Bijection
<1>8. QED
  BY <1>7 DEF Copies, S, T, t

(* Taking the head takes one copy of its message.                          *)
LEMMA TailTakesCopy ==
  ASSUME NEW E, NEW s \in Seq(E), s # <<>>
  PROVE  LET t == Tail(s)
             x == Head(s).message
         IN  /\ x \in MessagesIn(s)
             /\ Copies(t, x) = Copies(s, x) - 1
             /\ \A m : m # x => Copies(t, m) = Copies(s, m)
<1> DEFINE t == Tail(s)
           x == Head(s).message
<1>1. 1 \in DOMAIN s /\ x = s[1].message
  OBVIOUS
<1>2. \A m : Copies(t, m) = Cardinality(Places(s, m) \ {1})
  BY TailCopies
<1> HIDE DEF t, x
<1>3. 1 \in Places(s, x) /\ x \in MessagesIn(s)
  BY <1>1 DEF Places, MessagesIn
<1>4. IsFiniteSet(Places(s, x))
  BY CopiesCounted
<1>5. Copies(t, x) = Copies(s, x) - 1
  BY <1>2, <1>3, <1>4, FS_RemoveElement DEF Copies
<1>6. \A m : m # x => Places(s, m) \ {1} = Places(s, m)
  BY <1>1 DEF Places
<1>7. \A m : m # x => Copies(t, m) = Copies(s, m)
  BY <1>2, <1>6 DEF Copies
<1>8. QED
  BY <1>3, <1>5, <1>7 DEF t, x
=============================================================================
