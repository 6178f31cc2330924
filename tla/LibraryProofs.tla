---------------------------- MODULE LibraryProofs ----------------------------
(***************************************************************************)
(* Invariants of the library's smaller concurrent utilities, each for      *)
(* every value of its constants.  The utilities share nothing; there is a  *)
(* section for each of them.                                               *)
(***************************************************************************)
EXTENDS Library, Sequences, FiniteSetTheorems, NaturalsInduction,
        WellFoundedInduction, TLAPS

-----------------------------------------------------------------------------
(* Numbers *)

\* Sets of natural numbers have a least element ...
LEMMA Least ==
  ASSUME NEW S, S \subseteq Nat, S # {}
  PROVE  \E m \in S : \A x \in S : m <= x
<1>1. PICK m \in S : \A x \in S : ~(<<x, m>> \in OpToRel(<, Nat))
  BY NatLessThanWellFounded, WFMin
<1>2. \A x \in S : ~(x < m)
  BY <1>1 DEF OpToRel
<1> QED
  BY <1>2

\* ... and, if they are bounded, a greatest one.
LEMMA Greatest ==
  ASSUME NEW n \in Nat, NEW S, S \subseteq 0 .. n, S # {}
  PROVE  \E m \in S : \A x \in S : x <= m
<1> DEFINE T == {n - x : x \in S}
<1>1. T \subseteq Nat /\ T # {}
  <2>1. \A x \in S : n - x \in Nat
    OBVIOUS
  <2>2. PICK x : x \in S
    OBVIOUS
  <2>3. n - x \in T
    BY <2>2
  <2> QED
    BY <2>1, <2>3
<1>2. PICK t \in T : \A u \in T : t <= u
  <2> HIDE DEF T
  <2> QED
    BY <1>1, Least
<1>3. PICK m \in S : t = n - m
  BY <1>2
<1>4. ASSUME NEW x \in S PROVE x <= m
  <2>1. n - x \in T
    OBVIOUS
  <2>2. n - m <= n - x
    BY <1>2, <1>3, <2>1
  <2> QED
    BY <2>2
<1> QED
  BY <1>4

\* Different multiples are apart.
LEMMA Multiples ==
  ASSUME NEW n \in Nat, NEW p \in Nat, NEW q \in Nat, p < q
  PROVE  n * p + n <= n * q
<1>1. PICK d \in Nat : q = p + 1 + d
  <2>1. q - (p + 1) \in Nat /\ q = p + 1 + (q - (p + 1))
    OBVIOUS
  <2> QED
    BY <2>1
<1>2. n * p \in Nat /\ n * d \in Nat
  OBVIOUS
<1>3. n * (p + 1 + d) = n * p + n + n * d
  OBVIOUS
<1> QED
  BY <1>1, <1>2, <1>3

\* Division with a remainder.
LEMMA Remainder ==
  ASSUME NEW a \in Nat, NEW b \in Nat, b >= 1
  PROVE  \E q \in Nat : \E m \in 0 .. (b - 1) : m = a % b /\ a = b * q + m
<1>1. a % b \in 0 .. (b - 1) /\ a \div b \in Nat
  OBVIOUS
<1>2. a % b = a - b * (a \div b)
  OBVIOUS
<1>3. PICK q, p, m : q = a \div b /\ p = b * q /\ m = a % b
  OBVIOUS
<1>4. p \in Nat /\ m \in Nat /\ q \in Nat /\ m \in 0 .. (b - 1)
  BY <1>1, <1>3
<1>5. m = a - p
  BY <1>2, <1>3
<1>6. a = p + m
  BY ONLY <1>4, <1>5, a \in Nat
<1>7. m = a % b /\ p = b * q
  BY <1>3
<1> QED
  BY ONLY <1>4, <1>6, <1>7

\* Numbers that are not far apart differ in their remainders ...
LEMMA SameRemainder ==
  ASSUME NEW n \in Nat, n >= 1, NEW a \in Nat, NEW b \in Nat, a <= b, b < a + n, a % n = b % n
  PROVE  a = b
<1>2. n \in Nat /\ n >= 1
  OBVIOUS
<1>3. PICK q \in Nat, m \in 0 .. (n - 1) : m = a % n /\ a = n * q + m
  BY <1>2, Remainder
<1>4. PICK p \in Nat, k \in 0 .. (n - 1) : k = b % n /\ b = n * p + k
  BY <1>2, Remainder
<1>5. m = k
  BY <1>3, <1>4
<1>6. PICK x, y : x = n * q /\ y = n * p /\ x \in Nat /\ y \in Nat
  BY <1>2
<1>7. a = x + m /\ b = y + m /\ m \in Nat /\ b < a + n /\ a <= b
  BY <1>2, <1>3, <1>4, <1>5, <1>6
<1>8. CASE q = p
  BY <1>6, <1>7, <1>8
<1>9. CASE q < p
  <2>1. x + n <= y
    BY <1>2, <1>6, <1>9, Multiples
  <2> QED
    BY ONLY <1>2, <1>6, <1>7, <2>1
<1>10. CASE p < q
  <2>1. y + n <= x
    BY <1>2, <1>6, <1>10, Multiples
  <2> QED
    BY ONLY <1>2, <1>6, <1>7, <2>1
<1> QED
  BY <1>8, <1>9, <1>10

\* ... which come again.
LEMMA NextRemainder ==
  ASSUME NEW n \in Nat, n >= 1, NEW a \in Nat
  PROVE  a % n \in 0 .. (n - 1) /\ (a + n) % n = a % n
<1>2. n \in Nat /\ n >= 1
  OBVIOUS
<1>3. PICK q \in Nat, m \in 0 .. (n - 1) : m = a % n /\ a = n * q + m
  BY <1>2, Remainder
<1>4. PICK b : b = a + n
  OBVIOUS
<1>5. PICK p \in Nat, k \in 0 .. (n - 1) : k = b % n /\ b = n * p + k
  <2>1. b \in Nat
    BY <1>2, <1>4
  <2> QED
    BY ONLY <1>2, <2>1, Remainder
<1>6. PICK r, x, y : r = q + 1 /\ x = n * r /\ y = n * p
  OBVIOUS
<1>7. r \in Nat /\ x \in Nat /\ y \in Nat /\ m \in Nat /\ k \in Nat /\ m < n /\ k < n
  BY <1>2, <1>6
<1>8. x + m = y + k
  <2>1. n * (q + 1) = n * q + n /\ n * q \in Nat
    BY <1>2
  <2>2. x = n * q + n
    BY <1>6, <2>1
  <2> QED
    BY <1>2, <1>3, <1>4, <1>5, <1>6, <1>7, <2>1, <2>2
<1>10. ASSUME p < r PROVE FALSE
  <2>1. y + n <= x
    BY <1>2, <1>6, <1>7, <1>10, Multiples
  <2> QED
    BY ONLY <1>2, <1>7, <1>8, <2>1
<1>11. ASSUME r < p PROVE FALSE
  <2>1. x + n <= y
    BY <1>2, <1>6, <1>7, <1>11, Multiples
  <2> QED
    BY ONLY <1>2, <1>7, <1>8, <2>1
<1>12. k = m
  <2>1. p = r => k = m
    BY <1>6, <1>7, <1>8
  <2>2. p = r
    BY <1>7, <1>10, <1>11
  <2> QED
    BY <2>1, <2>2
<1> QED
  BY <1>3, <1>4, <1>5, <1>12

-----------------------------------------------------------------------------
(* RefPtr *)

\* The pointers, and who is in the middle of giving up a reference: only an
\* owner is, and the pointer that it takes over from rests meanwhile.
RefControl ==
  /\ refPtr \in [Pointers -> {"null", "owned", "unowned"}]
  /\ dropping \in [Pointers -> [step : {"idle", "load", "subtract"}, from : Pointers \cup {"nobody"}]]
  /\ refcnt \in Nat /\ deleted \in Nat
  /\ \A p \in Pointers : dropping[p].step = "idle" => dropping[p].from = "nobody"
  /\ \A p \in Pointers : dropping[p].step # "idle" => refPtr[p] = "owned"
  /\ \A p, q \in Pointers : dropping[p].from = q /\ p # q => dropping[q].step = "idle"

\* The instance counts as the theorems about finite sets do.
LEMMA RefCardinality == \A S : Ref!Cardinality(S) = Cardinality(S)
BY DEF Ref!Cardinality, Cardinality

\* A finished drop takes one owner away, whatever it takes over.
LEMMA FinishDrops ==
  ASSUME IsFiniteSet(Pointers), "nobody" \notin Pointers, RefControl,
         NEW p \in Pointers, dropping[p].step # "idle", Ref!Finish(p),
         refcnt' \in Nat, deleted' \in Nat
  PROVE  /\ RefControl'
         /\ IsFiniteSet(Ref!Owners) /\ Cardinality(Ref!Owners) \in Nat \ {0}
         /\ Cardinality(Ref!Owners') = Cardinality(Ref!Owners) - 1
         /\ (Cardinality(Ref!Owners') = 0) <=> (Ref!Owners' = {})
<1> DEFINE q == dropping[p].from
<1>1. /\ refPtr' = [r \in Pointers |-> IF r = q \/ (r = p /\ q \in {"nobody", p}) THEN "null"
                                       ELSE IF r = p THEN refPtr[q] ELSE refPtr[r]]
      /\ dropping' = [dropping EXCEPT ![p] = [step |-> "idle", from |-> "nobody"]]
      /\ q \in Pointers \cup {"nobody"} /\ refPtr[p] = "owned"
  BY DEF Ref!Finish, Ref!Taken, Ref!Idle, RefControl
<1>2. RefControl'
  BY <1>1 DEF RefControl
<1>3. IsFiniteSet(Ref!Owners) /\ p \in Ref!Owners
  BY <1>1, FS_Subset DEF Ref!Owners
<1>4. Ref!Owners' = IF q \in Pointers /\ q # p /\ refPtr[q] = "owned" THEN Ref!Owners \ {q} ELSE Ref!Owners \ {p}
  BY <1>1 DEF Ref!Owners, RefControl
<1>5. /\ Cardinality(Ref!Owners \ {p}) = Cardinality(Ref!Owners) - 1
      /\ q \in Ref!Owners => Cardinality(Ref!Owners \ {q}) = Cardinality(Ref!Owners) - 1
      /\ IsFiniteSet(Ref!Owners \ {p}) /\ IsFiniteSet(Ref!Owners \ {q})
      /\ Cardinality(Ref!Owners) \in Nat
  BY <1>3, FS_RemoveElement, FS_CardinalityType
<1>6. Cardinality(Ref!Owners) # 0
  BY <1>3, FS_EmptySet
<1>7. (Cardinality(Ref!Owners') = 0) <=> (Ref!Owners' = {})
  BY <1>4, <1>5, FS_EmptySet
<1> QED
  BY <1>2, <1>3, <1>4, <1>5, <1>6, <1>7 DEF Ref!Owners

RefInv == RefControl /\ Ref!DeletedByLastOwner

\* RefPtr.h:36-50, 121-262, for any number of pointers in any number of threads:
\* the object is deleted once, when the last owner drops its reference and not
\* before, and never when it is a singleton.
THEOREM RefPtrDeletesOnce ==
  Ref!Spec => []DeletedByLastOwner
<1> USE PointersAssumption
<1>1. Ref!Init => RefInv
  <2> SUFFICES ASSUME NEW first \in Pointers, NEW kind \in {"owned", "unowned"},
                      refPtr = [p \in Pointers |-> IF p = first THEN kind ELSE "null"],
                      dropping = [p \in Pointers |-> Ref!Idle],
                      refcnt = 1, deleted = 0
               PROVE  RefInv
    BY DEF Ref!Init
  <2>1. RefControl
    BY DEF RefControl, Ref!Idle
  <2>2. CASE kind = "owned"
    <3>1. Ref!Owners = {first}
      BY <2>2 DEF Ref!Owners
    <3> QED
      BY <2>1, <3>1, FS_Singleton, RefCardinality DEF RefInv, Ref!DeletedByLastOwner
  <2>3. CASE kind = "unowned"
    <3>1. Ref!Owners = {}
      BY <2>3 DEF Ref!Owners
    <3> QED
      BY <2>1, <2>3, <3>1, RefCardinality DEF RefInv, Ref!DeletedByLastOwner
  <2> QED
    BY <2>2, <2>3
<1>2. RefInv /\ [Ref!Next]_(Ref!refVars) => RefInv'
  <2> SUFFICES ASSUME RefInv, [Ref!Next]_(Ref!refVars) PROVE RefInv'
    OBVIOUS
  <2>1. RefControl /\ Ref!DeletedByLastOwner
    BY DEF RefInv
  <2>2. /\ IsFiniteSet(Ref!Owners) /\ Cardinality(Ref!Owners) \in Nat
        /\ Ref!Owners # {} => deleted = 0 /\ refcnt = Cardinality(Ref!Owners)
        /\ Ref!Owners = {} => \/ deleted = 1
                               \/ \A p \in Pointers : refPtr[p] \in {"null", "unowned"} /\ refcnt = 1
        /\ deleted <= 1
    <3>1. Ref!Owners \subseteq Pointers
      BY DEF Ref!Owners
    <3>2. IsFiniteSet(Ref!Owners) /\ Cardinality(Ref!Owners) \in Nat
      BY <3>1, FS_Subset, FS_CardinalityType
    <3> QED
      BY <2>1, <3>2, RefCardinality DEF Ref!DeletedByLastOwner
  <2>3. ASSUME NEW from \in Pointers, NEW to \in Pointers, Ref!Copy(from, to) PROVE RefInv'
    <3>1. RefControl'
      BY <2>1, <2>3 DEF RefControl, Ref!Copy, Ref!Quiet, Ref!Idle
    <3>2. CASE refPtr[from] = "owned"
      <4>1. Ref!Owners' = Ref!Owners \cup {to} /\ to \notin Ref!Owners /\ from \in Ref!Owners
        BY <2>1, <2>3, <3>2 DEF Ref!Owners, Ref!Copy, RefControl
      <4>2. Cardinality(Ref!Owners') = Cardinality(Ref!Owners) + 1
        BY <2>2, <4>1, FS_AddElement
      <4>3. refcnt' = refcnt + 1 /\ deleted' = deleted
        BY <2>3, <3>2 DEF Ref!Copy
      <4> QED
        BY <2>2, <3>1, <4>1, <4>2, <4>3, RefCardinality DEF RefInv, Ref!DeletedByLastOwner
    <3>3. CASE refPtr[from] # "owned"
      <4>1. Ref!Owners' = Ref!Owners /\ refPtr'[to] = refPtr[from]
        BY <2>1, <2>3, <3>3 DEF Ref!Owners, Ref!Copy, RefControl
      <4>2. refcnt' = refcnt /\ deleted' = deleted
        BY <2>3, <3>3 DEF Ref!Copy
      <4>3. \A p \in Pointers : refPtr'[p] = refPtr[p] \/ refPtr'[p] = refPtr[from]
        BY <2>1, <2>3 DEF Ref!Copy, RefControl
      <4> QED
        BY <2>2, <3>1, <4>1, <4>2, <4>3, RefCardinality DEF RefInv, Ref!DeletedByLastOwner
    <3> QED
      BY <3>2, <3>3
  <2>4. ASSUME NEW to \in Pointers, NEW from \in Pointers \cup {"nobody"}, Ref!Drop(to, from)
        PROVE  RefInv'
    <3>1. CASE refPtr[to] = "owned"
      <4>1. RefControl'
        BY <2>1, <2>4, <3>1 DEF RefControl, Ref!Drop, Ref!Quiet, Ref!Idle
      <4> QED
        BY <2>1, <2>4, <3>1, <4>1 DEF Ref!Drop, RefInv, Ref!DeletedByLastOwner, Ref!Owners
    <3>2. CASE refPtr[to] # "owned"
      <4>1. /\ refPtr' = [r \in Pointers |-> IF r = from \/ (r = to /\ from \in {"nobody", to}) THEN "null"
                                             ELSE IF r = to THEN refPtr[from] ELSE refPtr[r]]
            /\ UNCHANGED <<dropping, refcnt, deleted>>
        BY <2>4, <3>2 DEF Ref!Drop, Ref!Taken
      <4>2. RefControl'
        BY <2>1, <2>4, <3>2, <4>1 DEF RefControl, Ref!Drop, Ref!Quiet, Ref!Idle
      <4>3. CASE from \in Pointers /\ refPtr[from] = "owned"
        <5>1. Ref!Owners' = (Ref!Owners \ {from}) \cup {to}
          BY <2>1, <3>2, <4>1, <4>3 DEF Ref!Owners, RefControl
        <5>2. from \in Ref!Owners /\ to \notin Ref!Owners
          BY <3>2, <4>3 DEF Ref!Owners
        <5>3. Cardinality(Ref!Owners') = Cardinality(Ref!Owners)
          <6> DEFINE rest == Ref!Owners \ {from}
          <6>1. IsFiniteSet(rest) /\ Cardinality(rest) = Cardinality(Ref!Owners) - 1
            BY <2>2, <5>2, FS_RemoveElement
          <6>2. Cardinality(rest \cup {to}) = Cardinality(rest) + 1
            BY <5>2, <6>1, FS_AddElement
          <6> QED
            BY <2>2, <5>1, <6>1, <6>2
        <5> QED
          BY <2>2, <4>1, <4>2, <5>1, <5>2, <5>3, RefCardinality DEF RefInv, Ref!DeletedByLastOwner
      <4>4. CASE ~(from \in Pointers /\ refPtr[from] = "owned")
        <5>1. /\ Ref!Owners' = Ref!Owners
              /\ \A p \in Pointers : \/ refPtr'[p] = refPtr[p] \/ refPtr'[p] = "null"
                                     \/ from \in Pointers /\ refPtr'[p] = refPtr[from]
          <6>1. ASSUME NEW p \in Pointers
                PROVE  /\ \/ refPtr'[p] = refPtr[p] \/ refPtr'[p] = "null"
                          \/ from \in Pointers /\ refPtr'[p] = refPtr[from]
                       /\ (refPtr'[p] = "owned") <=> (refPtr[p] = "owned")
            <7>1. CASE p = to
              BY <2>1, <3>2, <4>1, <4>4, <7>1 DEF RefControl
            <7>2. CASE p # to
              BY <2>1, <4>1, <4>4, <7>2 DEF RefControl
            <7> QED
              BY <7>1, <7>2
          <6>2. Ref!Owners' = Ref!Owners
            BY <6>1 DEF Ref!Owners
          <6> QED
            BY <6>1, <6>2
        <5> QED
          BY <2>2, <4>1, <4>2, <5>1, RefCardinality DEF RefInv, Ref!DeletedByLastOwner
      <4> QED
        BY <4>3, <4>4
    <3> QED
      BY <3>1, <3>2
  <2>5. ASSUME NEW p \in Pointers, Ref!Load(p) PROVE RefInv'
    <3>1. CASE refcnt = 1
      <4>1. Ref!Finish(p) /\ deleted' = deleted + 1 /\ refcnt' = refcnt /\ dropping[p].step # "idle"
        BY <2>5, <3>1 DEF Ref!Load
      <4>2. deleted' \in Nat /\ refcnt' \in Nat
        BY <2>1, <4>1 DEF RefControl
      <4>3. /\ RefControl' /\ Cardinality(Ref!Owners) # 0
            /\ Cardinality(Ref!Owners') = Cardinality(Ref!Owners) - 1
            /\ (Cardinality(Ref!Owners') = 0) <=> (Ref!Owners' = {})
        BY <2>1, <4>1, <4>2, FinishDrops
      <4>4. Ref!Owners # {}
        BY <4>3, FS_EmptySet
      <4> QED
        BY <2>2, <3>1, <4>1, <4>3, <4>4, RefCardinality DEF RefInv, Ref!DeletedByLastOwner
    <3>2. CASE refcnt # 1
      <4>1. RefControl'
        BY <2>1, <2>5, <3>2 DEF RefControl, Ref!Load
      <4> QED
        BY <2>1, <2>5, <3>2, <4>1 DEF Ref!Load, RefInv, Ref!DeletedByLastOwner, Ref!Owners
    <3> QED
      BY <3>1, <3>2
  <2>6. ASSUME NEW p \in Pointers, Ref!Subtract(p) PROVE RefInv'
    <3>1. /\ Ref!Finish(p) /\ dropping[p].step # "idle" /\ refcnt' = refcnt - 1
          /\ deleted' = IF refcnt = 1 THEN deleted + 1 ELSE deleted
      BY <2>6 DEF Ref!Subtract, Ref!LastReference
    <3>2. p \in Ref!Owners
      BY <2>1, <3>1 DEF RefControl, Ref!Owners
    <3>3. /\ deleted = 0 /\ refcnt = Cardinality(Ref!Owners) /\ Cardinality(Ref!Owners) # 0
      BY <2>2, <3>2, FS_EmptySet
    <3>4. deleted' \in Nat /\ refcnt' \in Nat
      BY <2>1, <2>2, <3>1, <3>3
    <3>5. /\ RefControl'
          /\ Cardinality(Ref!Owners') = Cardinality(Ref!Owners) - 1
          /\ (Cardinality(Ref!Owners') = 0) <=> (Ref!Owners' = {})
      BY <2>1, <3>1, <3>4, FinishDrops
    <3> QED
      BY <2>2, <3>1, <3>3, <3>5, RefCardinality DEF RefInv, Ref!DeletedByLastOwner
  <2>7. CASE UNCHANGED Ref!refVars
    BY <2>1, <2>7 DEF Ref!refVars, RefInv, RefControl, Ref!DeletedByLastOwner, Ref!Owners
  <2> QED
    BY <2>3, <2>4, <2>5, <2>6, <2>7 DEF Ref!Next
<1>3. RefInv => DeletedByLastOwner
  BY DEF RefInv, DeletedByLastOwner
<1> QED
  BY <1>1, <1>2, <1>3, PTL DEF Ref!Spec

-----------------------------------------------------------------------------
(* LazyInitialize *)

\* No caller has seen more objects than were made.
LazyInv ==
  /\ lazyPtr \in Nat /\ inits \in Nat
  /\ lazyPc \in [Threads -> {"idle", "read", "write"}]
  /\ cond \in [Threads -> BOOLEAN]
  /\ seen \in [Threads -> Nat]
  /\ \A t \in Threads : seen[t] <= inits
  /\ Lazy!LateCallersReuse

\* LazyInitialize.h:22, for any number of callers and of objects made and
\* dropped: init() is called over an existing object only by a caller that held
\* the read lock before that object was made.
THEOREM LateCallersDoNotInit == Lazy!Spec => []LateCallersReuse
<1>1. Lazy!Init => LazyInv
  BY DEF Lazy!Init, LazyInv, Lazy!LateCallersReuse
<1>2. LazyInv /\ [Lazy!Next]_(Lazy!vars) => LazyInv'
  <2> SUFFICES ASSUME LazyInv, [Lazy!Next]_(Lazy!vars) PROVE LazyInv'
    OBVIOUS
  <2> USE DEF LazyInv, Lazy!LateCallersReuse
  <2>1. ASSUME NEW t \in Threads, NEW c \in BOOLEAN, Lazy!Call(t, c) PROVE LazyInv'
    BY <2>1 DEF Lazy!Call
  <2>2. ASSUME NEW t \in Threads, Lazy!ReadLocked(t) PROVE LazyInv'
    BY <2>2 DEF Lazy!ReadLocked, Lazy!ReadSuffices
  <2>3. ASSUME NEW t \in Threads, Lazy!WriteLocked(t) PROVE LazyInv'
    BY <2>3 DEF Lazy!WriteLocked, Lazy!Store
  <2>4. CASE UNCHANGED Lazy!vars
    BY <2>4 DEF Lazy!vars
  <2> QED
    BY <2>1, <2>2, <2>3, <2>4 DEF Lazy!Next
<1>3. LazyInv => LateCallersReuse
  BY DEF LazyInv, LateCallersReuse
<1> QED
  BY <1>1, <1>2, <1>3, PTL DEF Lazy!Spec

-----------------------------------------------------------------------------
(* IoFuture *)

Outcomes == {"pending", "ECANCELED", "broken", "EIO", "ready", "ETIMEDOUT"}

\* promise_ is empty or belongs to a call that was made.
IoType ==
  /\ waits \in Seq(Outcomes)
  /\ ioPromise \in 0 .. Len(waits)
  /\ suspended \in Nat
  /\ timer \in BOOLEAN /\ handler \in BOOLEAN /\ eventsFailed \in BOOLEAN

IoInv == IoType /\ Io!WaitsSettle

\* Setting the outcome of the call that promise_ belongs to.
LEMMA OutcomeSet ==
  ASSUME IoInv, ioPromise # 0, NEW o \in Outcomes
  PROVE  LET after == [waits EXCEPT ![ioPromise] = o]
         IN  /\ after \in Seq(Outcomes) /\ Len(after) = Len(waits)
             /\ DOMAIN after = 1 .. Len(waits) /\ ioPromise \in 1 .. Len(waits)
             /\ after[ioPromise] = o
             /\ \A n \in 1 .. Len(waits) : n # ioPromise => after[n] = waits[n] /\ after[n] # "pending"
<1>1. ioPromise \in 1 .. Len(waits) /\ waits \in Seq(Outcomes)
  BY DEF IoInv, IoType
<1>2. \A n \in 1 .. Len(waits) : n # ioPromise => waits[n] # "pending"
  BY <1>1 DEF IoInv, Io!WaitsSettle
<1> QED
  BY <1>1, <1>2

\* The rest of wait() leaves one call pending at most, and only with both
\* events armed.
LEMMA InstallSettles ==
  ASSUME IoInv, NEW scheduled \in BOOLEAN, NEW registered \in BOOLEAN,
         Io!Install(scheduled, registered), suspended' \in Nat,
         UNCHANGED ioAlive
  PROVE  IoInv'
<1> DEFINE outcome == IF scheduled /\ registered THEN "pending" ELSE "EIO"
<1>1. waits \in Seq(Outcomes) /\ Len(waits) \in Nat /\ outcome \in Outcomes
  BY DEF IoInv, IoType, Outcomes
<1>2. /\ Io!Broken \in Seq(Outcomes) /\ Len(Io!Broken) = Len(waits)
      /\ \A n \in 1 .. Len(waits) : Io!Broken[n] # "pending"
  <2>1. CASE Io!isFulfilled
    <3>1. \A n \in 1 .. Len(waits) : waits[n] # "pending"
      BY <1>1, <2>1 DEF IoInv, IoType, Io!WaitsSettle, Io!isFulfilled
    <3> QED
      BY <1>1, <2>1, <3>1 DEF Io!Broken
  <2>2. CASE ~Io!isFulfilled
    <3>1. ioPromise # 0 /\ "broken" \in Outcomes
      BY <2>2 DEF Io!isFulfilled, Outcomes
    <3> QED
      BY <2>2, <3>1, OutcomeSet DEF Io!Broken
  <2> QED
    BY <2>1, <2>2
<1>3. /\ waits' = Append(Io!Broken, outcome) /\ ioPromise' = Len(waits) + 1
      /\ timer' = (timer \/ scheduled)
      /\ handler' = IF scheduled THEN registered ELSE handler
      /\ eventsFailed' = (eventsFailed \/ ~(scheduled /\ registered))
  BY DEF Io!Install, Io!Arm
<1>4. /\ waits' \in Seq(Outcomes) /\ Len(waits') = Len(waits) + 1
      /\ DOMAIN waits' = 1 .. (Len(waits) + 1)
      /\ waits'[ioPromise'] = outcome
      /\ \A n \in 1 .. Len(waits) : waits'[n] # "pending"
  BY <1>1, <1>2, <1>3
<1>5. IoType'
  <2>1. timer' \in BOOLEAN /\ handler' \in BOOLEAN /\ eventsFailed' \in BOOLEAN
    BY <1>3 DEF IoInv, IoType
  <2>2. waits' \in Seq(Outcomes) /\ ioPromise' \in 0 .. Len(waits')
    BY <1>1, <1>3, <1>4
  <2> QED
    BY <2>1, <2>2 DEF IoType
<1>6. \A n \in DOMAIN waits' : waits'[n] = "pending" => n = ioPromise'
  BY <1>1, <1>3, <1>4
<1>7. Io!isFulfilled' <=> ~(scheduled /\ registered)
  BY <1>1, <1>3, <1>4 DEF Io!isFulfilled
<1>8. ~Io!isFulfilled' => handler' /\ timer'
  BY <1>3, <1>7
<1>9. ~eventsFailed' => ioAlive' # "terminated" /\ ~Io!isFulfilled'
  BY <1>3, <1>7 DEF IoInv, Io!WaitsSettle
<1> QED
  BY <1>5, <1>6, <1>8, <1>9 DEF IoInv, Io!WaitsSettle

\* An event ends the call that waits for it, and finds one unless libevent had
\* refused an event before.
LEMMA EventSettles ==
  ASSUME IoInv, NEW o \in Outcomes \ {"pending"}, suspended = 0, handler \/ timer,
         Io!Fulfil(o), timer' = FALSE, handler' = FALSE,
         UNCHANGED <<ioPromise, suspended, eventsFailed>>
  PROVE  IoInv'
<1>1. CASE Io!isFulfilled
  <2>1. eventsFailed /\ UNCHANGED waits
    BY <1>1 DEF IoInv, Io!WaitsSettle, Io!Fulfil
  <2>2. Io!isFulfilled'
    BY <1>1, <2>1 DEF Io!isFulfilled
  <2>3. IoType'
    BY <2>1 DEF IoInv, IoType
  <2>4. \A n \in DOMAIN waits' : waits'[n] = "pending" => n = ioPromise'
    BY <2>1 DEF IoInv, Io!WaitsSettle
  <2> QED
    BY <2>1, <2>2, <2>3, <2>4 DEF IoInv, Io!WaitsSettle
<1>2. CASE ~Io!isFulfilled
  <2>1. ioPromise # 0 /\ waits' = [waits EXCEPT ![ioPromise] = o] /\ UNCHANGED ioAlive
    BY <1>2 DEF Io!isFulfilled, Io!Fulfil
  <2>2. /\ waits' \in Seq(Outcomes) /\ Len(waits') = Len(waits) /\ DOMAIN waits' = 1 .. Len(waits)
        /\ \A n \in 1 .. Len(waits) : waits'[n] # "pending"
        /\ waits'[ioPromise] # "pending"
    BY <2>1, OutcomeSet
  <2>3. Io!isFulfilled'
    BY <2>2 DEF Io!isFulfilled
  <2>4. IoType'
    BY <2>2 DEF IoInv, IoType
  <2>5. ~eventsFailed' => ioAlive' # "terminated"
    BY <2>1 DEF IoInv, Io!WaitsSettle
  <2> QED
    BY <2>2, <2>3, <2>4, <2>5 DEF IoInv, Io!WaitsSettle
<1> QED
  BY <1>1, <1>2

\* IoFuture.h:52-62, for any number of calls nested to any depth: at most the
\* last wait() is pending, with both of its events armed, and unless libevent
\* refuses an event none is armed for a promise that is fulfilled.
THEOREM IoWaitsSettle == Io!Spec => []WaitsSettle
<1>1. Io!Init => IoInv
  <2> SUFFICES ASSUME Io!Init PROVE IoInv
    OBVIOUS
  <2>1. waits \in Seq(Outcomes) /\ Len(waits) = 0 /\ DOMAIN waits = {}
    BY DEF Io!Init
  <2>2. IoType
    <3>1. /\ ioPromise = 0 /\ suspended = 0 /\ timer = FALSE /\ handler = FALSE
          /\ ioAlive = "yes" /\ eventsFailed = FALSE
      BY DEF Io!Init
    <3>2. timer \in BOOLEAN /\ handler \in BOOLEAN /\ eventsFailed \in BOOLEAN
      BY <3>1
    <3>3. ioPromise \in 0 .. Len(waits) /\ suspended \in Nat
      BY <2>1, <3>1
    <3> QED
      BY <2>1, <3>1, <3>2, <3>3 DEF IoType
  <2>3. Io!WaitsSettle
    BY <2>1 DEF Io!Init, Io!WaitsSettle, Io!isFulfilled
  <2> QED
    BY <2>2, <2>3 DEF IoInv
<1>2. IoInv /\ [Io!Next]_(Io!vars) => IoInv'
  <2> SUFFICES ASSUME IoInv, [Io!Next]_(Io!vars) PROVE IoInv'
    OBVIOUS
  <2>1. CASE Io!CancelPrevious
    <3>1. /\ ioPromise # 0 /\ "ECANCELED" \in Outcomes
          /\ waits' = [waits EXCEPT ![ioPromise] = "ECANCELED"] /\ suspended' = suspended + 1
          /\ UNCHANGED <<ioPromise, timer, handler, ioAlive, eventsFailed>>
      BY <2>1 DEF Io!CancelPrevious, Io!isFulfilled, Outcomes
    <3>2. /\ waits' \in Seq(Outcomes) /\ Len(waits') = Len(waits) /\ DOMAIN waits' = 1 .. Len(waits)
          /\ waits'[ioPromise] = "ECANCELED"
          /\ \A n \in 1 .. Len(waits) : waits'[n] # "pending"
      BY <3>1, OutcomeSet
    <3>3. IoType' /\ suspended' > 0
      BY <3>1, <3>2 DEF IoInv, IoType
    <3>4. Io!isFulfilled'
      BY <3>1, <3>2 DEF Io!isFulfilled
    <3>5. ~eventsFailed' => ioAlive' # "terminated"
      BY <3>1 DEF IoInv, Io!WaitsSettle
    <3> QED
      BY <3>2, <3>3, <3>4, <3>5 DEF IoInv, Io!WaitsSettle
  <2>2. ASSUME NEW scheduled \in BOOLEAN, NEW registered \in BOOLEAN,
               Io!Wait(scheduled, registered) \/ Io!Resume(scheduled, registered)
        PROVE  IoInv'
    <3>1. suspended' \in Nat /\ UNCHANGED ioAlive /\ Io!Install(scheduled, registered)
      BY <2>2 DEF Io!Wait, Io!Resume, IoInv, IoType
    <3> QED
      BY <3>1, InstallSettles
  <2>3. CASE Io!handlerReady
    BY <2>3, EventSettles DEF Io!handlerReady, Io!DisarmOther, Outcomes
  <2>4. CASE Io!timeoutExpired
    BY <2>4, EventSettles DEF Io!timeoutExpired, Io!DisarmOther, Outcomes
  <2>5. CASE Io!Destroy
    <3>1. /\ waits' = Io!Broken /\ ioAlive' = "destroyed" /\ timer' = FALSE /\ handler' = FALSE
          /\ UNCHANGED <<ioPromise, suspended, eventsFailed>>
      BY <2>5 DEF Io!Destroy
    <3>2. /\ waits' \in Seq(Outcomes) /\ Len(waits') = Len(waits) /\ DOMAIN waits' = 1 .. Len(waits)
          /\ \A n \in 1 .. Len(waits) : waits'[n] = "pending" => n = ioPromise
          /\ ioPromise # 0 => waits'[ioPromise] # "pending"
      <4>1. CASE Io!isFulfilled
        BY <3>1, <4>1 DEF Io!Broken, Io!isFulfilled, IoInv, IoType, Io!WaitsSettle
      <4>2. CASE ~Io!isFulfilled
        <5>1. ioPromise # 0 /\ "broken" \in Outcomes
          BY <4>2 DEF Io!isFulfilled, Outcomes
        <5> QED
          BY <3>1, <4>2, <5>1, OutcomeSet DEF Io!Broken
      <4> QED
        BY <4>1, <4>2
    <3>3. IoType'
      BY <3>1, <3>2 DEF IoInv, IoType
    <3>4. Io!isFulfilled'
      BY <3>1, <3>2 DEF Io!isFulfilled
    <3> QED
      BY <3>1, <3>2, <3>3, <3>4 DEF IoInv, Io!WaitsSettle
  <2>6. CASE UNCHANGED Io!vars
    BY <2>6 DEF Io!vars, IoInv, IoType, Io!WaitsSettle, Io!isFulfilled
  <2> QED
    BY <2>1, <2>2, <2>3, <2>4, <2>5, <2>6 DEF Io!Next
<1>3. IoInv => WaitsSettle
  BY DEF IoInv, WaitsSettle
<1> QED
  BY <1>1, <1>2, <1>3, PTL DEF Io!Spec

-----------------------------------------------------------------------------
(* LeaseCache *)

Entry == [key : Keys, promise : Nat]
Promise == [key : Keys, state : {"pending", "set", "fetched"}]

\* A map has one entry of a key at most.
MapOK(map) ==
  /\ map \in Seq(Entry)
  /\ \A i, j \in 1 .. Len(map) : map[i].key = map[j].key => i = j

LeaseType ==
  /\ leasePromise \in Seq(Promise)
  /\ MapOK(cache)
  /\ fetching \in [Getters -> 0 .. Len(leasePromise)]
  /\ inFlight \subseteq 1 .. Len(leasePromise)
  /\ abandoned \subseteq 1 .. Len(leasePromise)

\* A map is not larger than it may be.
Bounded(map) == MaxSize > 0 => Len(map) <= MaxSize

\* What the map holds are promises of the keys it holds them for, and the last ones made.
LeaseMap ==
  /\ Bounded(cache)
  /\ \A i \in 1 .. Len(cache) :
       /\ cache[i].promise \in 1 .. Len(leasePromise)
       /\ leasePromise[cache[i].promise].key = cache[i].key
       /\ \A q \in 1 .. Len(leasePromise) : leasePromise[q].key = cache[i].key => q <= cache[i].promise

\* One thread fetches for a promise, and it does so once.
LeaseOnce ==
  /\ inFlight \cap abandoned = {}
  /\ \A t \in Getters : fetching[t] \notin inFlight \cup abandoned
  /\ \A t, u \in Getters : fetching[t] = fetching[u] /\ fetching[t] # 0 => t = u

LeasePending ==
  \A p \in 1 .. Len(leasePromise) :
    (leasePromise[p].state = "pending") <=>
      (p \in inFlight \cup abandoned \cup {fetching[t] : t \in Getters})

LeaseInv == LeaseType /\ LeaseMap /\ LeaseOnce /\ LeasePending

\* What RemoveAt() and SubSeq() make of the map.
Rest(map, at) == SubSeq(map, 1, at - 1) \o SubSeq(map, at + 1, Len(map))
Others(rest, map, at) ==
  \A j \in 1 .. Len(rest) : \E k \in 1 .. Len(map) : rest[j] = map[k] /\ map[k].key # map[at].key
Newest(e, map, n) == SubSeq(<<e>> \o map, 1, n)

\* The sequence without an element ...
LEMMA RestAt ==
  ASSUME NEW S, NEW map \in Seq(S), NEW at \in 1 .. Len(map), NEW rest, rest = Rest(map, at)
  PROVE  /\ rest \in Seq(S) /\ Len(rest) = Len(map) - 1
         /\ \A j \in 1 .. Len(rest) : rest[j] = IF j < at THEN map[j] ELSE map[j + 1]
<1>1. PICK a, b : a = SubSeq(map, 1, at - 1) /\ b = SubSeq(map, at + 1, Len(map))
  OBVIOUS
<1>2. Len(map) \in Nat
  OBVIOUS
<1>3. a \in Seq(S) /\ Len(a) = at - 1 /\ \A j \in 1 .. (at - 1) : a[j] = map[j]
  BY <1>1, <1>2
<1>4. b \in Seq(S) /\ Len(b) = Len(map) - at /\ \A j \in 1 .. (Len(map) - at) : b[j] = map[at + j]
  BY <1>1, <1>2
<1>5. rest = a \o b
  BY <1>1 DEF Rest
<1>6. /\ rest \in Seq(S) /\ Len(rest) = Len(map) - 1
      /\ \A j \in 1 .. Len(rest) : rest[j] = IF j < at THEN a[j] ELSE b[j - (at - 1)]
  <2>1. Len(a) \in Nat /\ Len(b) \in Nat /\ Len(a) + Len(b) = Len(map) - 1
    BY <1>2, <1>3, <1>4
  <2>2. /\ rest \in Seq(S) /\ Len(rest) = Len(a) + Len(b)
        /\ \A j \in 1 .. (Len(a) + Len(b)) : rest[j] = IF j <= Len(a) THEN a[j] ELSE b[j - Len(a)]
    <3>1. a \in Seq(S) /\ b \in Seq(S)
      BY <1>3, <1>4
    <3> QED
      BY ONLY <1>5, <3>1
  <2>3. \A j \in 1 .. Len(rest) : (j <= Len(a)) <=> (j < at)
    <3>1. Len(a) = at - 1 /\ at \in Nat /\ Len(rest) \in Nat
      BY <1>2, <1>3, <2>1, <2>2
    <3> QED
      BY ONLY <3>1
  <2> QED
    BY ONLY <1>3, <2>1, <2>2, <2>3
<1>7. ASSUME NEW j \in 1 .. Len(rest) PROVE rest[j] = IF j < at THEN map[j] ELSE map[j + 1]
  <2>1. CASE j < at
    BY <1>3, <1>6, <2>1
  <2>2. CASE ~(j < at)
    <3>1. j - (at - 1) \in 1 .. (Len(map) - at) /\ at + (j - (at - 1)) = j + 1
      BY <1>2, <1>6, <2>2
    <3> QED
      BY <1>4, <1>6, <2>2, <3>1
  <2> QED
    BY <2>1, <2>2
<1> QED
  BY <1>6, <1>7

\* ... is, of a map, a map ...
LEMMA Removed ==
  ASSUME NEW map, MapOK(map), NEW at \in 1 .. Len(map), NEW rest, rest = Rest(map, at)
  PROVE  MapOK(rest) /\ Len(rest) = Len(map) - 1 /\ Others(rest, map, at)
<1>0. Len(map) \in Nat
  BY DEF MapOK
<1>1. /\ Len(rest) = Len(map) - 1 /\ rest \in Seq(Entry)
      /\ \A j \in 1 .. Len(rest) : rest[j] = IF j < at THEN map[j] ELSE map[j + 1]
  <2>1. map \in Seq(Entry)
    BY DEF MapOK
  <2> QED
    BY <2>1, RestAt
<1>2. ASSUME NEW j \in 1 .. Len(rest) PROVE \E k \in 1 .. Len(map) : rest[j] = map[k] /\ map[k].key # map[at].key
  <2>0. PICK k : k = IF j < at THEN j ELSE j + 1
    OBVIOUS
  <2>1. k \in 1 .. Len(map) /\ k # at /\ rest[j] = map[k]
    BY <1>0, <1>1, <2>0
  <2> QED
    BY <2>1 DEF MapOK
<1>3. ASSUME NEW i \in 1 .. Len(rest), NEW j \in 1 .. Len(rest), rest[i].key = rest[j].key PROVE i = j
  <2>0. PICK k, l : k = (IF i < at THEN i ELSE i + 1) /\ l = (IF j < at THEN j ELSE j + 1)
    OBVIOUS
  <2>1. k \in 1 .. Len(map) /\ l \in 1 .. Len(map) /\ rest[i] = map[k] /\ rest[j] = map[l]
    BY <1>0, <1>1, <2>0
  <2>2. k = l
    BY <1>3, <2>1 DEF MapOK
  <2> QED
    BY <2>0, <2>2
<1> QED
  BY <1>1, <1>2, <1>3 DEF MapOK, Others

\* What a new entry is put in front of, and what the map consists of then.
Lacks(map, e) == \A j \in 1 .. Len(map) : map[j].key # e.key
NewOrOld(new, e, map) == \A j \in 1 .. Len(new) : new[j] = e \/ \E k \in 1 .. Len(map) : new[j] = map[k]

\* ... and with a new one in front, cut to its size.
LEMMA Pushed ==
  ASSUME NEW map, MapOK(map), NEW e \in Entry, Lacks(map, e),
         NEW n \in 0 .. (Len(map) + 1), NEW new, new = Newest(e, map, n)
  PROVE  MapOK(new) /\ Len(new) = n /\ NewOrOld(new, e, map)
<1> USE DEF Lacks
<1>1. /\ Len(new) = n /\ new \in Seq(Entry)
      /\ \A j \in 1 .. n : new[j] = IF j = 1 THEN e ELSE map[j - 1]
  BY DEF MapOK, Newest
<1>2. Len(map) \in Nat
  BY DEF MapOK
<1>3. ASSUME NEW j \in 1 .. n PROVE new[j] = e \/ \E k \in 1 .. Len(map) : new[j] = map[k]
  <2>1. j = 1 \/ j - 1 \in 1 .. Len(map)
    BY <1>2
  <2> QED
    BY <1>1, <2>1
<1>4. ASSUME NEW i \in 1 .. n, NEW j \in 1 .. n, new[i].key = new[j].key PROVE i = j
  <2>1. /\ i = 1 \/ i - 1 \in 1 .. Len(map)
        /\ j = 1 \/ j - 1 \in 1 .. Len(map)
    BY <1>2
  <2>2. CASE i = 1 /\ j # 1
    BY <1>1, <1>4, <2>1, <2>2
  <2>3. CASE i # 1 /\ j = 1
    BY <1>1, <1>4, <2>1, <2>3
  <2>4. CASE i # 1 /\ j # 1
    <3>1. i - 1 \in 1 .. Len(map) /\ j - 1 \in 1 .. Len(map) /\ map[i - 1].key = map[j - 1].key
      BY <1>1, <1>4, <2>1, <2>4
    <3>2. i - 1 = j - 1
      BY <3>1 DEF MapOK
    <3> QED
      BY <3>2
  <2> QED
    BY <2>2, <2>3, <2>4
<1> QED
  BY <1>1, <1>3, <1>4 DEF MapOK, NewOrOld

\* erase() leaves the entries of the other keys ...
LEMMA LeaseWithout ==
  ASSUME MapOK(cache), NEW k \in Keys
  PROVE  /\ MapOK(Lease!Without(k)) /\ Len(Lease!Without(k)) <= Len(cache)
         /\ \A j \in 1 .. Len(Lease!Without(k)) :
              /\ Lease!Without(k)[j].key # k
              /\ \E i \in 1 .. Len(cache) : Lease!Without(k)[j] = cache[i]
<1>1. DOMAIN cache = 1 .. Len(cache) /\ Len(cache) \in Nat
  BY DEF MapOK
<1>2. CASE Lease!At(k) = {}
  <2>1. Lease!Without(k) = cache
    BY <1>2 DEF Lease!Without
  <2> QED
    BY <1>1, <1>2, <2>1 DEF Lease!At
<1>3. CASE Lease!At(k) # {}
  <2>1. PICK at : at \in Lease!At(k) /\ Lease!Without(k) = Lease!RemoveAt(cache, at)
    BY <1>3 DEF Lease!Without
  <2>2. at \in 1 .. Len(cache) /\ cache[at].key = k
    BY <1>1, <2>1 DEF Lease!At
  <2>3. PICK rest : rest = Rest(cache, at)
    OBVIOUS
  <2>4. Lease!Without(k) = rest
    BY <2>1, <2>3 DEF Lease!RemoveAt, Rest
  <2>5. PICK map : map = cache
    OBVIOUS
  <2>6. MapOK(rest) /\ Len(rest) = Len(map) - 1 /\ Others(rest, map, at)
    <3>1. MapOK(map) /\ at \in 1 .. Len(map) /\ rest = Rest(map, at)
      BY <2>2, <2>3, <2>5
    <3> QED
      BY ONLY <3>1, Removed
  <2> QED
    BY <1>1, <2>2, <2>4, <2>5, <2>6 DEF Others
<1> QED
  BY <1>2, <1>3

\* ... and set() keeps some of them behind the new one.
LEMMA LeaseSet ==
  ASSUME MapOK(cache), NEW k \in Keys, NEW p \in Nat
  PROVE  LET new == Lease!SetInMap(k, p) IN
         /\ MapOK(new) /\ Bounded(new)
         /\ \A j \in 1 .. Len(new) : \/ new[j] = [key |-> k, promise |-> p]
                                     \/ new[j].key # k /\ \E i \in 1 .. Len(cache) : new[j] = cache[i]
<1>1. PICK map : map = Lease!Without(k)
  OBVIOUS
<1>2. /\ MapOK(map)
      /\ \A j \in 1 .. Len(map) : map[j].key # k /\ \E i \in 1 .. Len(cache) : map[j] = cache[i]
  BY <1>1, LeaseWithout
<1>3. PICK e : e = [key |-> k, promise |-> p]
  OBVIOUS
<1>4. e \in Entry /\ e.key = k
  BY <1>3 DEF Entry
<1>5. Len(map) \in Nat /\ Len(<<e>> \o map) = Len(map) + 1
  BY <1>2, <1>4 DEF MapOK
<1>6. PICK n : n = IF MaxSize > 0 /\ Len(<<e>> \o map) > MaxSize THEN MaxSize ELSE Len(<<e>> \o map)
  OBVIOUS
<1>7. n \in 0 .. (Len(map) + 1) /\ (MaxSize > 0 => n <= MaxSize)
  BY <1>5, <1>6, MaxSizeAssumption
<1>8. PICK new : new = Newest(e, map, n)
  OBVIOUS
<1>9. Lease!SetInMap(k, p) = new
  BY <1>1, <1>3, <1>6, <1>8 DEF Lease!SetInMap, Newest
<1>10. MapOK(map) /\ e \in Entry /\ Lacks(map, e)
  BY <1>2, <1>4 DEF Lacks
<1>11. MapOK(new) /\ Len(new) = n /\ NewOrOld(new, e, map)
  BY ONLY <1>7, <1>8, <1>10, Pushed
<1>12. ASSUME NEW j \in 1 .. Len(new)
       PROVE  new[j] = e \/ (new[j].key # k /\ \E i \in 1 .. Len(cache) : new[j] = cache[i])
  <2>1. new[j] = e \/ \E i \in 1 .. Len(map) : new[j] = map[i]
    BY <1>11 DEF NewOrOld
  <2>2. CASE \E i \in 1 .. Len(map) : new[j] = map[i]
    <3>1. PICK i \in 1 .. Len(map) : new[j] = map[i]
      BY <2>2
    <3>2. map[i].key # k /\ \E m \in 1 .. Len(cache) : map[i] = cache[m]
      BY <1>2
    <3> QED
      BY ONLY <3>1, <3>2, Zenon
  <2> QED
    BY ONLY <2>1, <2>2, Zenon
<1>13. Bounded(new)
  BY ONLY <1>7, <1>11 DEF Bounded
<1>14. \A j \in 1 .. Len(new) : \/ new[j] = [key |-> k, promise |-> p]
                                \/ new[j].key # k /\ \E i \in 1 .. Len(cache) : new[j] = cache[i]
  BY ONLY <1>3, <1>12, Zenon
<1> QED
  BY ONLY <1>9, <1>11, <1>13, <1>14, Zenon

\* The steps leave the map alone or change it to one of these: a promise that is made is
\* one of k, and p is the last one of k.
LEMMA LeaseMapKept ==
  ASSUME LeaseType, LeaseMap, MapOK(cache'), Bounded(cache'),
         NEW k, NEW p, leasePromise' \in Seq(Promise), Len(leasePromise) <= Len(leasePromise'),
         p \in 1 .. Len(leasePromise'), leasePromise'[p].key = k,
         \A q \in 1 .. Len(leasePromise) : leasePromise'[q].key = leasePromise[q].key,
         \A q \in 1 .. Len(leasePromise') : q \in 1 .. Len(leasePromise) \/ leasePromise'[q].key = k,
         \A q \in 1 .. Len(leasePromise') : leasePromise'[q].key = k => q <= p,
         \A j \in 1 .. Len(cache') : \/ cache'[j] = [key |-> k, promise |-> p]
                                     \/ cache'[j].key # k /\ \E i \in 1 .. Len(cache) : cache'[j] = cache[i]
  PROVE  LeaseMap'
<1>1. ASSUME NEW j \in 1 .. Len(cache')
      PROVE  /\ cache'[j].promise \in 1 .. Len(leasePromise')
             /\ leasePromise'[cache'[j].promise].key = cache'[j].key
             /\ \A q \in 1 .. Len(leasePromise') : leasePromise'[q].key = cache'[j].key => q <= cache'[j].promise
  <2>1. CASE cache'[j] = [key |-> k, promise |-> p]
    BY <2>1
  <2>2. ASSUME NEW i \in 1 .. Len(cache), cache'[j] = cache[i], cache'[j].key # k
        PROVE  /\ cache'[j].promise \in 1 .. Len(leasePromise')
               /\ leasePromise'[cache'[j].promise].key = cache'[j].key
               /\ \A q \in 1 .. Len(leasePromise') : leasePromise'[q].key = cache'[j].key => q <= cache'[j].promise
    <3>1. /\ cache[i].promise \in 1 .. Len(leasePromise) /\ leasePromise[cache[i].promise].key = cache[i].key
          /\ \A q \in 1 .. Len(leasePromise) : leasePromise[q].key = cache[i].key => q <= cache[i].promise
      BY DEF LeaseMap
    <3>2. Len(leasePromise) \in Nat /\ Len(leasePromise') \in Nat
      BY DEF LeaseType
    <3>3. ASSUME NEW q \in 1 .. Len(leasePromise'), leasePromise'[q].key = cache'[j].key
          PROVE  q <= cache'[j].promise
      <4>1. q \in 1 .. Len(leasePromise)
        BY <2>2, <3>3
      <4> QED
        BY <2>2, <3>1, <3>3, <4>1
    <3> QED
      BY <2>2, <3>1, <3>2, <3>3
  <2> QED
    BY <2>1, <2>2
<1> QED
  BY <1>1 DEF LeaseMap, Bounded

\* Every step of the cache preserves the invariant.
LEMMA LeaseStep == LeaseInv /\ [Lease!Next]_(Lease!leaseVars) => LeaseInv'
<1> SUFFICES ASSUME LeaseInv, [Lease!Next]_(Lease!leaseVars) PROVE LeaseInv'
  OBVIOUS
<1>0. LeaseType /\ LeaseMap /\ LeaseOnce /\ LeasePending /\ Len(leasePromise) \in Nat /\ Len(cache) \in Nat
  BY DEF LeaseInv, LeaseType, MapOK
<1> DEFINE new == Len(leasePromise) + 1
\* A promise that is made leaves the others as they are.
<1>1. ASSUME NEW k \in Keys, NEW state \in {"pending", "set"}, Lease!NewPromise(k, state)
      PROVE  /\ leasePromise' \in Seq(Promise) /\ Len(leasePromise') = new
             /\ leasePromise'[new] = [key |-> k, state |-> state]
             /\ \A q \in 1 .. Len(leasePromise) : leasePromise'[q] = leasePromise[q]
  <2>1. leasePromise' = Append(leasePromise, [key |-> k, state |-> state]) /\ [key |-> k, state |-> state] \in Promise
    BY <1>1 DEF Lease!NewPromise, Promise
  <2> QED
    BY <1>0, <2>1 DEF LeaseType
<1>2. ASSUME NEW k \in Keys, Lease!Set(k) PROVE LeaseInv'
  <2>1. /\ leasePromise' \in Seq(Promise) /\ Len(leasePromise') = new
        /\ leasePromise'[new] = [key |-> k, state |-> "set"]
        /\ \A q \in 1 .. Len(leasePromise) : leasePromise'[q] = leasePromise[q]
    BY <1>1, <1>2 DEF Lease!Set
  <2>2. cache' = Lease!SetInMap(k, new) /\ UNCHANGED <<fetching, inFlight, abandoned>>
    BY <1>2 DEF Lease!Set
  <2>3. /\ MapOK(cache') /\ Bounded(cache')
        /\ \A j \in 1 .. Len(cache') : \/ cache'[j] = [key |-> k, promise |-> new]
                                       \/ cache'[j].key # k /\ \E i \in 1 .. Len(cache) : cache'[j] = cache[i]
    BY <1>0, <2>2, LeaseSet DEF LeaseType, Bounded
  <2>4. LeaseMap'
    <3>1. /\ Len(leasePromise) <= Len(leasePromise') /\ new \in 1 .. Len(leasePromise') /\ leasePromise'[new].key = k
          /\ \A q \in 1 .. Len(leasePromise') : q \in 1 .. Len(leasePromise) \/ leasePromise'[q].key = k
          /\ \A q \in 1 .. Len(leasePromise') : leasePromise'[q].key = k => q <= new
      BY <1>0, <2>1
    <3> QED
      BY <1>0, <2>1, <2>3, <3>1, LeaseMapKept
  <2>5. LeaseType'
    BY <1>0, <2>1, <2>2, <2>3 DEF LeaseType
  <2>6. LeaseOnce'
    BY <1>0, <2>2 DEF LeaseOnce
  <2>7. LeasePending'
    <3>1. ASSUME NEW q \in 1 .. Len(leasePromise')
          PROVE  (leasePromise'[q].state = "pending") <=> (q \in inFlight \cup abandoned \cup {fetching[t] : t \in Getters})
      <4>1. CASE q = new
        <5>1. leasePromise'[q].state # "pending" /\ q \notin 0 .. Len(leasePromise)
          BY <1>0, <2>1, <4>1
        <5> QED
          BY <1>0, <5>1 DEF LeaseType
      <4>2. CASE q # new
        <5>1. q \in 1 .. Len(leasePromise)
          BY <1>0, <2>1, <4>2
        <5> QED
          BY <1>0, <2>1, <5>1 DEF LeasePending
      <4> QED
        BY <4>1, <4>2
    <3> QED
      BY <2>2, <3>1 DEF LeasePending
  <2> QED
    BY <2>4, <2>5, <2>6, <2>7 DEF LeaseInv
<1>3. ASSUME NEW k \in Keys, Lease!Erase(k) PROVE LeaseInv'
  <2>1. cache' = Lease!Without(k) /\ UNCHANGED <<leasePromise, fetching, inFlight, abandoned>>
    BY <1>3 DEF Lease!Erase
  <2>2. /\ MapOK(cache') /\ Len(cache') <= Len(cache)
        /\ \A j \in 1 .. Len(cache') : \E i \in 1 .. Len(cache) : cache'[j] = cache[i]
    BY <1>0, <2>1, LeaseWithout DEF LeaseType
  <2>3. LeaseType'
    BY <1>0, <2>1, <2>2 DEF LeaseType
  <2>4. LeaseMap'
    <3>1. Bounded(cache')
      BY <1>0, <2>2, MaxSizeAssumption DEF LeaseMap, Bounded, MapOK
    <3> QED
      BY <1>0, <2>1, <2>2, <3>1 DEF LeaseMap, Bounded
  <2> QED
    BY <1>0, <2>1, <2>3, <2>4 DEF LeaseInv, LeaseOnce, LeasePending
<1>4. ASSUME NEW t \in Getters, NEW k \in Keys, Lease!GetHit(t, k) PROVE LeaseInv'
  <2>1. PICK p \in Lease!Cached(k) : cache' = Lease!SetInMap(k, p)
    BY <1>4 DEF Lease!GetHit
  <2>2. UNCHANGED <<leasePromise, fetching, inFlight, abandoned>>
    BY <1>4 DEF Lease!GetHit
  <2>3. PICK i \in 1 .. Len(cache) : cache[i].key = k /\ cache[i].promise = p
    <3>1. DOMAIN cache = 1 .. Len(cache)
      BY <1>0 DEF LeaseType, MapOK
    <3> QED
      BY <2>1, <3>1 DEF Lease!Cached, Lease!Range
  <2>4. /\ p \in 1 .. Len(leasePromise) /\ leasePromise[p].key = k /\ p \in Nat
        /\ \A q \in 1 .. Len(leasePromise) : leasePromise[q].key = k => q <= p
    BY <1>0, <2>3 DEF LeaseMap
  <2>5. /\ MapOK(cache') /\ Bounded(cache')
        /\ \A j \in 1 .. Len(cache') : \/ cache'[j] = [key |-> k, promise |-> p]
                                       \/ cache'[j].key # k /\ \E n \in 1 .. Len(cache) : cache'[j] = cache[n]
    BY <1>0, <2>1, <2>4, LeaseSet DEF LeaseType, Bounded
  <2>6. LeaseMap'
    BY <1>0, <2>2, <2>4, <2>5, LeaseMapKept DEF LeaseType
  <2>7. LeaseType'
    BY <1>0, <2>2, <2>5 DEF LeaseType
  <2> QED
    BY <1>0, <2>2, <2>6, <2>7 DEF LeaseInv, LeaseOnce, LeasePending
<1>5. ASSUME NEW t \in Getters, NEW k \in Keys, Lease!GetMiss(t, k) PROVE LeaseInv'
  <2>1. /\ leasePromise' \in Seq(Promise) /\ Len(leasePromise') = new
        /\ leasePromise'[new] = [key |-> k, state |-> "pending"]
        /\ \A q \in 1 .. Len(leasePromise) : leasePromise'[q] = leasePromise[q]
    BY <1>1, <1>5 DEF Lease!GetMiss
  <2>2. /\ cache' = Lease!SetInMap(k, new) /\ UNCHANGED <<inFlight, abandoned>>
        /\ fetching[t] = 0 /\ fetching' = [fetching EXCEPT ![t] = new]
    BY <1>5 DEF Lease!GetMiss
  <2>3. /\ MapOK(cache') /\ Bounded(cache')
        /\ \A j \in 1 .. Len(cache') : \/ cache'[j] = [key |-> k, promise |-> new]
                                       \/ cache'[j].key # k /\ \E i \in 1 .. Len(cache) : cache'[j] = cache[i]
    BY <1>0, <2>2, LeaseSet DEF LeaseType, Bounded
  <2>4. LeaseMap'
    <3>1. /\ Len(leasePromise) <= Len(leasePromise') /\ new \in 1 .. Len(leasePromise') /\ leasePromise'[new].key = k
          /\ \A q \in 1 .. Len(leasePromise') : q \in 1 .. Len(leasePromise) \/ leasePromise'[q].key = k
          /\ \A q \in 1 .. Len(leasePromise') : leasePromise'[q].key = k => q <= new
      BY <1>0, <2>1
    <3> QED
      BY <1>0, <2>1, <2>3, <3>1, LeaseMapKept
  <2>5. LeaseType'
    BY <1>0, <2>1, <2>2, <2>3 DEF LeaseType
  <2>6. new \notin 0 .. Len(leasePromise)
    BY <1>0
  <2>7. LeaseOnce'
    BY <1>0, <2>2, <2>6 DEF LeaseOnce, LeaseType
  <2>8. LeasePending'
    <3>1. fetching'[t] = new /\ \A u \in Getters : u # t => fetching'[u] = fetching[u]
      BY <1>0, <2>2 DEF LeaseType
    <3>2. ASSUME NEW q \in 1 .. Len(leasePromise')
          PROVE  (leasePromise'[q].state = "pending") <=> (q \in inFlight \cup abandoned \cup {fetching'[u] : u \in Getters})
      <4>1. CASE q = new
        BY <2>1, <3>1, <4>1
      <4>2. CASE q # new
        <5>1. q \in 1 .. Len(leasePromise) /\ q # 0
          BY <1>0, <2>1, <4>2
        <5>2. (q \in {fetching'[u] : u \in Getters}) <=> (q \in {fetching[u] : u \in Getters})
          BY <2>2, <3>1, <4>2, <5>1
        <5> QED
          BY <1>0, <2>1, <5>1, <5>2 DEF LeasePending
      <4> QED
        BY <4>1, <4>2
    <3> QED
      BY <2>2, <3>2 DEF LeasePending
  <2> QED
    BY <2>4, <2>5, <2>7, <2>8 DEF LeaseInv
\* The fetch of a promise starts, or its fetcher throws: it changes hands.
<1>6. ASSUME NEW t \in Getters, fetching[t] # 0, fetching' = [fetching EXCEPT ![t] = 0],
             inFlight' \cup abandoned' = inFlight \cup abandoned \cup {fetching[t]},
             inFlight' \cap abandoned' = {}, UNCHANGED <<cache, leasePromise>>
      PROVE  LeaseInv'
  <2>1. fetching'[t] = 0 /\ \A u \in Getters : u # t => fetching'[u] = fetching[u]
    BY <1>0, <1>6 DEF LeaseType
  <2>2. fetching[t] \in 1 .. Len(leasePromise)
    BY <1>0, <1>6 DEF LeaseType
  <2>3. inFlight' \cup abandoned' \subseteq 1 .. Len(leasePromise)
    BY <1>0, <1>6, <2>2 DEF LeaseType
  <2>4. LeaseType'
    BY <1>0, <1>6, <2>3 DEF LeaseType
  <2>5. LeaseOnce'
    BY <1>0, <1>6, <2>1, <2>3 DEF LeaseOnce
  <2>6. LeasePending'
    <3>1. ASSUME NEW q \in 1 .. Len(leasePromise)
          PROVE  (q \in inFlight' \cup abandoned' \cup {fetching'[u] : u \in Getters})
                   <=> (q \in inFlight \cup abandoned \cup {fetching[u] : u \in Getters})
      <4>1. q # 0
        BY <1>0
      <4> QED
        BY <1>6, <2>1, <4>1
    <3> QED
      BY <1>0, <1>6, <3>1 DEF LeasePending
  <2> QED
    BY <1>0, <1>6, <2>4, <2>5, <2>6 DEF LeaseInv, LeaseMap, Bounded
<1>7. ASSUME NEW t \in Getters, Lease!StartFetch(t) PROVE LeaseInv'
  BY <1>0, <1>6, <1>7 DEF Lease!StartFetch, LeaseOnce
<1>8. ASSUME NEW t \in Getters, Lease!FetcherThrows(t) PROVE LeaseInv'
  BY <1>0, <1>6, <1>8 DEF Lease!FetcherThrows, LeaseOnce
<1>9. ASSUME NEW p \in inFlight, Lease!FinishFetch(p) PROVE LeaseInv'
  <2>1. /\ inFlight' = inFlight \ {p} /\ UNCHANGED <<cache, fetching, abandoned>>
        /\ leasePromise' = [q \in 1 .. Len(leasePromise) |->
                              IF q = p THEN [leasePromise[q] EXCEPT !.state = "fetched"] ELSE leasePromise[q]]
    BY <1>9 DEF Lease!FinishFetch, Lease!Fulfilled
  <2>2. p \in 1 .. Len(leasePromise)
    BY <1>0 DEF LeaseType
  <2>3. \A q \in 1 .. Len(leasePromise) :
          /\ leasePromise[q] \in Promise
          /\ leasePromise'[q] \in Promise /\ leasePromise'[q].key = leasePromise[q].key
          /\ leasePromise'[q].state = IF q = p THEN "fetched" ELSE leasePromise[q].state
    <3> SUFFICES ASSUME NEW q \in 1 .. Len(leasePromise)
                 PROVE  /\ leasePromise[q] \in Promise
                        /\ leasePromise'[q] \in Promise /\ leasePromise'[q].key = leasePromise[q].key
                        /\ leasePromise'[q].state = IF q = p THEN "fetched" ELSE leasePromise[q].state
      OBVIOUS
    <3>1. PICK old : old = leasePromise[q]
      OBVIOUS
    <3>2. old \in Promise
      BY <1>0, <3>1 DEF LeaseType
    <3>3. /\ [old EXCEPT !.state = "fetched"] \in Promise /\ [old EXCEPT !.state = "fetched"].key = old.key
          /\ [old EXCEPT !.state = "fetched"].state = "fetched"
      BY <3>2 DEF Promise
    <3>4. leasePromise'[q] = IF q = p THEN [old EXCEPT !.state = "fetched"] ELSE old
      BY <2>1, <3>1
    <3> QED
      BY <3>1, <3>2, <3>3, <3>4
  <2>4. leasePromise' \in Seq(Promise) /\ Len(leasePromise') = Len(leasePromise)
    BY <1>0, <2>1, <2>3
  <2>5. LeaseType'
    BY <1>0, <2>1, <2>4 DEF LeaseType
  <2>6. LeaseMap'
    BY <1>0, <2>1, <2>3, <2>4 DEF LeaseMap, Bounded
  <2>7. LeaseOnce'
    BY <1>0, <2>1 DEF LeaseOnce
  <2>8. p \notin abandoned \cup {fetching[t] : t \in Getters}
    BY <1>0 DEF LeaseOnce
  <2>9. LeasePending'
    <3>1. ASSUME NEW q \in 1 .. Len(leasePromise)
          PROVE  (leasePromise'[q].state = "pending") <=> (q \in inFlight' \cup abandoned \cup {fetching[t] : t \in Getters})
      <4>1. CASE q = p
        <5>1. leasePromise'[q].state = "fetched" /\ q \notin inFlight' \cup abandoned \cup {fetching[t] : t \in Getters}
          BY <2>1, <2>3, <2>8, <4>1
        <5> QED
          BY <5>1
      <4>2. CASE q # p
        BY <1>0, <2>1, <2>3, <4>2 DEF LeasePending
      <4> QED
        BY <4>1, <4>2
    <3> QED
      BY <2>1, <2>4, <3>1 DEF LeasePending
  <2> QED
    BY <2>5, <2>6, <2>7, <2>9 DEF LeaseInv
<1>10. CASE UNCHANGED Lease!leaseVars
  BY <1>10 DEF Lease!leaseVars, LeaseInv, LeaseType, LeaseMap, Bounded, LeaseOnce, LeasePending
<1> QED
  BY <1>2, <1>3, <1>4, <1>5, <1>7, <1>8, <1>9, <1>10 DEF Lease!Next

\* The instance counts as the theorems about finite sets do.
LEMMA LeaseCardinality == \A S : Lease!Cardinality(S) = Cardinality(S)
BY DEF Lease!Cardinality, Cardinality

\* LeaseCache.h:48-70, for any number of threads, keys and promises and any size of the
\* map: a promise is pending exactly while its one fetch is about to start or under way,
\* or its fetcher has thrown; one promise is leased per key, the newest one made for it.
THEOREM LeasesAreSettled == Lease!Spec => []LeasesSettle
<1>1. Lease!Init => LeaseInv
  <2> SUFFICES ASSUME Lease!Init PROVE LeaseInv
    OBVIOUS
  <2>1. /\ cache = <<>> /\ leasePromise = <<>> /\ inFlight = {} /\ abandoned = {}
        /\ fetching = [t \in Getters |-> 0]
    BY DEF Lease!Init
  <2>2. LeaseType
    BY <2>1 DEF LeaseType, MapOK
  <2>3. LeaseMap
    BY <2>1, MaxSizeAssumption DEF LeaseMap, Bounded
  <2>4. LeaseOnce /\ LeasePending
    BY <2>1 DEF LeaseOnce, LeasePending
  <2> QED
    BY <2>2, <2>3, <2>4 DEF LeaseInv
<1>2. LeaseInv => LeasesSettle
  <2> SUFFICES ASSUME LeaseInv PROVE LeasesSettle
    OBVIOUS
  <2>1. DOMAIN cache = 1 .. Len(cache)
    BY DEF LeaseInv, LeaseType, MapOK
  <2>2. ASSUME NEW k \in Keys
        PROVE  /\ Cardinality(Lease!Cached(k)) <= 1 /\ \A p \in Lease!Cached(k) : leasePromise[p].key = k
               /\ \A p \in Lease!Cached(k) : \A q \in 1 .. Len(leasePromise) : leasePromise[q].key = k => q <= p
    <3>1. \A p \in Lease!Cached(k) : \E i \in 1 .. Len(cache) : cache[i].key = k /\ cache[i].promise = p
      BY <2>1 DEF Lease!Cached, Lease!Range
    <3>2. \A p \in Lease!Cached(k) :
            leasePromise[p].key = k /\ \A q \in 1 .. Len(leasePromise) : leasePromise[q].key = k => q <= p
      BY <3>1 DEF LeaseInv, LeaseMap
    <3>3. \A p, q \in Lease!Cached(k) : p = q
      BY <3>1 DEF LeaseInv, LeaseType, MapOK
    <3>4. Lease!Cached(k) = {} \/ \E p : Lease!Cached(k) = {p}
      BY <3>3
    <3>5. Cardinality(Lease!Cached(k)) <= 1
      <4>1. CASE Lease!Cached(k) = {}
        BY <4>1, FS_EmptySet
      <4>2. CASE \E p : Lease!Cached(k) = {p}
        <5>1. Cardinality(Lease!Cached(k)) = 1
          BY <4>2, FS_Singleton
        <5> QED
          BY <5>1
      <4> QED
        BY <3>4, <4>1, <4>2
    <3> QED
      BY <3>2, <3>5
  <2>3. LeasePending /\ (MaxSize > 0 => Len(cache) <= MaxSize)
    BY DEF LeaseInv, LeaseMap, Bounded
  <2> QED
    BY <2>2, <2>3, LeaseCardinality DEF LeasesSettle, Lease!LeasesSettle, LeasePending
<1> QED
  BY <1>1, <1>2, LeaseStep, PTL DEF Lease!Spec

-----------------------------------------------------------------------------
(* CoverageSet *)

Interval == (0 .. MaxEnd) \X (0 .. MaxEnd)

\* The points of the intervals in the set are those that were added.
CoverageInv ==
  /\ set \subseteq Interval
  /\ added \subseteq Nat
  /\ \A x \in Nat : x \in added <=> \E i \in set : i[1] <= x /\ x < i[2]

\* The interval that begins last.
LEMMA LastInterval ==
  ASSUME NEW S, S \subseteq Interval, S # {}
  PROVE  Coverage!Last(S) \in S
<1> DEFINE B == {i[1] : i \in S}
<1>1. \A i \in S : i[1] \in 0 .. MaxEnd
  BY DEF Interval
<1>2. B \subseteq 0 .. MaxEnd /\ B # {}
  BY <1>1
<1>3. \E b \in B : \A x \in B : x <= b
  <2> HIDE DEF B
  <2> QED
    BY <1>2, Greatest, MaxEndAssumption
<1>4. PICK i \in S : \A x \in B : x <= i[1]
  BY <1>3
<1>5. \A j \in S : i[1] >= j[1]
  BY <1>1, <1>4
<1> QED
  BY <1>5 DEF Coverage!Last

\* What is covered lies in one interval.
LEMMA CoveredWithin ==
  ASSUME CoverageInv, NEW begin \in 0 .. MaxEnd, NEW end \in begin .. MaxEnd, Coverage!Covers(begin, end)
  PROVE  \A x \in begin .. (end - 1) : x \in added
<1>1. CASE begin = end
  BY <1>1
<1>2. CASE begin # end
  <2>1. PICK S : S = {i \in set : i[1] <= begin}
    OBVIOUS
  <2>2. S # {} /\ end <= Coverage!Last(S)[2]
    BY <1>2, <2>1 DEF Coverage!Covers
  <2>3. S \subseteq Interval
    BY <2>1 DEF CoverageInv
  <2>4. PICK i \in S : i = Coverage!Last(S)
    BY <2>2, <2>3, LastInterval
  <2>5. i \in set /\ i[1] <= begin /\ end <= i[2] /\ i[1] \in Nat /\ i[2] \in Nat
    BY <2>1, <2>2, <2>3, <2>4 DEF Interval
  <2>6. ASSUME NEW x \in begin .. (end - 1) PROVE x \in added
    <3>1. x \in Nat /\ i[1] <= x /\ x < i[2]
      BY <2>5
    <3> QED
      BY <2>5, <3>1 DEF CoverageInv
  <2> QED
    BY <2>6
<1> QED
  BY <1>1, <1>2

\* The ends among which the loop over the following intervals stops ...
After(begin) == {i \in set : i[1] >= begin}
Ends(begin, end) == {e \in {end} \cup {i[2] : i \in After(begin)} : e >= end}
Closed(begin, e) == \A i \in After(begin) : i[1] <= e => i[2] <= e

\* ... and that it stops where all it has passed ends, with no hole on the way.
LEMMA MovedEndCovers ==
  ASSUME CoverageInv, NEW begin \in 0 .. MaxEnd, NEW end \in begin .. MaxEnd,
         NEW e, e = Coverage!MovedEnd(begin, end)
  PROVE  /\ e \in 0 .. MaxEnd /\ end <= e /\ Closed(begin, e)
         /\ \A x \in Nat : end <= x /\ x < e => \E i \in set : begin <= i[1] /\ i[1] <= x /\ x < i[2]
<1>1. \A i \in set : i[1] \in 0 .. MaxEnd /\ i[2] \in 0 .. MaxEnd
  BY DEF CoverageInv, Interval
<1>2. PICK E : E = Ends(begin, end)
  OBVIOUS
<1>3. /\ E \subseteq 0 .. MaxEnd /\ end \in E /\ \A f \in E : end <= f
      /\ \A i \in set : begin <= i[1] /\ end <= i[2] => i[2] \in E
  BY <1>1, <1>2 DEF Ends, After
<1>4. PICK C : C = {f \in E : Closed(begin, f)}
  OBVIOUS
<1>5. e = Coverage!Min(C)
  BY <1>2, <1>4 DEF Coverage!MovedEnd, Ends, After, Closed
\* The last of the ends up to a bound is closed, unless an interval reaches over the bound.
<1>6. ASSUME NEW x \in Nat, end <= x, \A i \in set : begin <= i[1] /\ i[1] <= x => i[2] <= x
      PROVE  \E f \in C : f <= x
  <2>1. PICK F : F = {f \in E : f <= x}
    OBVIOUS
  <2>2. F \subseteq 0 .. MaxEnd /\ F # {}
    BY <1>3, <1>6, <2>1
  <2>3. PICK f \in F : \A g \in F : g <= f
    BY <2>2, Greatest, MaxEndAssumption
  <2>4. f \in Nat /\ f \in E /\ end <= f /\ f <= x
    BY <1>3, <2>1, <2>2
  <2>5. ASSUME NEW i \in set, begin <= i[1], i[1] <= f PROVE i[2] <= f
    <3>1. i[1] \in Nat /\ i[2] \in Nat
      BY <1>1
    <3>2. i[2] <= x
      BY <1>6, <2>4, <2>5, <3>1
    <3>3. CASE end <= i[2]
      <4>1. i[2] \in F
        BY <1>3, <2>1, <2>5, <3>2, <3>3
      <4> QED
        BY <2>3, <4>1
    <3>4. CASE i[2] < end
      BY <2>4, <3>1, <3>4
    <3> QED
      BY <3>1, <3>3, <3>4
  <2>6. Closed(begin, f)
    BY <1>1, <2>5 DEF Closed, After
  <2> QED
    BY <1>4, <2>4, <2>6
<1>7. C \subseteq Nat /\ C # {}
  <2>1. MaxEnd \in Nat /\ end <= MaxEnd /\ \A i \in set : i[2] <= MaxEnd
    BY <1>1, MaxEndAssumption
  <2>2. \E f \in C : f <= MaxEnd
    BY <1>6, <2>1
  <2>3. C \subseteq 0 .. MaxEnd
    BY <1>3, <1>4
  <2> QED
    BY <2>2, <2>3
<1>8. \E m \in C : \A y \in C : m <= y
  BY <1>7, Least
<1>9. e \in C /\ \A y \in C : e <= y
  BY <1>5, <1>8 DEF Coverage!Min
<1>10. e \in 0 .. MaxEnd /\ end <= e /\ Closed(begin, e)
  BY <1>3, <1>4, <1>9
<1>11. ASSUME NEW x \in Nat, end <= x, x < e PROVE \E i \in set : begin <= i[1] /\ i[1] <= x /\ x < i[2]
  <2> SUFFICES ASSUME \A i \in set : ~(begin <= i[1] /\ i[1] <= x /\ x < i[2]) PROVE FALSE
    OBVIOUS
  <2>1. \A i \in set : begin <= i[1] /\ i[1] <= x => i[2] <= x
    BY <1>1
  <2>2. PICK f \in C : f <= x
    BY <1>6, <1>11, <2>1
  <2> QED
    BY <1>7, <1>9, <1>10, <1>11, <2>2
<1> QED
  BY <1>10, <1>11

\* add() keeps all points, and has no others but the new ones.
LEMMA AddKeepsPoints ==
  ASSUME CoverageInv, NEW begin \in 0 .. MaxEnd, NEW end \in begin .. MaxEnd, Coverage!Add(begin, end)
  PROVE  CoverageInv'
<1>1. added' = added \cup Coverage!Points(begin, end)
  BY DEF Coverage!Add
<1>2. \A x : x \in added' <=> x \in added \/ x \in begin .. (end - 1)
  BY <1>1 DEF Coverage!Points
<1>3. \A i \in set : i[1] \in 0 .. MaxEnd /\ i[2] \in 0 .. MaxEnd
  BY DEF CoverageInv, Interval
<1>4. CASE begin = end
  <2>1. set' = set /\ \A x : x \in added' <=> x \in added
    BY <1>2, <1>4 DEF Coverage!Add
  <2> QED
    BY <2>1 DEF CoverageInv
<1>5. CASE begin # end
  <2>1. PICK newEnd : newEnd = Coverage!MovedEnd(begin, end)
    OBVIOUS
  <2>2. /\ newEnd \in 0 .. MaxEnd /\ end <= newEnd /\ Closed(begin, newEnd)
        /\ \A x \in Nat : end <= x /\ x < newEnd => \E i \in set : begin <= i[1] /\ i[1] <= x /\ x < i[2]
    BY <2>1, MovedEndCovers
  <2>3. PICK C : C = Coverage!Continued(begin)
    OBVIOUS
  <2>4. PICK newBegin : newBegin = IF C = {} THEN begin ELSE Coverage!First(C)[1]
    OBVIOUS
  <2>5. PICK A : A = {i \in set : i[1] \in begin .. newEnd}
    OBVIOUS
  <2>6. set' = ((set \ C) \ A) \cup {<<newBegin, newEnd>>}
    BY <1>5, <2>1, <2>3, <2>4, <2>5 DEF Coverage!Add
  \* The interval that is continued ends where the new one begins.
  <2>7. /\ C = {} => newBegin = begin
        /\ C # {} => \E i \in set : C = {i} /\ i[1] < begin /\ i[2] = begin /\ newBegin = i[1]
    <3>1. PICK B : B = {i \in set : i[1] < begin}
      OBVIOUS
    <3>2. CASE C # {}
      <4>1. C = {Coverage!Last(B)} /\ B # {} /\ Coverage!Last(B)[2] = begin
        BY <2>3, <3>1, <3>2 DEF Coverage!Continued
      <4>2. B \subseteq Interval
        BY <3>1 DEF CoverageInv
      <4>3. PICK i \in B : i = Coverage!Last(B)
        BY <4>1, <4>2, LastInterval
      <4>4. C = {i} /\ i \in set /\ i[1] < begin /\ i[2] = begin /\ i[1] \in Nat
        BY <1>3, <3>1, <4>1, <4>3
      <4>5. Coverage!First(C) = i
        BY <4>4 DEF Coverage!First
      <4> QED
        BY <2>4, <4>4, <4>5
    <3> QED
      BY <2>4, <3>2
  <2>8. newBegin \in 0 .. MaxEnd /\ newBegin <= begin
    BY <1>3, <2>7
  <2>9. set' \subseteq Interval
    BY <2>2, <2>6, <2>8 DEF CoverageInv, Interval
  <2>10. <<newBegin, newEnd>> \in set' /\ <<newBegin, newEnd>>[1] = newBegin /\ <<newBegin, newEnd>>[2] = newEnd
    BY <2>6
  \* Nothing is lost ...
  <2>11. ASSUME NEW x \in Nat, x \in added' PROVE \E i \in set' : i[1] <= x /\ x < i[2]
    <3>1. CASE newBegin <= x /\ x < newEnd
      BY <2>10, <3>1
    <3>2. CASE ~(newBegin <= x /\ x < newEnd)
      <4>1. x \notin begin .. (end - 1)
        BY <2>2, <2>8, <3>2
      <4>2. PICK i \in set : i[1] <= x /\ x < i[2]
        BY <1>2, <2>11, <4>1 DEF CoverageInv
      <4>3. i[1] \in Nat /\ i[2] \in Nat
        BY <1>3
      <4>4. i \notin C
        BY <2>2, <2>7, <3>2, <4>2
      <4>5. i \notin A
        <5> SUFFICES ASSUME i \in A PROVE FALSE
          OBVIOUS
        <5>1. begin <= i[1] /\ i[1] <= newEnd
          BY <2>2, <2>5, <4>3
        <5>2. i[2] <= newEnd
          BY <2>2, <4>3, <5>1 DEF Closed, After
        <5> QED
          BY <2>2, <2>8, <3>2, <4>2, <4>3, <5>1, <5>2
      <4> QED
        BY <2>6, <4>2, <4>4, <4>5
    <3> QED
      BY <3>1, <3>2
  \* ... and nothing is made up.
  <2>12. ASSUME NEW x \in Nat, NEW i \in set', i[1] <= x, x < i[2] PROVE x \in added'
    <3>1. CASE i \in set
      BY <1>2, <2>12, <3>1 DEF CoverageInv
    <3>2. CASE i = <<newBegin, newEnd>>
      <4>1. newBegin <= x /\ x < newEnd
        BY <2>10, <2>12, <3>2
      <4>2. CASE x < begin
        <5>1. PICK c \in set : c[1] <= x /\ x < c[2]
          BY <2>7, <4>1, <4>2
        <5> QED
          BY <1>2, <5>1 DEF CoverageInv
      <4>3. CASE begin <= x /\ x < end
        BY <1>2, <4>3
      <4>4. CASE end <= x
        <5>1. PICK c \in set : c[1] <= x /\ x < c[2]
          BY <2>2, <4>1, <4>4
        <5> QED
          BY <1>2, <5>1 DEF CoverageInv
      <4> QED
        BY <4>2, <4>3, <4>4
    <3> QED
      BY <2>6, <3>1, <3>2
  <2>13. added' \subseteq Nat
    <3>1. \A x \in begin .. (end - 1) : x \in Nat
      OBVIOUS
    <3>2. \A x \in added : x \in Nat
      BY DEF CoverageInv
    <3> QED
      BY <1>2, <3>1, <3>2
  <2>14. \A x \in Nat : x \in added' <=> \E i \in set' : i[1] <= x /\ x < i[2]
    BY <2>11, <2>12
  <2> QED
    BY <2>9, <2>13, <2>14 DEF CoverageInv
<1> QED
  BY <1>4, <1>5

\* CoverageSet.cpp:21-95, for every MaxEnd: in whatever order overlapping and adjacent intervals
\* are added, the intervals kept have exactly the points that were added, and covers() is true
\* only of an interval all of whose points were.
THEOREM CoverageIsTrue == Coverage!Spec => []CoversOnlyCovered
<1>1. Coverage!Init => CoverageInv
  BY DEF Coverage!Init, CoverageInv
<1>2. CoverageInv /\ [Coverage!Next]_(Coverage!coverageVars) => CoverageInv'
  <2> SUFFICES ASSUME CoverageInv, [Coverage!Next]_(Coverage!coverageVars) PROVE CoverageInv'
    OBVIOUS
  <2>1. CASE Coverage!Clear
    BY <2>1 DEF Coverage!Clear, CoverageInv
  <2>2. CASE UNCHANGED Coverage!coverageVars
    BY <2>2 DEF Coverage!coverageVars, CoverageInv
  <2> QED
    BY <2>1, <2>2, AddKeepsPoints DEF Coverage!Next
<1>3. CoverageInv => CoversOnlyCovered
  <2> SUFFICES ASSUME CoverageInv PROVE CoversOnlyCovered
    OBVIOUS
  <2>1. ASSUME NEW begin \in 0 .. MaxEnd, NEW end \in begin .. MaxEnd, Coverage!Covers(begin, end)
        PROVE  Coverage!Points(begin, end) \subseteq added
    BY <2>1, CoveredWithin DEF Coverage!Points
  <2>2. \A i \in set : i[1] \in Nat /\ i[2] \in Nat
    BY DEF CoverageInv, Interval
  <2>3. ASSUME NEW x \in added PROVE x \in UNION {Coverage!Points(i[1], i[2]) : i \in set}
    <3>1. PICK i \in set : i[1] <= x /\ x < i[2]
      BY DEF CoverageInv
    <3>2. x \in Coverage!Points(i[1], i[2])
      BY <2>2, <3>1 DEF CoverageInv, Coverage!Points
    <3> QED
      BY <3>2
  <2>4. ASSUME NEW x \in UNION {Coverage!Points(i[1], i[2]) : i \in set} PROVE x \in added
    <3>1. PICK i \in set : x \in Coverage!Points(i[1], i[2])
      OBVIOUS
    <3>2. x \in Nat /\ i[1] <= x /\ x < i[2]
      BY <2>2, <3>1 DEF Coverage!Points
    <3> QED
      BY <3>2 DEF CoverageInv
  <2> QED
    BY <2>1, <2>3, <2>4 DEF CoversOnlyCovered, Coverage!CoversOnlyCovered
<1> QED
  BY <1>1, <1>2, <1>3, PTL DEF Coverage!Spec

-----------------------------------------------------------------------------
(* IDGen *)

\* The counter at the start of a range, and the IDs of that range.
RangeStart(f) == kRangeSize * f
Id(f, r) == IF RangeStart(f) + r = Ids!Modulus THEN 0 ELSE RangeStart(f) + r

\* Ranges follow each other and fill the counter.
LEMMA RangeStarts ==
  /\ kRangeSize \in Nat /\ kRangeSize >= 1 /\ Ranges \in Nat /\ Ranges >= 1
  /\ RangeStart(Ranges) = Ids!Modulus /\ Ids!Modulus \in Nat
  /\ RangeStart(0) = 0
  /\ \A f \in Nat : RangeStart(f) \in Nat /\ RangeStart(f + 1) = RangeStart(f) + kRangeSize
<1>1. kRangeSize \in Nat /\ kRangeSize >= 1 /\ Ranges \in Nat /\ Ranges >= 1
  BY RangeAssumption
<1>2. \A f \in Nat : RangeStart(f) \in Nat /\ RangeStart(f + 1) = RangeStart(f) + kRangeSize
  BY <1>1 DEF RangeStart
<1> QED
  BY <1>1, <1>2 DEF RangeStart, Ids!Modulus

\* Ranges do not overlap.
LEMMA Apart ==
  ASSUME NEW f \in Nat, NEW g \in Nat, f < g
  PROVE  RangeStart(f) + kRangeSize <= RangeStart(g)
BY Multiples, RangeStarts DEF RangeStart

\* The last place of a range, and no other, is a multiple of the range size.
LEMMA RangeEnd ==
  ASSUME NEW f \in Nat, NEW r \in 1 .. kRangeSize
  PROVE  ((RangeStart(f) + r) % kRangeSize = 0) <=> (r = kRangeSize)
<1>1. PICK a, b : a = RangeStart(f) + r /\ b = kRangeSize
  OBVIOUS
<1>2. PICK q \in Nat, m \in 0 .. (b - 1) : m = a % b /\ a = b * q + m
  <2>1. a \in Nat /\ b \in Nat /\ b >= 1
    BY <1>1, RangeStarts
  <2> QED
    BY <2>1, Remainder
<1>3. RangeStart(f) + r = RangeStart(q) + m /\ m \in 0 .. (kRangeSize - 1) /\ m = (RangeStart(f) + r) % kRangeSize
  BY <1>1, <1>2 DEF RangeStart
<1>4. CASE q = f
  <2>0. RangeStart(f) \in Nat /\ r \in Nat /\ r >= 1 /\ m \in Nat /\ m < kRangeSize /\ kRangeSize \in Nat
    BY <1>3, RangeStarts
  <2>1. m = r
    <3>1. RangeStart(f) + r = RangeStart(f) + m
      BY <1>3, <1>4
    <3> QED
      BY ONLY <2>0, <3>1
  <2>2. r # 0 /\ r # kRangeSize
    BY ONLY <2>0, <2>1
  <2> QED
    BY <1>3, <2>1, <2>2
<1>5. CASE q < f
  BY <1>3, <1>5, Apart, RangeStarts
<1>6. CASE f < q
  <2>1. RangeStart(f) + kRangeSize <= RangeStart(q)
    BY <1>6, Apart
  <2>2. r = kRangeSize /\ m = 0
    BY <1>3, <2>1, RangeStarts
  <2> QED
    BY <1>3, <2>2
<1> QED
  BY <1>4, <1>5, <1>6

\* Arithmetic modulo Modulus up to the wrap.
LEMMA Wrapped ==
  ASSUME NEW a \in 0 .. Ids!Modulus
  PROVE  a % Ids!Modulus = IF a = Ids!Modulus THEN 0 ELSE a
<1>1. PICK M : M = Ids!Modulus
  OBVIOUS
<1>2. M \in Nat /\ M >= 1
  <2>1. RangeStart(0) + kRangeSize <= RangeStart(Ranges)
    BY Apart, RangeStarts
  <2> QED
    BY <1>1, <2>1, RangeStarts
<1>3. PICK q \in Nat, m \in 0 .. (M - 1) : m = a % M /\ a = M * q + m
  <2>1. a \in Nat
    BY <1>1, <1>2
  <2> QED
    BY ONLY <1>2, <2>1, Remainder
<1>4. M * q \in Nat /\ (q = 0 => M * q = 0) /\ (q = 1 => M * q = M) /\ (q > 1 => M * q >= M + M)
  <2>1. CASE q = 0 \/ q = 1
    BY <1>2, <2>1
  <2>2. CASE q > 1
    <3>1. PICK d \in Nat : q = 2 + d
      <4>1. q - 2 \in Nat /\ q = 2 + (q - 2)
        BY <1>3, <2>2
      <4> QED
        BY <4>1
    <3>2. M * d \in Nat /\ M * (2 + d) = M + M + M * d
      BY <1>2
    <3> QED
      BY <1>2, <2>2, <3>1, <3>2
  <2> QED
    BY <1>3, <2>1, <2>2
<1>5. a \in Nat /\ a <= M
  BY <1>1, <1>2
<1>6. m = IF a = M THEN 0 ELSE a
  BY <1>2, <1>3, <1>4, <1>5
<1> QED
  BY <1>1, <1>3, <1>6

\* The IDs of the ranges that can be fetched.
LEMMA IdsOfRanges ==
  ASSUME NEW f \in 0 .. (Ranges - 1), NEW r \in 1 .. kRangeSize
  PROVE  /\ f \in Nat /\ r \in Nat /\ RangeStart(f) \in Nat /\ RangeStart(f) + r \in 1 .. Ids!Modulus
         /\ (RangeStart(f) + r) % Ids!Modulus = Id(f, r)
         /\ Id(f, r) \in 0 .. (Ids!Modulus - 1)
         /\ Id(f, r) = 0 => f = Ranges - 1
<1>1. f \in Nat /\ r \in Nat /\ RangeStart(f) \in Nat /\ kRangeSize \in Nat /\ Ranges \in Nat /\ f < Ranges
  BY RangeStarts
<1>2. RangeStart(f) + kRangeSize <= Ids!Modulus /\ Ids!Modulus \in Nat
  BY <1>1, Apart, RangeStarts
<1>3. RangeStart(f) + r \in 1 .. Ids!Modulus
  BY <1>1, <1>2
<1>4. f # Ranges - 1 => RangeStart(f) + r < Ids!Modulus
  <2> SUFFICES ASSUME f # Ranges - 1 PROVE RangeStart(f) + r < Ids!Modulus
    OBVIOUS
  <2>1. f + 1 \in Nat /\ f + 1 < Ranges
    BY <1>1
  <2>2. RangeStart(f + 1) + kRangeSize <= RangeStart(Ranges) /\ RangeStart(f + 1) = RangeStart(f) + kRangeSize
    BY <1>1, <2>1, Apart, RangeStarts
  <2> QED
    BY <1>1, <1>2, <2>2, RangeStarts
<1>5. (RangeStart(f) + r) % Ids!Modulus = Id(f, r)
  BY <1>2, <1>3, Wrapped DEF Id
<1> QED
  BY <1>1, <1>2, <1>3, <1>4, <1>5 DEF Id

\* An ID belongs to one place of one range.
LEMMA IdUnique ==
  ASSUME NEW f \in 0 .. (Ranges - 1), NEW r \in 1 .. kRangeSize,
         NEW g \in 0 .. (Ranges - 1), NEW s \in 1 .. kRangeSize,
         Id(f, r) = Id(g, s) \/ RangeStart(f) + r = RangeStart(g) + s
  PROVE  f = g /\ r = s
<1>1. /\ f \in Nat /\ r \in Nat /\ RangeStart(f) \in Nat /\ RangeStart(f) + r >= 1
      /\ g \in Nat /\ s \in Nat /\ RangeStart(g) \in Nat /\ RangeStart(g) + s >= 1
  BY IdsOfRanges
<1>2. RangeStart(f) + r = RangeStart(g) + s
  BY <1>1 DEF Id
<1>3. kRangeSize \in Nat
  BY RangeStarts
<1>4. CASE f < g
  BY <1>1, <1>2, <1>3, <1>4, Apart
<1>5. CASE g < f
  BY <1>1, <1>2, <1>3, <1>5, Apart
<1>6. CASE f = g
  BY <1>1, <1>2, <1>6
<1> QED
  BY <1>1, <1>4, <1>5, <1>6

\* The range of a thread that has IDs left: it has handed out the first r of it, and
\* no other thread is in it.
Owns(t, f, r) ==
  /\ f \in 0 .. (fetches - 1) /\ r \in 1 .. (kRangeSize - 1)
  /\ localCounter[t] = RangeStart(f) + r
  /\ \A s \in (r + 1) .. kRangeSize : Id(f, s) \notin handed
  /\ \A u \in Threads \ {t} : \A s \in 1 .. (kRangeSize - 1) : localCounter[u] # RangeStart(f) + s

IdType == Ids!TypeOK /\ IsFiniteSet(handed) /\ Cardinality(handed) = calls

IdInv ==
  /\ IdType
  /\ counter = IF fetches = Ranges THEN 0 ELSE RangeStart(fetches)
  /\ \A x \in handed : \E f \in 0 .. (fetches - 1) : \E r \in 1 .. kRangeSize : x = Id(f, r)
  /\ \A t \in Threads : ~Ids!RangeExhausted(t) => \E f, r : Owns(t, f, r)

\* A call returns a new ID, and the thread's counter is at it.
LEMMA Returned ==
  ASSUME IdType, NEW t \in Threads, NEW id \in 0 .. (Ids!Modulus - 1), id \notin handed,
         localCounter' = [localCounter EXCEPT ![t] = id], calls' = calls + 1, handed' = handed \cup {id},
         counter' \in 0 .. (Ids!Modulus - 1), fetches' \in 0 .. Ranges
  PROVE  /\ IdType' /\ localCounter'[t] = id
         /\ \A u \in Threads \ {t} : localCounter'[u] = localCounter[u]
<1>1. IsFiniteSet(handed') /\ Cardinality(handed') = calls'
  BY FS_AddElement DEF IdType
<1>2. localCounter \in [Threads -> 0 .. (Ids!Modulus - 1)] /\ calls \in Nat /\ handed \subseteq 0 .. (Ids!Modulus - 1)
  BY DEF IdType, Ids!TypeOK
<1> QED
  BY <1>1, <1>2 DEF IdType, Ids!TypeOK

\* Another thread's range stays its own when an ID of a different range is returned.
LEMMA OwnedByOther ==
  ASSUME NEW t \in Threads, NEW u \in Threads \ {t}, NEW g, NEW q, Owns(u, g, q), fetches \in 0 .. Ranges,
         NEW f \in 0 .. (Ranges - 1), f # g, NEW r \in 1 .. kRangeSize,
         fetches' \in 0 .. Ranges, fetches <= fetches',
         handed' = handed \cup {Id(f, r)}, localCounter'[t] = Id(f, r),
         \A v \in Threads \ {t} : localCounter'[v] = localCounter[v]
  PROVE  Owns(u, g, q)'
<1>1. /\ g \in 0 .. (fetches - 1) /\ q \in 1 .. (kRangeSize - 1) /\ localCounter[u] = RangeStart(g) + q
      /\ \A s \in (q + 1) .. kRangeSize : Id(g, s) \notin handed
      /\ \A v \in Threads \ {u} : \A s \in 1 .. (kRangeSize - 1) : localCounter[v] # RangeStart(g) + s
  BY DEF Owns
<1>2. /\ kRangeSize \in Nat /\ Ranges \in Nat /\ g \in 0 .. (Ranges - 1) /\ g \in 0 .. (fetches' - 1)
      /\ RangeStart(g) \in Nat
  BY <1>1, RangeStarts
<1>3. ASSUME NEW s \in (q + 1) .. kRangeSize PROVE Id(g, s) \notin handed'
  <2>1. s \in 1 .. kRangeSize
    BY <1>1, <1>2
  <2>2. Id(g, s) # Id(f, r)
    BY <1>2, <2>1, IdUnique
  <2> QED
    BY <1>1, <2>2
<1>4. ASSUME NEW s \in 1 .. (kRangeSize - 1) PROVE localCounter'[t] # RangeStart(g) + s
  <2>1. s \in 1 .. kRangeSize /\ RangeStart(g) + s # 0
    BY <1>2
  <2>2. RangeStart(f) + r # RangeStart(g) + s
    BY <1>2, <2>1, IdUnique
  <2> QED
    BY <2>1, <2>2 DEF Id
<1>5. ASSUME NEW v \in Threads \ {u}, NEW s \in 1 .. (kRangeSize - 1) PROVE localCounter'[v] # RangeStart(g) + s
  <2>1. CASE v = t
    BY <1>4, <2>1
  <2>2. CASE v # t
    BY <1>1, <2>2
  <2> QED
    BY <2>1, <2>2
<1> QED
  BY <1>1, <1>2, <1>3, <1>5 DEF Owns

\* Every step of the generator preserves the invariant.
LEMMA IdStep == IdInv /\ [Ids!Next]_(Ids!vars) => IdInv'
<1> SUFFICES ASSUME IdInv, [Ids!Next]_(Ids!vars) PROVE IdInv'
  OBVIOUS
<1>0. /\ kRangeSize \in Nat /\ kRangeSize >= 1 /\ Ranges \in Nat /\ Ranges >= 1 /\ Ids!Modulus \in Nat
      /\ fetches \in Nat /\ fetches <= Ranges
      /\ localCounter \in [Threads -> 0 .. (Ids!Modulus - 1)]
  BY RangeStarts DEF IdInv, IdType, Ids!TypeOK
\* The thread takes the next range.
<1>1. ASSUME NEW t \in Threads, Ids!GenerateFromNewRange(t) PROVE IdInv'
  <2>1. PICK f : f = fetches
    OBVIOUS
  <2>2. f \in 0 .. (Ranges - 1) /\ fetches' = f + 1 /\ f \in Nat
    BY <1>0, <1>1, <2>1 DEF Ids!GenerateFromNewRange
  <2>3. counter = RangeStart(f) /\ 1 \in 1 .. kRangeSize /\ RangeStart(f) \in Nat
    BY <1>0, <2>1, <2>2, RangeStarts DEF IdInv
  <2>4. (counter + 1) % Ids!Modulus = Id(f, 1) /\ Id(f, 1) \in 0 .. (Ids!Modulus - 1)
    BY <2>2, <2>3, IdsOfRanges
  <2>5. /\ localCounter' = [localCounter EXCEPT ![t] = Id(f, 1)] /\ calls' = calls + 1
        /\ handed' = handed \cup {Id(f, 1)} /\ counter' = (counter + kRangeSize) % Ids!Modulus
    BY <1>1, <2>4 DEF Ids!GenerateFromNewRange, Ids!Return, Ids!Increment, Ids!FetchAdd
  <2>6. /\ counter' = IF fetches' = Ranges THEN 0 ELSE RangeStart(fetches')
        /\ counter' \in 0 .. (Ids!Modulus - 1)
    <3>1. kRangeSize \in 1 .. kRangeSize
      BY <1>0
    <3>2. counter' = Id(f, kRangeSize) /\ counter' \in 0 .. (Ids!Modulus - 1)
      BY <2>2, <2>3, <2>5, <3>1, IdsOfRanges
    <3>3. RangeStart(f) + kRangeSize = RangeStart(f + 1)
      BY <2>2, RangeStarts
    <3>4. CASE f + 1 = Ranges
      BY <2>2, <3>2, <3>3, <3>4, RangeStarts DEF Id
    <3>5. CASE f + 1 # Ranges
      <4>1. RangeStart(f + 1) + kRangeSize <= Ids!Modulus /\ RangeStart(f + 1) \in Nat
        <5>1. f + 1 \in Nat /\ f + 1 < Ranges
          BY <1>0, <2>2, <3>5
        <5> QED
          BY <1>0, <5>1, Apart, RangeStarts
      <4>2. RangeStart(f + 1) # Ids!Modulus
        BY <1>0, <4>1
      <4> QED
        BY <2>2, <3>2, <3>3, <3>5, <4>2 DEF Id
    <3> QED
      BY <3>4, <3>5
  \* Its IDs are new.
  <2>7. ASSUME NEW s \in 1 .. kRangeSize PROVE Id(f, s) \notin handed
    <3> SUFFICES ASSUME Id(f, s) \in handed PROVE FALSE
      OBVIOUS
    <3>1. PICK g \in 0 .. (fetches - 1), r \in 1 .. kRangeSize : Id(f, s) = Id(g, r)
      BY DEF IdInv
    <3>2. g \in 0 .. (Ranges - 1) /\ g # f
      BY <1>0, <2>1
    <3> QED
      BY <2>2, <3>1, <3>2, IdUnique
  <2>8. fetches' \in 0 .. Ranges /\ fetches <= fetches'
    BY <1>0, <2>1, <2>2
  <2>9. /\ IdType' /\ localCounter'[t] = Id(f, 1)
        /\ \A u \in Threads \ {t} : localCounter'[u] = localCounter[u]
    BY <2>3, <2>4, <2>5, <2>6, <2>7, <2>8, Returned DEF IdInv
  <2>10. ASSUME NEW x \in handed' PROVE \E g \in 0 .. (fetches' - 1) : \E r \in 1 .. kRangeSize : x = Id(g, r)
    <3>1. CASE x = Id(f, 1)
      <4>1. f \in 0 .. (fetches' - 1)
        BY <2>2
      <4> QED
        BY <2>3, <3>1, <4>1
    <3>2. CASE x \in handed
      <4>1. PICK g \in 0 .. (fetches - 1), r \in 1 .. kRangeSize : x = Id(g, r)
        BY <3>2 DEF IdInv
      <4>2. g \in 0 .. (fetches' - 1)
        BY <1>0, <2>1, <2>2
      <4> QED
        BY <4>1, <4>2
    <3> QED
      BY <2>5, <3>1, <3>2
  <2>11. ASSUME NEW u \in Threads, ~Ids!RangeExhausted(u)' PROVE \E g, q : Owns(u, g, q)'
    <3>1. CASE u # t
      <4>1. ~Ids!RangeExhausted(u)
        BY <2>9, <2>11, <3>1 DEF Ids!RangeExhausted
      <4>2. PICK g, q : Owns(u, g, q)
        BY <4>1 DEF IdInv
      <4>3. f # g /\ fetches \in 0 .. Ranges
        BY <1>0, <2>1, <4>2 DEF Owns
      <4>4. Owns(u, g, q)'
        BY <2>2, <2>3, <2>5, <2>8, <2>9, <3>1, <4>2, <4>3, OwnedByOther
      <4> QED
        BY <4>4
    <3>2. CASE u = t
      <4>1. Id(f, 1) % kRangeSize # 0
        BY <2>9, <2>11, <3>2 DEF Ids!RangeExhausted
      <4>2. Id(f, 1) = RangeStart(f) + 1 /\ kRangeSize # 1
        <5>1. 0 % kRangeSize = 0
          BY <1>0
        <5>2. Id(f, 1) # 0
          BY <4>1, <5>1
        <5>3. Id(f, 1) = RangeStart(f) + 1
          BY <5>2 DEF Id
        <5> QED
          BY <2>2, <2>3, <4>1, <5>3, RangeEnd
      <4>3. 1 \in 1 .. (kRangeSize - 1) /\ f \in 0 .. (fetches' - 1)
        BY <1>0, <2>2, <4>2
      <4>4. ASSUME NEW s \in 2 .. kRangeSize PROVE Id(f, s) \notin handed'
        <5>1. s \in 1 .. kRangeSize /\ s # 1
          BY <1>0
        <5>2. Id(f, s) # Id(f, 1)
          BY <2>2, <2>3, <5>1, IdUnique
        <5> QED
          BY <2>5, <2>7, <5>1, <5>2
      <4>5. ASSUME NEW v \in Threads \ {t}, NEW s \in 1 .. (kRangeSize - 1) PROVE localCounter'[v] # RangeStart(f) + s
        <5> SUFFICES ASSUME localCounter[v] = RangeStart(f) + s PROVE FALSE
          BY <2>9
        <5>1. s \in 1 .. kRangeSize /\ s # kRangeSize
          BY <1>0
        <5>2. ~Ids!RangeExhausted(v)
          BY <2>2, <5>1, RangeEnd DEF Ids!RangeExhausted
        <5>3. PICK g, q : Owns(v, g, q)
          BY <5>2 DEF IdInv
        <5>4. /\ g \in 0 .. (Ranges - 1) /\ g # f /\ q \in 1 .. kRangeSize
              /\ RangeStart(g) + q = RangeStart(f) + s
          BY <1>0, <2>1, <5>3 DEF Owns
        <5> QED
          BY <2>2, <5>1, <5>4, IdUnique
      <4>6. 1 + 1 = 2
        OBVIOUS
      <4>7. Owns(t, f, 1)'
        BY <2>9, <4>2, <4>3, <4>4, <4>5, <4>6 DEF Owns
      <4> QED
        BY <3>2, <4>7
    <3> QED
      BY <3>1, <3>2
  <2> QED
    BY <2>6, <2>9, <2>10, <2>11 DEF IdInv
\* The thread has IDs left in its range.
<1>2. ASSUME NEW t \in Threads, Ids!GenerateFromRange(t) PROVE IdInv'
  <2>1. PICK f, r : Owns(t, f, r)
    BY <1>2 DEF Ids!GenerateFromRange, IdInv
  <2>2. /\ f \in 0 .. (fetches - 1) /\ r \in 1 .. (kRangeSize - 1) /\ localCounter[t] = RangeStart(f) + r
        /\ \A s \in (r + 1) .. kRangeSize : Id(f, s) \notin handed
        /\ \A u \in Threads \ {t} : \A s \in 1 .. (kRangeSize - 1) : localCounter[u] # RangeStart(f) + s
    BY <2>1 DEF Owns
  <2>3. PICK n : n = r + 1
    OBVIOUS
  <2>4. f \in 0 .. (Ranges - 1) /\ f \in Nat /\ n \in 1 .. kRangeSize /\ n \in (r + 1) .. kRangeSize /\ n \in Nat
    BY <1>0, <2>2, <2>3
  <2>5. (localCounter[t] + 1) % Ids!Modulus = Id(f, n) /\ Id(f, n) \in 0 .. (Ids!Modulus - 1) /\ RangeStart(f) \in Nat
    <3>1. RangeStart(f) \in Nat /\ localCounter[t] + 1 = RangeStart(f) + n
      BY <2>2, <2>3, <2>4, RangeStarts
    <3> QED
      BY <2>4, <3>1, IdsOfRanges
  <2>6. /\ localCounter' = [localCounter EXCEPT ![t] = Id(f, n)] /\ calls' = calls + 1
        /\ handed' = handed \cup {Id(f, n)} /\ counter' = counter /\ fetches' = fetches
    BY <1>2, <2>5 DEF Ids!GenerateFromRange, Ids!Return, Ids!Increment
  <2>7. Id(f, n) \notin handed
    BY <2>2, <2>4
  <2>8. counter' \in 0 .. (Ids!Modulus - 1) /\ fetches' \in 0 .. Ranges
    BY <2>6 DEF IdInv, IdType, Ids!TypeOK
  <2>9. /\ IdType' /\ localCounter'[t] = Id(f, n)
        /\ \A u \in Threads \ {t} : localCounter'[u] = localCounter[u]
    BY <2>5, <2>6, <2>7, <2>8, Returned DEF IdInv
  <2>10. \A x \in handed' : \E g \in 0 .. (fetches' - 1) : \E s \in 1 .. kRangeSize : x = Id(g, s)
    BY <2>2, <2>4, <2>6 DEF IdInv
  <2>11. ASSUME NEW u \in Threads, ~Ids!RangeExhausted(u)' PROVE \E g, q : Owns(u, g, q)'
    <3>1. CASE u # t
      <4>1. ~Ids!RangeExhausted(u)
        BY <2>9, <2>11, <3>1 DEF Ids!RangeExhausted
      <4>2. PICK g, q : Owns(u, g, q)
        BY <4>1 DEF IdInv
      <4>3. f # g
        BY <2>2, <3>1, <4>2 DEF Owns
      <4>4. fetches \in 0 .. Ranges /\ fetches <= fetches'
        BY <1>0, <2>6
      <4>5. Owns(u, g, q)'
        BY <2>4, <2>6, <2>8, <2>9, <3>1, <4>2, <4>3, <4>4, OwnedByOther
      <4> QED
        BY <4>5
    <3>2. CASE u = t
      <4>1. Id(f, n) % kRangeSize # 0
        BY <2>9, <2>11, <3>2 DEF Ids!RangeExhausted
      <4>2. 0 % kRangeSize = 0
        BY <1>0
      <4>3. Id(f, n) = RangeStart(f) + n
        BY <4>1, <4>2 DEF Id
      <4>4. n # kRangeSize
        BY <2>4, <4>1, <4>3, RangeEnd
      <4>5. n \in 1 .. (kRangeSize - 1)
        BY <1>0, <2>4, <4>4
      <4>6. ASSUME NEW s \in (n + 1) .. kRangeSize PROVE Id(f, s) \notin handed'
        <5>1. s \in 1 .. kRangeSize /\ s \in (r + 1) .. kRangeSize /\ s # n
          BY <1>0, <2>2, <2>3, <2>4
        <5>2. Id(f, s) # Id(f, n)
          BY <2>4, <5>1, IdUnique
        <5> QED
          BY <2>2, <2>6, <5>1, <5>2
      <4>7. Owns(t, f, n)'
        BY <2>2, <2>6, <2>9, <4>3, <4>5, <4>6 DEF Owns
      <4> QED
        BY <3>2, <4>7
    <3> QED
      BY <3>1, <3>2
  <2> QED
    BY <2>6, <2>9, <2>10, <2>11 DEF IdInv
\* A thread that ends takes the rest of its range with it.
<1>3. ASSUME NEW t \in Threads, Ids!NewThread(t) PROVE IdInv'
  <2>1. /\ localCounter' = [localCounter EXCEPT ![t] = 0]
        /\ counter' = counter /\ fetches' = fetches /\ calls' = calls /\ handed' = handed
    BY <1>3 DEF Ids!NewThread
  <2>2. localCounter'[t] = 0 /\ \A u \in Threads \ {t} : localCounter'[u] = localCounter[u]
    BY <1>0, <2>1
  <2>3. 0 \in 0 .. (Ids!Modulus - 1)
    <3>1. 0 \in 0 .. (Ranges - 1) /\ 1 \in 1 .. kRangeSize
      BY <1>0
    <3> QED
      BY <1>0, <3>1, IdsOfRanges
  <2>4. IdType'
    BY <1>0, <2>1, <2>3 DEF IdInv, IdType, Ids!TypeOK
  <2>5. ASSUME NEW u \in Threads, ~Ids!RangeExhausted(u)' PROVE \E g, q : Owns(u, g, q)'
    <3>1. u # t
      <4>1. 0 % kRangeSize = 0
        BY <1>0
      <4> QED
        BY <2>2, <2>5, <4>1 DEF Ids!RangeExhausted
    <3>2. ~Ids!RangeExhausted(u)
      BY <2>2, <2>5, <3>1 DEF Ids!RangeExhausted
    <3>3. PICK g, q : Owns(u, g, q)
      BY <3>2 DEF IdInv
    <3>4. RangeStart(g) \in Nat
      BY <1>0, <3>3, RangeStarts DEF Owns
    <3>5. \A s \in 1 .. (kRangeSize - 1) : 0 # RangeStart(g) + s
      BY <1>0, <3>4
    <3>6. Owns(u, g, q)'
      BY <2>1, <2>2, <3>1, <3>3, <3>5 DEF Owns
    <3> QED
      BY <3>6
  <2> QED
    BY <2>1, <2>4, <2>5 DEF IdInv
<1>4. CASE UNCHANGED Ids!vars
  BY <1>4 DEF Ids!vars, IdInv, IdType, Ids!TypeOK, Owns, Ids!RangeExhausted
<1> QED
  BY <1>1, <1>2, <1>3, <1>4 DEF Ids!Next

\* The instance counts as the theorems about finite sets do.
LEMMA IdCardinality == \A S : Ids!Cardinality(S) = Cardinality(S)
BY DEF Ids!Cardinality, Cardinality

\* IDGen.cpp:35-56, for any number of threads that come and go, any size of the ranges and of
\* the counter: every call returns a different ID until the counter wraps, and 0 only from
\* the last range.
THEOREM IDsAreUnique == Ids!Spec => []IDsUniqueNonzero
<1>1. Ids!Init => IdInv
  <2> SUFFICES ASSUME Ids!Init PROVE IdInv
    OBVIOUS
  <2>1. /\ counter = 0 /\ localCounter = [t \in Threads |-> 0] /\ fetches = 0 /\ calls = 0 /\ handed = {}
        /\ kRangeSize \in Nat /\ kRangeSize >= 1 /\ Ranges \in Nat /\ Ranges >= 1 /\ Ids!Modulus \in Nat
    BY RangeStarts DEF Ids!Init
  <2>2. 0 \in 0 .. (Ids!Modulus - 1)
    <3>1. 0 \in 0 .. (Ranges - 1) /\ 1 \in 1 .. kRangeSize
      BY <2>1
    <3> QED
      BY <2>1, <3>1, IdsOfRanges
  <2>3. IdType
    BY <2>1, <2>2, FS_EmptySet DEF IdType, Ids!TypeOK
  <2>4. counter = IF fetches = Ranges THEN 0 ELSE RangeStart(fetches)
    BY <2>1, RangeStarts
  <2>5. \A t \in Threads : Ids!RangeExhausted(t)
    <3>1. 0 % kRangeSize = 0
      BY <2>1
    <3> QED
      BY <2>1, <3>1 DEF Ids!RangeExhausted
  <2> QED
    BY <2>1, <2>3, <2>4, <2>5 DEF IdInv
<1>2. IdInv => IDsUniqueNonzero
  <2> SUFFICES ASSUME IdInv PROVE IDsUniqueNonzero
    OBVIOUS
  <2>1. Ids!TypeOK /\ Ids!Cardinality(handed) = calls
    BY IdCardinality DEF IdInv, IdType
  <2>2. ASSUME 0 \in handed PROVE fetches = Ranges
    <3>1. PICK f \in 0 .. (fetches - 1), r \in 1 .. kRangeSize : 0 = Id(f, r)
      BY <2>2 DEF IdInv
    <3>2. fetches \in Nat /\ fetches <= Ranges /\ Ranges \in Nat
      BY <2>1, RangeStarts DEF Ids!TypeOK
    <3>3. f \in 0 .. (Ranges - 1)
      BY <3>2
    <3>4. f = Ranges - 1
      BY <3>1, <3>3, IdsOfRanges
    <3> QED
      BY <3>2, <3>4
  <2> QED
    BY <2>1, <2>2 DEF IDsUniqueNonzero, Ids!IDsUniqueNonzero
<1> QED
  BY <1>1, <1>2, IdStep, PTL DEF Ids!Spec

-----------------------------------------------------------------------------
(* BucketedLog *)

\* Within a window no two ticks share a bucket.
LEMMA SameBucket ==
  ASSUME NEW a \in Nat, NEW b \in Nat, a <= b, b < a + Size, a % Size = b % Size
  PROVE  a = b
<1>1. Size \in Nat /\ Size >= 1
  BY SizeAssumption
<1> QED
  BY <1>1, SameRemainder

\* A bucket is used again a window later.
LEMMA NextBucket ==
  ASSUME NEW a \in Nat
  PROVE  a % Size \in 0 .. (Size - 1) /\ (a + Size) % Size = a % Size
<1>1. Size \in Nat /\ Size >= 1
  BY SizeAssumption
<1> QED
  BY <1>1, NextRemainder

Sample == Log!Logs \X Nat
Of(log, t) == {s \in known[log] : s[2] = t}

LogType ==
  /\ windowStart \in [Log!Logs -> Nat]
  /\ buckets \in [Log!Logs -> [0 .. (Size - 1) -> SUBSET Sample]]
  /\ known \in [Log!Logs -> SUBSET Sample]

\* No sample is from after the window, so a bucket that rolls in is empty.
LogInv ==
  /\ LogType
  /\ \A log \in Log!Logs : \A s \in known[log] : s[2] < windowStart[log] + Size
  /\ \A log \in Log!Logs : \A t \in Log!Window(log) : buckets[log][t % Size] = Of(log, t)

\* What a log that advances its window to hold the tick now has afterwards.
Advances(log, now, start, new) ==
  /\ start \in Nat /\ windowStart[log] \in Nat /\ windowStart[log] <= start /\ now < start + Size
  /\ now >= windowStart[log] => start <= now
  /\ now >= windowStart[log] + Size - 1 => start = now + 1 - Size
  /\ new \in [0 .. (Size - 1) -> SUBSET Sample]
  /\ \A t \in start .. (start + Size - 1) : new[t % Size] = Of(log, t)

\* When the window moves, what rolls out is cleared and the rest stays in place.
LEMMA AdvancedWindow ==
  ASSUME LogInv, NEW log \in Log!Logs, NEW now \in Nat, NEW start, start = Log!Start(log, now),
         NEW new, new = Log!Advanced(log, now)
  PROVE  Advances(log, now, start, new)
<1>1. PICK ws, n : ws = windowStart[log] /\ n = Size
  OBVIOUS
<1>2. ws \in Nat /\ n \in Nat /\ n >= 1
  BY <1>1, SizeAssumption DEF LogInv, LogType
<1>3. start = IF now < ws + n THEN ws ELSE now + 1 - n
  BY <1>1 DEF Log!Start
<1>4. /\ start \in Nat /\ ws <= start /\ now < start + n
      /\ now >= ws => start <= now
      /\ now >= ws + n - 1 => start = now + 1 - n
  BY <1>2, <1>3
<1>5. PICK old : old = buckets[log]
  OBVIOUS
<1>6. PICK C : C = Log!Cleared(log, start)
  OBVIOUS
<1>7. new = [b \in 0 .. (n - 1) |-> IF b \in C THEN {} ELSE old[b]]
  BY <1>1, <1>5, <1>6 DEF Log!Advanced
<1>8. old \in [0 .. (n - 1) -> SUBSET Sample]
  BY <1>1, <1>5 DEF LogInv, LogType
<1>9. new \in [0 .. (n - 1) -> SUBSET Sample]
  BY <1>7, <1>8
<1>10. PICK c : c = IF start - ws < n THEN start - ws ELSE n
  OBVIOUS
<1>11. c \in Nat /\ c <= n /\ c <= start - ws /\ c <= start /\ (c = start - ws \/ c = n)
  BY <1>2, <1>4, <1>10
<1>12. \A b : b \in C <=> \E q \in 0 .. start : start - c <= q /\ q < start /\ b = q % Size
  <2>1. C = {p % Size : p \in (start - c) .. (start - 1)}
    BY <1>1, <1>6, <1>10 DEF Log!Cleared
  <2>2. \A q : q \in (start - c) .. (start - 1) <=> q \in 0 .. start /\ start - c <= q /\ q < start
    BY <1>4, <1>11
  <2> QED
    BY <2>1, <2>2
<1>13. ASSUME NEW t \in start .. (start + Size - 1) PROVE new[t % Size] = Of(log, t)
  <2>1. t \in Nat /\ start <= t /\ t < start + n /\ t % Size \in 0 .. (n - 1)
    BY <1>1, <1>2, <1>4, NextBucket
  <2>2. CASE t < ws + n
    <3>1. old[t % Size] = Of(log, t)
      <4>1. t \in Log!Window(log)
        BY <1>1, <1>2, <1>4, <2>1, <2>2 DEF Log!Window
      <4> QED
        BY <1>5, <4>1 DEF LogInv
    <3>2. t % Size \notin C
      <4> SUFFICES ASSUME t % Size \in C PROVE FALSE
        OBVIOUS
      <4>1. PICK q \in 0 .. start : start - c <= q /\ q < start /\ t % Size = q % Size
        BY <1>12
      <4>2. q \in Nat /\ q < t /\ t < q + Size
        BY <1>1, <1>2, <1>4, <1>11, <2>1, <2>2, <4>1
      <4>3. q = t
        BY <2>1, <4>1, <4>2, SameBucket
      <4> QED
        BY <2>1, <4>2, <4>3
    <3> QED
      BY <1>7, <2>1, <3>1, <3>2
  <2>3. CASE t >= ws + n
    <3>1. Of(log, t) = {}
      <4>1. \A s \in known[log] : s[2] < ws + n /\ s[2] \in Nat
        BY <1>1 DEF LogInv, LogType, Sample
      <4> QED
        BY <1>2, <2>1, <2>3, <4>1 DEF Of
    <3>2. t % Size \in C
      <4>1. PICK q : q = t - n
        OBVIOUS
      <4>2. q \in 0 .. start /\ q \in Nat /\ start - c <= q /\ q < start /\ t = q + Size
        BY <1>1, <1>2, <1>4, <1>11, <2>1, <2>3, <4>1
      <4>3. t % Size = q % Size
        BY <4>2, NextBucket
      <4> QED
        BY <1>12, <4>2, <4>3
    <3> QED
      BY <1>7, <2>1, <3>1, <3>2
  <2> QED
    BY <1>2, <2>1, <2>2, <2>3
<1> QED
  BY <1>1, <1>4, <1>9, <1>13, <1>2 DEF Advances

\* What a step does to one of the logs leaves the other alone.
LEMMA OneLog ==
  ASSUME LogInv, NEW log \in Log!Logs, NEW start \in Nat,
         NEW new \in [0 .. (Size - 1) -> SUBSET Sample], NEW samples \in SUBSET Sample,
         windowStart' = [windowStart EXCEPT ![log] = start], buckets' = [buckets EXCEPT ![log] = new],
         known' = [known EXCEPT ![log] = samples],
         \A s \in samples : s[2] < start + Size,
         \A t \in start .. (start + Size - 1) : new[t % Size] = {s \in samples : s[2] = t}
  PROVE  LogInv'
<1>1. LogType'
  BY DEF LogInv, LogType
<1>2. /\ windowStart'[log] = start /\ buckets'[log] = new /\ known'[log] = samples
      /\ \A l \in Log!Logs \ {log} : /\ windowStart'[l] = windowStart[l] /\ buckets'[l] = buckets[l]
                                     /\ known'[l] = known[l]
  BY DEF LogInv, LogType
<1>3. ASSUME NEW l \in Log!Logs
      PROVE  /\ \A s \in known'[l] : s[2] < windowStart'[l] + Size
             /\ \A t \in Log!Window(l)' : buckets'[l][t % Size] = Of(l, t)'
  <2>1. CASE l = log
    <3>1. Log!Window(l)' = start .. (start + Size - 1)
      BY <1>2, <2>1 DEF Log!Window
    <3>2. \A t : Of(l, t)' = {s \in samples : s[2] = t}
      BY <1>2, <2>1 DEF Of
    <3>3. \A s \in known'[l] : s[2] < windowStart'[l] + Size
      BY <1>2, <2>1
    <3>4. ASSUME NEW t \in Log!Window(l)' PROVE buckets'[l][t % Size] = Of(l, t)'
      <4>1. buckets'[l] = new /\ t \in start .. (start + Size - 1)
        BY <1>2, <2>1, <3>1
      <4>2. new[t % Size] = {s \in samples : s[2] = t}
        BY <4>1
      <4> QED
        BY ONLY <3>2, <4>1, <4>2
    <3> QED
      BY <3>3, <3>4
  <2>2. CASE l # log
    BY <1>2, <2>2 DEF LogInv, Log!Window, Of
  <2> QED
    BY <2>1, <2>2
<1> QED
  BY <1>1, <1>3 DEF LogInv

\* Every step of the logs preserves the invariant.
LEMMA LogStep == LogInv /\ [Log!Next]_(Log!logVars) => LogInv'
<1> SUFFICES ASSUME LogInv, [Log!Next]_(Log!logVars) PROVE LogInv'
  OBVIOUS
<1>0. Size \in Nat /\ Size >= 1 /\ LogType
  BY SizeAssumption DEF LogInv
<1>1. ASSUME NEW log \in Log!Logs, NEW now \in Log!Ticks, Log!Add(log, now) PROVE LogInv'
  <2>1. PICK start, old : start = Log!Start(log, now) /\ old = Log!Advanced(log, now)
    OBVIOUS
  <2>2. now \in Nat /\ now >= windowStart[log]
    BY <1>1, SizeAssumption DEF Log!Ticks, Log!Add
  <2>3. /\ start \in Nat /\ start <= now /\ now < start + Size /\ windowStart[log] \in Nat /\ windowStart[log] <= start
        /\ old \in [0 .. (Size - 1) -> SUBSET Sample]
        /\ \A t \in start .. (start + Size - 1) : old[t % Size] = Of(log, t)
    <3>1. Advances(log, now, start, old)
      BY ONLY LogInv, log \in Log!Logs, <2>1, <2>2, AdvancedWindow
    <3> QED
      BY ONLY <2>2, <3>1 DEF Advances
  <2>4. PICK e : e = <<log, now>>
    OBVIOUS
  <2>5. PICK new, samples : new = [old EXCEPT ![now % Size] = @ \cup {e}] /\ samples = known[log] \cup {e}
    OBVIOUS
  <2>6. /\ windowStart' = [windowStart EXCEPT ![log] = start] /\ buckets' = [buckets EXCEPT ![log] = new]
        /\ known' = [known EXCEPT ![log] = samples]
    BY <1>1, <2>1, <2>4, <2>5 DEF Log!Add
  <2>7. e \in Sample /\ e[2] = now /\ now % Size \in 0 .. (Size - 1)
    BY <2>2, <2>4, NextBucket DEF Sample
  <2>8. known[log] \subseteq Sample
    BY <1>0 DEF LogType
  <2>9. /\ new \in [0 .. (Size - 1) -> SUBSET Sample] /\ samples \in SUBSET Sample
        /\ new[now % Size] = old[now % Size] \cup {e}
        /\ \A b \in 0 .. (Size - 1) : b # now % Size => new[b] = old[b]
    BY <2>3, <2>5, <2>7, <2>8
  <2>10. ASSUME NEW s \in samples PROVE s[2] < start + Size
    <3>1. CASE s = e
      BY <2>3, <2>7, <3>1
    <3>2. CASE s \in known[log]
      <4>1. s[2] < windowStart[log] + Size /\ s[2] \in Nat
        BY <2>8, <3>2 DEF LogInv, Sample
      <4> QED
        BY <1>0, <2>3, <4>1
    <3> QED
      BY <2>5, <3>1, <3>2
  <2>11. ASSUME NEW t \in start .. (start + Size - 1) PROVE new[t % Size] = {s \in samples : s[2] = t}
    <3>1. t \in Nat /\ t % Size \in 0 .. (Size - 1) /\ start <= t /\ t < start + Size /\ old[t % Size] = Of(log, t)
      <4>1. t \in Nat /\ start <= t /\ t < start + Size
        BY <1>0, <2>3
      <4> QED
        BY <2>3, <4>1, NextBucket
    <3>2. CASE t = now
      BY <2>5, <2>7, <2>9, <3>1, <3>2 DEF Of
    <3>3. CASE t # now
      <4>1. t % Size # now % Size
        <5>1. CASE t < now
          BY <1>0, <2>2, <2>3, <3>1, <5>1, SameBucket
        <5>2. CASE now < t
          BY <1>0, <2>2, <2>3, <3>1, <5>2, SameBucket
        <5> QED
          BY <2>2, <3>1, <3>3, <5>1, <5>2
      <4>2. {s \in samples : s[2] = t} = Of(log, t)
        BY <2>5, <2>7, <3>3 DEF Of
      <4> QED
        BY <2>9, <3>1, <4>1, <4>2
    <3> QED
      BY <3>2, <3>3
  <2> QED
    BY <2>3, <2>6, <2>9, <2>10, <2>11, OneLog
<1>2. ASSUME NEW log \in Log!Logs, NEW now \in Log!Ticks, Log!AddTooLate(log, now) PROVE LogInv'
  <2>1. PICK start, new, e, samples : /\ start = windowStart[log] /\ new = buckets[log] /\ e = <<log, now>>
                                      /\ samples = known[log] \cup {e}
    OBVIOUS
  <2>2. now \in Nat /\ now < windowStart[log]
    BY <1>2, SizeAssumption DEF Log!Ticks, Log!AddTooLate
  <2>3. /\ windowStart' = [windowStart EXCEPT ![log] = start] /\ buckets' = [buckets EXCEPT ![log] = new]
        /\ known' = [known EXCEPT ![log] = samples]
    BY <1>0, <1>2, <2>1 DEF Log!AddTooLate, LogType
  <2>4. /\ start \in Nat /\ new \in [0 .. (Size - 1) -> SUBSET Sample] /\ known[log] \subseteq Sample
        /\ e \in Sample /\ e[2] = now /\ samples \in SUBSET Sample
    BY <1>0, <2>1, <2>2 DEF LogType, Sample
  <2>5. \A s \in samples : s[2] < start + Size
    BY <1>0, <2>1, <2>2, <2>4 DEF LogInv
  <2>6. ASSUME NEW t \in start .. (start + Size - 1) PROVE new[t % Size] = {s \in samples : s[2] = t}
    <3>1. t # now
      BY <1>0, <2>1, <2>2, <2>4
    <3>2. {s \in samples : s[2] = t} = Of(log, t)
      BY <2>1, <2>4, <3>1 DEF Of
    <3>3. t \in Log!Window(log)
      BY <2>1 DEF Log!Window
    <3> QED
      BY <2>1, <3>2, <3>3 DEF LogInv
  <2> QED
    BY <2>3, <2>4, <2>5, <2>6, OneLog
<1>3. ASSUME NEW log \in Log!Logs, NEW now \in Log!Ticks, Log!GetAll(log, now) PROVE LogInv'
  <2>1. PICK start, new, samples : /\ start = Log!Start(log, now) /\ new = Log!Advanced(log, now)
                                   /\ samples = known[log]
    OBVIOUS
  <2>2. now \in Nat
    BY SizeAssumption DEF Log!Ticks
  <2>3. /\ start \in Nat /\ windowStart[log] \in Nat /\ windowStart[log] <= start
        /\ new \in [0 .. (Size - 1) -> SUBSET Sample]
        /\ \A t \in start .. (start + Size - 1) : new[t % Size] = Of(log, t)
    <3>1. Advances(log, now, start, new)
      BY ONLY LogInv, log \in Log!Logs, <2>1, <2>2, AdvancedWindow
    <3> QED
      BY ONLY <3>1 DEF Advances
  <2>4. /\ windowStart' = [windowStart EXCEPT ![log] = start] /\ buckets' = [buckets EXCEPT ![log] = new]
        /\ known' = [known EXCEPT ![log] = samples]
    BY <1>0, <1>3, <2>1 DEF Log!GetAll, LogType
  <2>5. samples \in SUBSET Sample
    BY <1>0, <2>1 DEF LogType
  <2>6. ASSUME NEW s \in samples PROVE s[2] < start + Size
    <3>1. s[2] \in Nat /\ s[2] < windowStart[log] + Size
      BY <2>1, <2>5 DEF LogInv, Sample
    <3> QED
      BY <1>0, <2>3, <3>1
  <2>7. \A t \in start .. (start + Size - 1) : new[t % Size] = {s \in samples : s[2] = t}
    BY <2>1, <2>3 DEF Of
  <2> QED
    BY <2>3, <2>4, <2>5, <2>6, <2>7, OneLog
<1>4. ASSUME NEW log \in Log!Logs, NEW from \in Log!Logs, Log!Merge(log, from) PROVE LogInv'
  <2>1. PICK now, start, old : /\ now = windowStart[from] + Size - 1 /\ start = Log!Start(log, now)
                               /\ old = Log!Advanced(log, now)
    OBVIOUS
  <2>2. now \in Nat /\ windowStart[from] \in Nat
    BY <1>0, <2>1 DEF LogType
  <2>3. /\ start \in Nat /\ windowStart[log] \in Nat /\ windowStart[log] <= start /\ now < start + Size
        /\ old \in [0 .. (Size - 1) -> SUBSET Sample]
        /\ \A t \in start .. (start + Size - 1) : old[t % Size] = Of(log, t)
    <3>1. LogInv /\ log \in Log!Logs /\ now \in Nat /\ start = Log!Start(log, now) /\ old = Log!Advanced(log, now)
      BY <2>1, <2>2
    <3>2. Advances(log, now, start, old)
      BY ONLY <3>1, AdvancedWindow
    <3> QED
      BY ONLY <3>2 DEF Advances
  <2>4. windowStart[from] <= start
    BY <1>0, <2>1, <2>2, <2>3
  <2>5. PICK both, new, samples :
          /\ both = (start .. (start + Size - 1)) \cap Log!Window(from)
          /\ new = [b \in 0 .. (Size - 1) |-> old[b] \cup (IF b \in {t % Size : t \in both} THEN buckets[from][b] ELSE {})]
          /\ samples = known[log] \cup known[from]
    OBVIOUS
  <2>6. /\ windowStart' = [windowStart EXCEPT ![log] = start] /\ buckets' = [buckets EXCEPT ![log] = new]
        /\ known' = [known EXCEPT ![log] = samples]
    BY <1>4, <2>1, <2>5 DEF Log!Merge
  <2>7. /\ known[log] \subseteq Sample /\ known[from] \subseteq Sample /\ samples \in SUBSET Sample
        /\ buckets[from] \in [0 .. (Size - 1) -> SUBSET Sample]
    BY <1>0, <2>5 DEF LogType
  <2>8. new \in [0 .. (Size - 1) -> SUBSET Sample]
    BY <2>3, <2>5, <2>7
  <2>9. \A s \in known[from] : s[2] \in Nat /\ s[2] < windowStart[from] + Size
    BY <2>7 DEF LogInv, Sample
  <2>10. \A s \in known[log] : s[2] \in Nat /\ s[2] < windowStart[log] + Size
    BY <2>7 DEF LogInv, Sample
  <2>11. \A s \in samples : s[2] < start + Size
    BY <1>0, <2>2, <2>3, <2>4, <2>5, <2>9, <2>10
  <2>12. ASSUME NEW t \in start .. (start + Size - 1) PROVE new[t % Size] = {s \in samples : s[2] = t}
    <3>1. t \in Nat /\ t % Size \in 0 .. (Size - 1) /\ start <= t /\ t < start + Size /\ old[t % Size] = Of(log, t)
      <4>1. t \in Nat /\ start <= t /\ t < start + Size
        BY <1>0, <2>3
      <4> QED
        BY <2>3, <4>1, NextBucket
    <3>2. {s \in samples : s[2] = t} = Of(log, t) \cup Of(from, t)
      BY <2>5 DEF Of
    <3>3. CASE t \in Log!Window(from)
      <4>1. t \in both /\ buckets[from][t % Size] = Of(from, t)
        BY <2>5, <3>3 DEF LogInv
      <4>2. t % Size \in {u % Size : u \in both}
        BY <4>1
      <4> QED
        BY <2>5, <3>1, <3>2, <4>1, <4>2
    <3>4. CASE t \notin Log!Window(from)
      <4>1. t >= windowStart[from] + Size
        BY <1>0, <2>2, <2>3, <2>4, <3>1, <3>4 DEF Log!Window
      <4>2. Of(from, t) = {}
        BY <1>0, <2>2, <2>9, <3>1, <4>1 DEF Of
      <4>3. t % Size \notin {u % Size : u \in both}
        <5> SUFFICES ASSUME NEW u \in both, t % Size = u % Size PROVE FALSE
          OBVIOUS
        <5>1. u \in Nat /\ start <= u /\ u < start + Size /\ u \in Log!Window(from)
          BY <1>0, <2>3, <2>5
        <5>2. t = u
          <6>1. CASE t <= u
            BY <1>0, <2>3, <3>1, <5>1, <6>1, SameBucket
          <6>2. CASE u <= t
            BY <1>0, <2>3, <3>1, <5>1, <6>2, SameBucket
          <6> QED
            BY <3>1, <5>1, <6>1, <6>2
        <5> QED
          BY <3>4, <5>1, <5>2
      <4> QED
        BY <2>5, <3>1, <3>2, <4>2, <4>3
    <3> QED
      BY <3>3, <3>4
  <2> QED
    BY <2>3, <2>6, <2>7, <2>8, <2>11, <2>12, OneLog
<1>5. ASSUME NEW log \in Log!Logs, Log!Clear(log) PROVE LogInv'
  <2>1. PICK start, new, samples : /\ start = windowStart[log] /\ new = [b \in 0 .. (Size - 1) |-> {}]
                                   /\ samples = {}
    OBVIOUS
  <2>2. /\ windowStart' = [windowStart EXCEPT ![log] = start] /\ buckets' = [buckets EXCEPT ![log] = new]
        /\ known' = [known EXCEPT ![log] = samples]
    BY <1>0, <1>5, <2>1 DEF Log!Clear, LogType
  <2>3. /\ start \in Nat /\ new \in [0 .. (Size - 1) -> SUBSET Sample] /\ samples \in SUBSET Sample
        /\ \A s \in samples : s[2] < start + Size
    BY <1>0, <2>1 DEF LogType
  <2>4. ASSUME NEW t \in start .. (start + Size - 1) PROVE new[t % Size] = {s \in samples : s[2] = t}
    <3>1. t \in Nat
      BY <1>0, <2>3
    <3>2. t % Size \in 0 .. (Size - 1)
      BY <3>1, NextBucket
    <3> QED
      BY <2>1, <3>2
  <2> QED
    BY <2>2, <2>3, <2>4, OneLog
<1>6. CASE UNCHANGED Log!logVars
  BY <1>6 DEF Log!logVars, LogInv, LogType, Log!Window, Of
<1>7. \A log \in Log!Logs : (CHOOSE other \in Log!Logs : other # log) \in Log!Logs
  <2>1. \A log \in Log!Logs : \E other \in Log!Logs : other # log
    BY DEF Log!Logs
  <2> QED
    BY <2>1
<1> QED
  BY <1>1, <1>2, <1>3, <1>4, <1>5, <1>6, <1>7 DEF Log!Next

\* BucketedLog.h:43-112, for every size of the window and any times: each bucket holds exactly the
\* samples of its tick, and getAll() returns them oldest first.
THEOREM WindowIsKept == Log!Spec => []BucketsAreWindow
<1>1. Log!Init => LogInv
  <2> SUFFICES ASSUME Log!Init PROVE LogInv
    OBVIOUS
  <2>1. LogType
    BY DEF Log!Init, LogType
  <2>2. ASSUME NEW log \in Log!Logs, NEW t \in Log!Window(log) PROVE buckets[log][t % Size] = Of(log, t)
    <3>1. windowStart[log] = 0 /\ known[log] = {} /\ buckets[log] = [b \in 0 .. (Size - 1) |-> {}]
      BY DEF Log!Init
    <3>2. t \in Nat
      BY <3>1, SizeAssumption DEF Log!Window
    <3>3. t % Size \in 0 .. (Size - 1)
      BY <3>2, NextBucket
    <3> QED
      BY <3>1, <3>3 DEF Of
  <2> QED
    BY <2>1, <2>2 DEF LogInv, Log!Init
<1>2. LogInv => BucketsAreWindow
  <2> SUFFICES ASSUME LogInv PROVE BucketsAreWindow
    OBVIOUS
  <2>1. ASSUME NEW log \in Log!Logs, NEW now \in Log!Ticks, now >= windowStart[log] + Size - 1,
               NEW i \in 1 .. Size, now + i >= Size
        PROVE  Log!GetAllResult(log, now)[i] = Of(log, now + i - Size)
    <3>1. PICK start, new : start = Log!Start(log, now) /\ new = Log!Advanced(log, now)
      OBVIOUS
    <3>2. now \in Nat /\ Size \in Nat /\ Size >= 1
      BY SizeAssumption DEF Log!Ticks
    <3>3. /\ start \in Nat /\ start = now + 1 - Size
          /\ \A t \in start .. (start + Size - 1) : new[t % Size] = Of(log, t)
      <4>1. LogInv /\ log \in Log!Logs /\ now \in Nat
        BY <3>2
      <4>2. /\ start \in Nat
            /\ now >= windowStart[log] + Size - 1 => start = now + 1 - Size
            /\ \A t \in start .. (start + Size - 1) : new[t % Size] = Of(log, t)
        <5>1. Advances(log, now, start, new)
          BY ONLY <3>1, <4>1, AdvancedWindow
        <5> QED
          BY ONLY <5>1 DEF Advances
      <4> QED
        BY <2>1, <4>2
    <3>4. PICK t : t = now + i - Size
      OBVIOUS
    <3>5. t \in Nat /\ t \in start .. (start + Size - 1) /\ now + i = t + Size
      BY <2>1, <3>2, <3>3, <3>4
    <3>6. (now + i) % Size = t % Size
      BY <3>5, NextBucket
    <3>7. Log!GetAllResult(log, now)[i] = new[(now + i) % Size]
      BY <3>1 DEF Log!GetAllResult
    <3> QED
      BY <3>3, <3>4, <3>5, <3>6, <3>7
  <2>2. \A log \in Log!Logs : \A t \in Log!Window(log) : buckets[log][t % Size] = Of(log, t)
    BY DEF LogInv
  <2> QED
    BY <2>1, <2>2 DEF BucketsAreWindow, Log!BucketsAreWindow, Of
<1> QED
  BY <1>1, <1>2, LogStep, PTL DEF Log!Spec

-----------------------------------------------------------------------------
(* FaultInjector *)

Holds(s, x) == \E i \in 1 .. Len(s) : s[i] = x
Distinct(s) == \A i, j \in 1 .. Len(s) : s[i] = s[j] => i = j

\* Of a sequence with one element more ...
LEMMA AppendHolds ==
  ASSUME NEW S, NEW s \in Seq(S), NEW e \in S, NEW t, t = Append(s, e)
  PROVE  /\ t \in Seq(S)
         /\ \A x : Holds(t, x) <=> (Holds(s, x) \/ x = e)
         /\ Distinct(s) /\ ~Holds(s, e) => Distinct(t)
<1>1. /\ t \in Seq(S) /\ Len(t) = Len(s) + 1 /\ Len(s) \in Nat /\ t[Len(s) + 1] = e
      /\ \A i \in 1 .. Len(s) : t[i] = s[i]
  OBVIOUS
<1>2. \A i \in 1 .. Len(t) : i \in 1 .. Len(s) \/ i = Len(s) + 1
  BY ONLY <1>1
<1>3. Len(s) + 1 \in 1 .. Len(t) /\ \A i \in 1 .. Len(s) : i \in 1 .. Len(t)
  BY ONLY <1>1
<1>4. ASSUME NEW x PROVE Holds(t, x) <=> (Holds(s, x) \/ x = e)
  BY ONLY <1>1, <1>2, <1>3 DEF Holds
<1>5. ASSUME Distinct(s), ~Holds(s, e), NEW i \in 1 .. Len(t), NEW j \in 1 .. Len(t), t[i] = t[j] PROVE i = j
  BY ONLY <1>1, <1>2, <1>5 DEF Distinct, Holds
<1> QED
  BY <1>1, <1>4, <1>5 DEF Distinct

\* ... without its first one ...
LEMMA TailHolds ==
  ASSUME NEW S, NEW s \in Seq(S), s # <<>>, Distinct(s), NEW t, t = Tail(s)
  PROVE  /\ t \in Seq(S) /\ Head(s) \in S /\ Holds(s, Head(s)) /\ Distinct(t)
         /\ \A x : Holds(t, x) <=> (Holds(s, x) /\ x # Head(s))
<1>1. /\ t \in Seq(S) /\ Len(t) = Len(s) - 1 /\ Len(s) \in Nat /\ Len(s) >= 1 /\ Head(s) = s[1]
      /\ \A i \in 1 .. Len(t) : t[i] = s[i + 1]
  OBVIOUS
<1>2. s[1] \in S /\ 1 \in 1 .. Len(s)
  BY <1>1
<1>3. \A i \in 1 .. Len(t) : i + 1 \in 1 .. Len(s) /\ i + 1 # 1
  BY ONLY <1>1
<1>4. ASSUME NEW i \in 1 .. Len(s), i # 1 PROVE i - 1 \in 1 .. Len(t) /\ (i - 1) + 1 = i
  BY ONLY <1>1, <1>4
<1>5. Distinct(t)
  <2> SUFFICES ASSUME NEW i \in 1 .. Len(t), NEW j \in 1 .. Len(t), t[i] = t[j] PROVE i = j
    BY DEF Distinct
  <2>1. i + 1 = j + 1
    BY <1>1, <1>3 DEF Distinct
  <2> QED
    BY <1>1, <2>1
<1>6. ASSUME NEW x, Holds(t, x) PROVE Holds(s, x) /\ x # s[1]
  <2>1. PICK i \in 1 .. Len(t) : t[i] = x
    BY <1>6 DEF Holds
  <2>2. i + 1 \in 1 .. Len(s) /\ i + 1 # 1 /\ s[i + 1] = x
    BY <1>1, <1>3, <2>1
  <2> QED
    BY <1>2, <2>2 DEF Holds, Distinct
<1>7. ASSUME NEW x, Holds(s, x), x # s[1] PROVE Holds(t, x)
  <2>1. PICK i \in 1 .. Len(s) : s[i] = x
    BY <1>7 DEF Holds
  <2>2. i # 1
    BY <1>7, <2>1
  <2>3. i - 1 \in 1 .. Len(t) /\ (i - 1) + 1 = i
    BY <1>4, <2>2
  <2>4. t[i - 1] = x
    BY <1>1, <2>1, <2>3
  <2> QED
    BY <2>3, <2>4 DEF Holds
<1> QED
  BY <1>1, <1>2, <1>5, <1>6, <1>7 DEF Holds

LEMMA InjectorCardinality == \A S : Injector!Cardinality(S) = Cardinality(S)
BY DEF Injector!Cardinality, Cardinality

Within(I, s, S) == s \in Seq(S) /\ I \subseteq 1 .. Len(s)
Picked(t, s, I, S) == t \in Seq(S) /\ Distinct(t) /\ \A x : Holds(t, x) <=> \E i \in I : s[i] = x

\* ... and with those that a loop over it picks.
LEMMA PickHolds ==
  ASSUME NEW S, NEW s, Distinct(s), NEW I, Within(I, s, S), NEW at \in Injector!Ascending(I),
         NEW t, t = Injector!Pick(s, at)
  PROVE  Picked(t, s, I, S)
<1> USE DEF Within, Picked
<1>1. PICK n : n = Cardinality(I)
  OBVIOUS
<1>2. n \in Nat
  <2>1. Len(s) \in Nat /\ 1 \in Int
    OBVIOUS
  <2>2. IsFiniteSet(1 .. Len(s))
    BY ONLY <2>1, FS_Interval
  <2>3. IsFiniteSet(I)
    BY <2>2, FS_Subset
  <2> QED
    BY <1>1, <2>3, FS_CardinalityType
<1>3. /\ at \in [1 .. n -> I] /\ Injector!Range(at) = I
      /\ \A k, l \in DOMAIN at : k < l => at[k] < at[l]
  BY <1>1, InjectorCardinality DEF Injector!Ascending
<1>4. DOMAIN at = 1 .. n /\ (\A k \in 1 .. n : at[k] \in I) /\ \A i \in I : \E k \in 1 .. n : at[k] = i
  BY <1>3 DEF Injector!Range
<1>5. \A k, l \in 1 .. n : k < l => at[k] < at[l]
  BY <1>3, <1>4
<1>6. \A k, l \in 1 .. n : at[k] = at[l] => k = l
  <2> SUFFICES ASSUME NEW k \in 1 .. n, NEW l \in 1 .. n, at[k] = at[l], k # l PROVE FALSE
    OBVIOUS
  <2>1. at[k] \in Int /\ at[l] \in Int
    <3>1. at[k] \in 1 .. Len(s) /\ at[l] \in 1 .. Len(s)
      BY <1>4
    <3> QED
      BY ONLY <3>1
  <2>2. CASE k < l
    BY <1>5, <2>1, <2>2
  <2>3. CASE l < k
    BY <1>5, <2>1, <2>3
  <2> QED
    BY <1>2, <2>2, <2>3
<1>7. t = [k \in 1 .. n |-> s[at[k]]]
  BY <1>4 DEF Injector!Pick
<1>8. ASSUME NEW k \in 1 .. n PROVE at[k] \in 1 .. Len(s) /\ s[at[k]] \in S
  <2>1. at[k] \in 1 .. Len(s)
    BY <1>4
  <2> QED
    BY <2>1
<1>9. t \in Seq(S) /\ Len(t) = n /\ \A k \in 1 .. n : t[k] = s[at[k]]
  BY ONLY <1>2, <1>7, <1>8
<1>10. Distinct(t)
  <2> SUFFICES ASSUME NEW k \in 1 .. n, NEW l \in 1 .. n, t[k] = t[l] PROVE k = l
    BY <1>9 DEF Distinct
  <2>1. s[at[k]] = s[at[l]] /\ at[k] \in 1 .. Len(s) /\ at[l] \in 1 .. Len(s)
    BY <1>8, <1>9
  <2>2. at[k] = at[l]
    BY <2>1 DEF Distinct
  <2> QED
    BY <1>6, <2>2
<1>11. ASSUME NEW x PROVE Holds(t, x) <=> \E i \in I : s[i] = x
  <2>1. ASSUME Holds(t, x) PROVE \E i \in I : s[i] = x
    <3>1. PICK k \in 1 .. n : t[k] = x
      BY <1>9, <2>1 DEF Holds
    <3>2. at[k] \in I /\ s[at[k]] = x
      BY <1>4, <1>9, <3>1
    <3> QED
      BY <3>2
  <2>2. ASSUME NEW i \in I, s[i] = x PROVE Holds(t, x)
    <3>1. PICK k \in 1 .. n : at[k] = i
      BY <1>4
    <3>2. t[k] = x
      BY <1>9, <2>2, <3>1
    <3> QED
      BY <1>9, <3>2 DEF Holds
  <2> QED
    BY <2>1, <2>2
<1> QED
  BY <1>9, <1>10, <1>11

FaultRecord == [id : 1 .. MaxFaults, regex : Regexes, countRemaining : Nat,
                behavior : Injector!Behaviors, token : Checkers \union {"none"}]

\* A check that is blocked is waiting in one place, once.
OnePlace ==
  /\ Distinct(blockedChecks) /\ \A u \in Injector!Unblockers : Distinct(hands[u])
  /\ \A u \in Injector!Unblockers, c \in Checkers : ~(Holds(hands[u], c) /\ Holds(blockedChecks, c))
  /\ \A u, v \in Injector!Unblockers, c \in Checkers : Holds(hands[u], c) /\ Holds(hands[v], c) => u = v
  /\ \A c \in Checkers : (checkPc[c] = "blocked") <=>
       (Holds(blockedChecks, c) \/ \E u \in Injector!Unblockers : Holds(hands[u], c))

\* Of a fault that is still there: a limited one has matches left, those that it has not had.
MatchesLeft(f, limits, matches) ==
  /\ f.id \in 1 .. Len(limits)
  /\ limits[f.id] = 0 => f.countRemaining = 0
  /\ limits[f.id] # 0 => f.countRemaining # 0 /\ matches[f.id] + f.countRemaining = limits[f.id]

FaultCounts ==
  /\ \A i \in 1 .. Len(faults) : MatchesLeft(faults[i], count, hits)
  /\ \A i, j \in 1 .. Len(faults) : faults[i].id = faults[j].id => i = j
  /\ \A n \in 1 .. Len(count) : hits[n] <= count[n]

\* The destructor's list is empty before there is a destructor.
DestructorIdle == injectorAlive = "yes" => (hands["dtor"] = <<>> \/ "dtor" \in Testers)

FaultInv == Injector!TypeOK /\ OnePlace /\ FaultCounts /\ DestructorIdle

LEMMA FaultTypes ==
  ASSUME Injector!TypeOK
  PROVE  /\ faults \in Seq(FaultRecord) /\ Len(faults) \in Nat
         /\ count \in Seq(Counts) /\ hits \in Seq(Nat) /\ Len(hits) = Len(count) /\ Len(count) \in Nat
         /\ \A n \in 1 .. Len(count) : count[n] \in Nat /\ hits[n] \in Nat
         /\ \A i \in 1 .. Len(faults) : faults[i] \in FaultRecord /\ faults[i].countRemaining \in Nat
<1>1. faults \in Seq(FaultRecord)
  BY DEF Injector!TypeOK, FaultRecord
<1>2. count \in Seq(Counts) /\ hits \in Seq(Nat) /\ Len(hits) = Len(count)
  BY DEF Injector!TypeOK
<1>3. \A n \in 1 .. Len(count) : count[n] \in Nat /\ hits[n] \in Nat
  <2>1. \A n \in 1 .. Len(count) : count[n] \in Counts
    BY <1>2
  <2>2. \A n \in 1 .. Len(hits) : hits[n] \in Nat
    BY ONLY <1>2
  <2> QED
    BY <1>2, <2>1, <2>2, CountsAssumption
<1>4. \A i \in 1 .. Len(faults) : faults[i] \in FaultRecord
  BY <1>1
<1>5. \A i \in 1 .. Len(faults) : faults[i].countRemaining \in Nat
  BY <1>4 DEF FaultRecord
<1> QED
  BY <1>1, <1>2, <1>3, <1>4, <1>5

\* Nothing of a check's place changes when the same checks are blocked.
LEMMA PlacesKept ==
  ASSUME OnePlace, UNCHANGED <<blockedChecks, hands>>,
         \A c \in Checkers : (checkPc'[c] = "blocked") <=> (checkPc[c] = "blocked")
  PROVE  OnePlace'
BY DEF OnePlace

\* A match of the i-th fault is counted, and its last one removes it.
LEMMA Consumed ==
  ASSUME Injector!TypeOK, FaultCounts, NEW i \in 1 .. Len(faults), Injector!Consume(i), count' = count,
         hits' = [hits EXCEPT ![faults[i].id] = IF count[faults[i].id] = 0 THEN 0 ELSE @ + 1]
  PROVE  faults' \in Seq(FaultRecord) /\ hits' \in Seq(Nat) /\ Len(hits') = Len(count) /\ FaultCounts'
<1>1. PICK f, n : f = faults[i] /\ n = f.id
  OBVIOUS
<1>2. /\ faults \in Seq(FaultRecord) /\ Len(faults) \in Nat /\ f \in FaultRecord /\ f.countRemaining \in Nat
      /\ hits \in Seq(Nat) /\ Len(hits) = Len(count) /\ Len(count) \in Nat
      /\ \A m \in 1 .. Len(count) : count[m] \in Nat /\ hits[m] \in Nat
  BY <1>1, FaultTypes
<1>3. MatchesLeft(f, count, hits) /\ n \in 1 .. Len(count)
  BY <1>1 DEF FaultCounts, MatchesLeft
<1>4. count[n] \in Nat /\ hits[n] \in Nat
  BY <1>2, <1>3
<1>5. /\ hits' \in Seq(Nat) /\ Len(hits') = Len(count)
      /\ hits'[n] = IF count[n] = 0 THEN 0 ELSE hits[n] + 1
      /\ \A m \in 1 .. Len(count) : m # n => hits'[m] = hits[m]
  <2>1. hits' = [hits EXCEPT ![n] = IF count[n] = 0 THEN 0 ELSE hits[n] + 1]
    BY <1>1
  <2>2. (IF count[n] = 0 THEN 0 ELSE hits[n] + 1) \in Nat
    BY <1>4
  <2> QED
    BY ONLY <1>2, <1>3, <2>1, <2>2
<1>6. \A m \in 1 .. Len(count) : hits'[m] <= count[m]
  <2>1. hits'[n] <= count[n]
    BY <1>1, <1>2, <1>3, <1>4, <1>5 DEF MatchesLeft
  <2>2. \A m \in 1 .. Len(count) : hits[m] <= count[m]
    BY DEF FaultCounts
  <2> QED
    BY <1>5, <2>1, <2>2
\* What holds of the other faults goes on to hold.
<1>7. ASSUME NEW j \in 1 .. Len(faults), j # i
      PROVE  /\ faults[j].id \in 1 .. Len(count) /\ faults[j].id # n
             /\ MatchesLeft(faults[j], count, hits')
  <2>1. MatchesLeft(faults[j], count, hits) /\ faults[j].id # n
    BY <1>1, <1>7 DEF FaultCounts
  <2>2. faults[j].id \in 1 .. Len(count)
    BY <2>1 DEF MatchesLeft
  <2>3. hits'[faults[j].id] = hits[faults[j].id]
    BY <1>5, <2>1, <2>2
  <2> QED
    BY <2>1, <2>2, <2>3 DEF MatchesLeft
<1>8. CASE f.countRemaining = 1
  <2>1. faults' = Rest(faults, i)
    BY <1>1, <1>8 DEF Injector!Consume, Injector!RemoveAt, Rest
  <2>2. PICK rest : rest = faults'
    OBVIOUS
  <2>3. /\ rest \in Seq(FaultRecord) /\ Len(rest) = Len(faults) - 1
        /\ \A j \in 1 .. Len(rest) : rest[j] = IF j < i THEN faults[j] ELSE faults[j + 1]
    BY <1>2, <2>1, <2>2, RestAt
  <2>4. ASSUME NEW j \in 1 .. Len(rest)
        PROVE  \E k \in 1 .. Len(faults) : k # i /\ k = (IF j < i THEN j ELSE j + 1) /\ rest[j] = faults[k]
    BY <1>2, <2>3
  <2>5. ASSUME NEW j \in 1 .. Len(rest) PROVE MatchesLeft(rest[j], count, hits')
    BY <1>7, <2>4
  <2>6. ASSUME NEW j \in 1 .. Len(rest), NEW k \in 1 .. Len(rest), rest[j].id = rest[k].id PROVE j = k
    <3>1. PICK l \in 1 .. Len(faults) : l = (IF j < i THEN j ELSE j + 1) /\ rest[j] = faults[l]
      BY <2>4
    <3>2. PICK m \in 1 .. Len(faults) : m = (IF k < i THEN k ELSE k + 1) /\ rest[k] = faults[m]
      BY <2>4
    <3>3. l = m
      BY <2>6, <3>1, <3>2 DEF FaultCounts
    <3> QED
      BY <3>1, <3>2, <3>3
  <2> QED
    BY <1>5, <1>6, <2>2, <2>3, <2>5, <2>6 DEF FaultCounts
<1>9. CASE f.countRemaining # 1
  <2>1. PICK left : left = IF f.countRemaining = 0 THEN 0 ELSE f.countRemaining - 1
    OBVIOUS
  <2>2. faults' = [faults EXCEPT ![i].countRemaining = left]
    <3>1. CASE f.countRemaining = 0
      <4>1. faults' = faults
        BY <1>1, <1>9, <3>1 DEF Injector!Consume
      <4>2. [f EXCEPT !.countRemaining = left] = f
        BY <1>2, <2>1, <3>1 DEF FaultRecord
      <4> QED
        BY <1>1, <1>2, <4>1, <4>2
    <3>2. CASE f.countRemaining # 0
      BY <1>1, <1>9, <2>1, <3>2 DEF Injector!Consume
    <3> QED
      BY <3>1, <3>2
  <2>3. PICK g : g = [f EXCEPT !.countRemaining = left]
    OBVIOUS
  <2>4. g \in FaultRecord /\ g.id = n /\ g.countRemaining = left
    <3>1. left \in Nat
      BY <1>2, <2>1
    <3>2. f \in FaultRecord /\ n = f.id
      BY <1>1, <1>2
    <3> QED
      BY ONLY <2>3, <3>1, <3>2 DEF FaultRecord
  <2>5. /\ faults' \in Seq(FaultRecord) /\ Len(faults') = Len(faults) /\ faults'[i] = g
        /\ \A j \in 1 .. Len(faults) : j # i => faults'[j] = faults[j]
    <3>1. faults' = [faults EXCEPT ![i] = g]
      BY <1>1, <2>2, <2>3
    <3> QED
      BY <1>2, <2>4, <3>1
  <2>6. MatchesLeft(g, count, hits')
    <3>1. CASE count[n] = 0
      <4>1. f.countRemaining = 0
        BY <1>1, <1>3, <3>1 DEF MatchesLeft
      <4>2. g.countRemaining = 0 /\ g.id \in 1 .. Len(count) /\ count[g.id] = 0
        BY <1>3, <2>1, <2>4, <3>1, <4>1
      <4> QED
        BY ONLY <4>2 DEF MatchesLeft
    <3>2. CASE count[n] # 0
      <4>1. f.countRemaining # 0 /\ hits[n] + f.countRemaining = count[n]
        BY <1>1, <1>3, <3>2 DEF MatchesLeft
      <4>2. left # 0 /\ (hits[n] + 1) + left = count[n]
        <5>1. PICK r, h : r = f.countRemaining /\ h = hits[n]
          OBVIOUS
        <5>2. r \in Nat /\ h \in Nat /\ r # 0 /\ r # 1 /\ left = r - 1
          BY <1>2, <1>4, <1>9, <2>1, <4>1, <5>1
        <5>3. left # 0 /\ (h + 1) + left = h + r
          BY ONLY <5>2
        <5> QED
          BY <4>1, <5>1, <5>3
      <4>3. hits'[n] = hits[n] + 1
        BY <1>5, <3>2
      <4> QED
        BY <1>3, <2>4, <3>2, <4>2, <4>3 DEF MatchesLeft
    <3> QED
      BY <3>1, <3>2
  <2>7. \A j \in 1 .. Len(faults) : MatchesLeft(faults'[j], count, hits')
    BY <1>7, <2>5, <2>6
  <2>8. \A j \in 1 .. Len(faults) : faults'[j].id = faults[j].id
    BY <1>1, <2>4, <2>5
  <2> QED
    BY <1>5, <1>6, <2>5, <2>7, <2>8 DEF FaultCounts
<1> QED
  BY <1>8, <1>9

\* findFault() counts the match, and blocks nobody yet.
LEMMA Found ==
  ASSUME FaultInv, NEW c \in Checkers, NEW k \in Keys \union {"none"}, checkPc[c] # "blocked",
         injectorAlive = "yes", Injector!FindFault(c, k), UNCHANGED <<blockedChecks, hands, cancelled, count>>
  PROVE  FaultInv'
<1>1. Injector!TypeOK /\ OnePlace /\ FaultCounts /\ DestructorIdle
  BY DEF FaultInv
<1>2. CASE Injector!Matching(k) = {}
  <2>1. /\ checkPc' = [checkPc EXCEPT ![c] = "idle"] /\ key' = [key EXCEPT ![c] = "none"]
        /\ UNCHANGED <<faults, token, injectorAlive, hits>>
    BY <1>2 DEF Injector!FindFault
  <2>2. Injector!TypeOK'
    BY <1>1, <2>1 DEF Injector!TypeOK
  <2>3. \A d \in Checkers : (checkPc'[d] = "blocked") <=> (checkPc[d] = "blocked")
    BY <1>1, <2>1 DEF Injector!TypeOK
  <2>4. OnePlace'
    BY <1>1, <2>3, PlacesKept
  <2>5. FaultCounts' /\ DestructorIdle'
    BY <1>1, <2>1 DEF FaultCounts, DestructorIdle
  <2> QED
    BY <2>2, <2>4, <2>5 DEF FaultInv
<1>3. CASE Injector!Matching(k) # {}
  <2>1. PICK i, f : i = Injector!First(Injector!Matching(k)) /\ f = faults[i]
    OBVIOUS
  <2>2. i \in 1 .. Len(faults) /\ f \in FaultRecord
    <3>1. Injector!Matching(k) \subseteq 1 .. Len(faults) /\ Injector!Matching(k) \subseteq Nat
      BY <1>1, FaultTypes DEF Injector!Matching
    <3>2. \E m \in Injector!Matching(k) : \A x \in Injector!Matching(k) : m <= x
      BY <1>3, <3>1, Least
    <3>3. i \in Injector!Matching(k)
      BY <2>1, <3>2 DEF Injector!First
    <3>4. i \in 1 .. Len(faults)
      BY <3>1, <3>3
    <3> QED
      BY <1>1, <2>1, <3>4, FaultTypes
  <2>3. /\ Injector!Consume(i)
        /\ hits' = [hits EXCEPT ![faults[i].id] = IF count[faults[i].id] = 0 THEN 0 ELSE @ + 1]
        /\ checkPc' = [checkPc EXCEPT ![c] = Injector!After(f.behavior)]
        /\ key' = [key EXCEPT ![c] = IF Injector!After(f.behavior) = "enlist" THEN k ELSE "none"]
        /\ token' = [token EXCEPT ![c] = IF f.behavior = "cancel" THEN f.token ELSE "none"]
        /\ injectorAlive' = IF f.behavior = "kill" THEN "aborted" ELSE injectorAlive
    BY <1>3, <2>1 DEF Injector!FindFault
  <2>4. faults' \in Seq(FaultRecord) /\ hits' \in Seq(Nat) /\ Len(hits') = Len(count) /\ FaultCounts'
    BY <1>1, <2>2, <2>3, Consumed
  <2>5. PICK to : to = Injector!After(f.behavior)
    OBVIOUS
  <2>6. to \in {"idle", "enlist", "polling", "sleeping"}
    BY <2>2, <2>5 DEF Injector!After, FaultRecord, Injector!Behaviors
  <2>7. Injector!TypeOK'
    <3>1. checkPc' \in [Checkers -> {"idle", "find", "enlist", "blocked", "polling", "sleeping"}]
      BY <1>1, <2>3, <2>5, <2>6 DEF Injector!TypeOK
    <3>2. key' \in [Checkers -> Keys \union {"none"}]
      BY <1>1, <2>3 DEF Injector!TypeOK
    <3>3. token' \in [Checkers -> Checkers \union {"none"}]
      <4>1. f.token \in Checkers \union {"none"}
        BY <2>2 DEF FaultRecord
      <4> QED
        BY <1>1, <2>3, <4>1 DEF Injector!TypeOK
    <3>4. injectorAlive' \in {"yes", "destroyed", "aborted"}
      BY <2>3
    <3> QED
      BY <1>1, <2>4, <3>1, <3>2, <3>3, <3>4 DEF Injector!TypeOK, FaultRecord
  <2>8. \A d \in Checkers : (checkPc'[d] = "blocked") <=> (checkPc[d] = "blocked")
    BY <1>1, <2>3, <2>5, <2>6 DEF Injector!TypeOK
  <2>9. OnePlace'
    BY <1>1, <2>8, PlacesKept
  <2>10. DestructorIdle'
    BY <1>1 DEF DestructorIdle
  <2> QED
    BY <2>4, <2>7, <2>9, <2>10 DEF FaultInv
<1> QED
  BY <1>2, <1>3

\* What is extracted goes from the list of blocked checks to an empty hand.
LEMMA Extracted ==
  ASSUME Injector!TypeOK, OnePlace, NEW u \in Injector!Unblockers, hands[u] = <<>>, NEW regex,
         Injector!Extract(u, regex), checkPc' = checkPc
  PROVE  /\ OnePlace' /\ blockedChecks' \in Seq(Checkers) /\ hands' \in [Injector!Unblockers -> Seq(Checkers)]
         /\ \A v \in Injector!Unblockers : v # u => hands'[v] = hands[v]
<1>1. PICK hit : hit = Injector!Hits(regex)
  OBVIOUS
<1>2. PICK taken \in Injector!Ascending(hit), left \in Injector!Ascending(DOMAIN blockedChecks \ hit) :
        /\ hands' = [hands EXCEPT ![u] = Injector!Pick(blockedChecks, taken)]
        /\ blockedChecks' = Injector!Pick(blockedChecks, left)
  BY <1>1 DEF Injector!Extract
<1>3. blockedChecks \in Seq(Checkers) /\ hands \in [Injector!Unblockers -> Seq(Checkers)] /\ Distinct(blockedChecks)
  BY DEF Injector!TypeOK, OnePlace
<1>4. DOMAIN blockedChecks = 1 .. Len(blockedChecks)
  BY <1>3
<1>5. hit \subseteq 1 .. Len(blockedChecks) /\ DOMAIN blockedChecks \ hit \subseteq 1 .. Len(blockedChecks)
  BY <1>1, <1>4 DEF Injector!Hits
<1>6. PICK t, l : t = Injector!Pick(blockedChecks, taken) /\ l = Injector!Pick(blockedChecks, left)
  OBVIOUS
<1>7. t \in Seq(Checkers) /\ Distinct(t) /\ \A x : Holds(t, x) <=> \E i \in hit : blockedChecks[i] = x
  <2>1. Distinct(blockedChecks) /\ Within(hit, blockedChecks, Checkers)
    BY <1>3, <1>5 DEF Within
  <2>2. taken \in Injector!Ascending(hit) /\ t = Injector!Pick(blockedChecks, taken)
    BY <1>6
  <2>3. Picked(t, blockedChecks, hit, Checkers)
    BY ONLY <2>1, <2>2, PickHolds, Zenon
  <2> QED
    BY <2>3 DEF Picked
<1>8. /\ l \in Seq(Checkers) /\ Distinct(l)
      /\ \A x : Holds(l, x) <=> \E i \in DOMAIN blockedChecks \ hit : blockedChecks[i] = x
  <2>1. PICK rest : rest = DOMAIN blockedChecks \ hit
    OBVIOUS
  <2>2. Distinct(blockedChecks) /\ Within(rest, blockedChecks, Checkers)
    BY <1>3, <1>5, <2>1 DEF Within
  <2>3. left \in Injector!Ascending(rest) /\ l = Injector!Pick(blockedChecks, left)
    BY <1>6, <2>1
  <2>4. Picked(l, blockedChecks, rest, Checkers)
    BY ONLY <2>2, <2>3, PickHolds, Zenon
  <2> QED
    BY <2>1, <2>4 DEF Picked
<1>9. \A x : /\ Holds(blockedChecks, x) <=> (Holds(t, x) \/ Holds(l, x))
             /\ ~(Holds(t, x) /\ Holds(l, x))
  <2>1. ASSUME NEW x, Holds(blockedChecks, x) PROVE Holds(t, x) \/ Holds(l, x)
    BY <1>4, <1>7, <1>8, <2>1 DEF Holds
  <2>2. ASSUME NEW x, Holds(t, x) PROVE Holds(blockedChecks, x)
    BY <1>5, <1>7, <2>2 DEF Holds
  <2>3. ASSUME NEW x, Holds(l, x) PROVE Holds(blockedChecks, x)
    BY <1>5, <1>8, <2>3 DEF Holds
  <2>4. ASSUME NEW x, Holds(t, x), Holds(l, x) PROVE FALSE
    <3>1. PICK i \in hit : blockedChecks[i] = x
      BY <1>7, <2>4
    <3>2. PICK j \in DOMAIN blockedChecks \ hit : blockedChecks[j] = x
      BY <1>8, <2>4
    <3>3. i \in 1 .. Len(blockedChecks) /\ j \in 1 .. Len(blockedChecks) /\ i # j
      BY <1>5, <3>1, <3>2
    <3> QED
      BY <1>3, <3>1, <3>2, <3>3 DEF Distinct
  <2> QED
    BY <2>1, <2>2, <2>3, <2>4
<1>10. /\ blockedChecks' = l /\ hands' \in [Injector!Unblockers -> Seq(Checkers)] /\ hands'[u] = t
       /\ \A v \in Injector!Unblockers : v # u => hands'[v] = hands[v]
  BY <1>2, <1>3, <1>6, <1>7
<1>11. \A x : ~Holds(hands[u], x)
  BY DEF Holds
<1>12. OnePlace'
  <2>1. Distinct(l) /\ \A v \in Injector!Unblockers : Distinct(hands'[v])
    BY <1>7, <1>8, <1>10 DEF OnePlace
  <2>2. ASSUME NEW v \in Injector!Unblockers, NEW c \in Checkers PROVE ~(Holds(hands'[v], c) /\ Holds(l, c))
    BY <1>9, <1>10 DEF OnePlace
  <2>3. ASSUME NEW v \in Injector!Unblockers, NEW w \in Injector!Unblockers, NEW c \in Checkers,
               Holds(hands'[v], c), Holds(hands'[w], c)
        PROVE  v = w
    BY <1>9, <1>10, <2>3 DEF OnePlace
  <2>4. ASSUME NEW c \in Checkers
        PROVE  (checkPc[c] = "blocked") <=> (Holds(l, c) \/ \E v \in Injector!Unblockers : Holds(hands'[v], c))
    BY <1>9, <1>10, <1>11 DEF OnePlace
  <2> QED
    BY <1>10, <2>1, <2>2, <2>3, <2>4 DEF OnePlace, Injector!Unblockers
<1> QED
  BY <1>8, <1>10, <1>12

LEMMA FaultStep == FaultInv /\ [Injector!Next]_(Injector!vars) => FaultInv'
<1> SUFFICES ASSUME FaultInv, [Injector!Next]_(Injector!vars) PROVE FaultInv'
  OBVIOUS
<1>0. Injector!TypeOK /\ OnePlace /\ FaultCounts /\ DestructorIdle
  BY DEF FaultInv
<1> DEFINE Us == Injector!Unblockers
<1>1. ASSUME NEW regex \in Regexes, NEW behavior \in Injector!Behaviors, NEW n \in Counts,
             Injector!Inject(regex, behavior, n)
      PROVE  FaultInv'
  <2>1. PICK id, f : /\ id = Len(count) + 1
                     /\ f = [id |-> id, regex |-> regex, countRemaining |-> n, behavior |-> behavior, token |-> "none"]
    OBVIOUS
  <2>2. /\ id <= MaxFaults
        /\ faults' = Append(faults, f) /\ count' = Append(count, n) /\ hits' = Append(hits, 0)
        /\ UNCHANGED <<blockedChecks, checkPc, key, token, hands, cancelled, injectorAlive>>
    <3>1. Len(count) < MaxFaults /\ Len(count) \in Nat
      BY <1>0, <1>1, FaultTypes DEF Injector!Inject
    <3> QED
      BY <1>1, <2>1, <3>1, CountsAssumption DEF Injector!Inject
  <2>3. /\ faults \in Seq(FaultRecord) /\ Len(faults) \in Nat
        /\ count \in Seq(Counts) /\ hits \in Seq(Nat) /\ Len(hits) = Len(count) /\ Len(count) \in Nat
        /\ \A m \in 1 .. Len(count) : count[m] \in Nat /\ hits[m] \in Nat
    BY <1>0, FaultTypes
  <2>4. n \in Nat /\ id \in 1 .. MaxFaults /\ f \in FaultRecord
    <3>1. n \in Nat /\ id \in 1 .. MaxFaults
      BY <2>1, <2>2, <2>3, CountsAssumption
    <3> QED
      BY <2>1, <3>1 DEF FaultRecord
  <2>5. /\ faults' \in Seq(FaultRecord) /\ Len(faults') = Len(faults) + 1 /\ faults'[Len(faults) + 1] = f
        /\ \A i \in 1 .. Len(faults) : faults'[i] = faults[i]
    BY <2>2, <2>3, <2>4
  <2>6. /\ count' \in Seq(Counts) /\ Len(count') = id /\ count'[id] = n
        /\ \A m \in 1 .. Len(count) : count'[m] = count[m]
    BY <2>1, <2>2, <2>3
  <2>7. /\ hits' \in Seq(Nat) /\ Len(hits') = id /\ hits'[id] = 0
        /\ \A m \in 1 .. Len(count) : hits'[m] = hits[m]
    BY <2>1, <2>2, <2>3
  <2>8. Injector!TypeOK'
    BY <1>0, <2>2, <2>5, <2>6, <2>7 DEF Injector!TypeOK, FaultRecord
  <2>9. ASSUME NEW i \in 1 .. Len(faults')
        PROVE  i = Len(faults) + 1 \/ (i \in 1 .. Len(faults) /\ faults'[i] = faults[i] /\ faults[i].id \in 1 .. Len(count))
    <3>1. i = Len(faults) + 1 \/ i \in 1 .. Len(faults)
      BY <2>3, <2>5
    <3> QED
      BY <1>0, <2>5, <3>1 DEF FaultCounts, MatchesLeft
  <2>10. f.id = id /\ f.countRemaining = n /\ id \notin 1 .. Len(count) /\ 1 .. Len(count) \subseteq 1 .. id /\ id \in 1 .. id
    BY <2>1, <2>3
  <2>11. ASSUME NEW i \in 1 .. Len(faults') PROVE MatchesLeft(faults'[i], count', hits')
    <3>1. CASE i = Len(faults) + 1
      BY <2>4, <2>5, <2>6, <2>7, <2>10, <3>1 DEF MatchesLeft
    <3>2. CASE i \in 1 .. Len(faults)
      <4>1. MatchesLeft(faults[i], count, hits) /\ faults'[i] = faults[i]
        BY <1>0, <2>5, <3>2 DEF FaultCounts
      <4> QED
        BY <2>6, <2>7, <2>10, <4>1 DEF MatchesLeft
    <3> QED
      BY <2>9, <3>1, <3>2
  <2>12. ASSUME NEW i \in 1 .. Len(faults'), NEW j \in 1 .. Len(faults'), faults'[i].id = faults'[j].id PROVE i = j
    BY <1>0, <2>5, <2>9, <2>10, <2>12 DEF FaultCounts
  <2>13. ASSUME NEW m \in 1 .. Len(count') PROVE hits'[m] <= count'[m]
    <3>1. m = id \/ m \in 1 .. Len(count)
      BY <2>1, <2>3, <2>6
    <3>2. \A x \in 1 .. Len(count) : hits[x] <= count[x]
      BY <1>0 DEF FaultCounts
    <3>3. 0 <= n
      BY <2>4
    <3> QED
      BY <2>6, <2>7, <3>1, <3>2, <3>3
  <2>14. FaultCounts'
    BY <2>11, <2>12, <2>13 DEF FaultCounts
  <2>15. OnePlace' /\ DestructorIdle'
    BY <1>0, <2>2, PlacesKept DEF DestructorIdle
  <2> QED
    BY <2>8, <2>14, <2>15 DEF FaultInv
<1>2. ASSUME NEW regex \in Regexes, Injector!RemoveFault(regex) PROVE FaultInv'
  <2>1. PICK i \in DOMAIN faults : faults' = Injector!RemoveAt(faults, i)
    BY <1>2 DEF Injector!RemoveFault
  <2>2. UNCHANGED <<blockedChecks, checkPc, key, token, hands, cancelled, injectorAlive, count, hits>>
    BY <1>2 DEF Injector!RemoveFault
  <2>3. faults \in Seq(FaultRecord) /\ Len(faults) \in Nat /\ i \in 1 .. Len(faults)
    BY <1>0, FaultTypes
  <2>4. PICK rest : rest = faults'
    OBVIOUS
  <2>5. rest = Rest(faults, i)
    BY <2>1, <2>4 DEF Injector!RemoveAt, Rest
  <2>6. /\ rest \in Seq(FaultRecord) /\ Len(rest) = Len(faults) - 1
        /\ \A j \in 1 .. Len(rest) : rest[j] = IF j < i THEN faults[j] ELSE faults[j + 1]
    BY <2>3, <2>5, RestAt
  <2>7. ASSUME NEW j \in 1 .. Len(rest)
        PROVE  \E k \in 1 .. Len(faults) : k = (IF j < i THEN j ELSE j + 1) /\ rest[j] = faults[k]
    BY <2>3, <2>6
  <2>8. ASSUME NEW j \in 1 .. Len(rest), NEW k \in 1 .. Len(rest), rest[j].id = rest[k].id PROVE j = k
    <3>1. PICK l \in 1 .. Len(faults) : l = (IF j < i THEN j ELSE j + 1) /\ rest[j] = faults[l]
      BY <2>7
    <3>2. PICK m \in 1 .. Len(faults) : m = (IF k < i THEN k ELSE k + 1) /\ rest[k] = faults[m]
      BY <2>7
    <3>3. l = m
      BY <1>0, <2>8, <3>1, <3>2 DEF FaultCounts
    <3> QED
      BY <2>3, <3>1, <3>2, <3>3
  <2>9. \A j \in 1 .. Len(rest) : MatchesLeft(rest[j], count, hits)
    BY <1>0, <2>7 DEF FaultCounts
  <2>10. FaultCounts'
    BY <1>0, <2>2, <2>4, <2>8, <2>9 DEF FaultCounts
  <2>11. Injector!TypeOK'
    BY <1>0, <2>2, <2>4, <2>6 DEF Injector!TypeOK, FaultRecord
  <2>12. OnePlace' /\ DestructorIdle'
    BY <1>0, <2>2, PlacesKept DEF DestructorIdle
  <2> QED
    BY <2>10, <2>11, <2>12 DEF FaultInv
<1>3. ASSUME NEW u \in Testers, NEW regex \in Regexes, Injector!Unblock(u, regex) PROVE FaultInv'
  <2>1. /\ injectorAlive = "yes" /\ hands[u] = <<>> /\ Injector!Extract(u, regex)
        /\ UNCHANGED <<faults, checkPc, key, token, cancelled, injectorAlive, count, hits>> /\ u \in Us
    BY <1>3 DEF Injector!Unblock, Injector!Unblockers
  <2>2. /\ OnePlace' /\ blockedChecks' \in Seq(Checkers) /\ hands' \in [Us -> Seq(Checkers)]
        /\ \A v \in Us : v # u => hands'[v] = hands[v]
    BY <1>0, <2>1, Extracted
  <2>3. Injector!TypeOK'
    BY <1>0, <2>1, <2>2 DEF Injector!TypeOK
  <2>4. DestructorIdle'
    <3>1. "dtor" \in Us
      BY DEF Injector!Unblockers
    <3> QED
      BY <1>0, <1>3, <2>1, <2>2, <3>1 DEF DestructorIdle
  <2>5. FaultCounts'
    BY <1>0, <2>1 DEF FaultCounts
  <2> QED
    BY <2>2, <2>3, <2>4, <2>5 DEF FaultInv
<1>4. ASSUME NEW c \in Checkers, NEW k \in Keys, Injector!Check(c, k) PROVE FaultInv'
  <2>1. /\ injectorAlive = "yes" /\ checkPc[c] # "blocked" /\ Injector!FindFault(c, k)
        /\ UNCHANGED <<blockedChecks, hands, cancelled, count>> /\ k \in Keys \union {"none"}
    BY <1>4 DEF Injector!Check
  <2> QED
    BY <2>1, Found
<1>5. ASSUME NEW c \in Checkers, NEW k \in Keys, Injector!UpdateToken(c, k) PROVE FaultInv'
  <2>1. PICK own : own = {i \in Injector!Matching(k) : faults[i].behavior = "cancel"}
    OBVIOUS
  <2>2. /\ checkPc[c] = "idle" /\ checkPc' = [checkPc EXCEPT ![c] = "find"] /\ key' = [key EXCEPT ![c] = k]
        /\ faults' = IF own = {} THEN faults ELSE [faults EXCEPT ![Injector!First(own)].token = c]
        /\ UNCHANGED <<blockedChecks, token, hands, cancelled, injectorAlive, count, hits>>
    BY <1>5, <2>1 DEF Injector!UpdateToken
  <2>3. faults \in Seq(FaultRecord) /\ Len(faults) \in Nat
    BY <1>0, FaultTypes
  <2>4. /\ faults' \in Seq(FaultRecord) /\ Len(faults') = Len(faults)
        /\ \A i \in 1 .. Len(faults) : faults'[i].id = faults[i].id /\ faults'[i].countRemaining = faults[i].countRemaining
    <3>1. CASE own = {}
      BY <2>2, <2>3, <3>1
    <3>2. CASE own # {}
      <4>1. own \subseteq 1 .. Len(faults) /\ own \subseteq Nat
        BY <2>1, <2>3 DEF Injector!Matching
      <4>2. \E m \in own : \A x \in own : m <= x
        BY <3>2, <4>1, Least
      <4>3. PICK at : at = Injector!First(own)
        OBVIOUS
      <4>4. at \in 1 .. Len(faults)
        BY <4>1, <4>2, <4>3 DEF Injector!First
      <4>5. PICK f : f = [faults[at] EXCEPT !.token = c]
        OBVIOUS
      <4>6. faults[at] \in FaultRecord
        BY <2>3, <4>4
      <4>7. f \in FaultRecord /\ f.id = faults[at].id /\ f.countRemaining = faults[at].countRemaining
        BY <4>5, <4>6 DEF FaultRecord
      <4>8. faults' = [faults EXCEPT ![at] = f]
        BY <2>2, <3>2, <4>3, <4>5
      <4> QED
        BY <2>3, <4>4, <4>7, <4>8
    <3> QED
      BY <3>1, <3>2
  <2>5. FaultCounts'
    BY <1>0, <2>2, <2>4 DEF FaultCounts, MatchesLeft
  <2>6. Injector!TypeOK'
    BY <1>0, <2>2, <2>4 DEF Injector!TypeOK, FaultRecord
  <2>7. \A d \in Checkers : (checkPc'[d] = "blocked") <=> (checkPc[d] = "blocked")
    BY <1>0, <2>2 DEF Injector!TypeOK
  <2>8. OnePlace' /\ DestructorIdle'
    BY <1>0, <2>2, <2>7, PlacesKept DEF DestructorIdle
  <2> QED
    BY <2>5, <2>6, <2>8 DEF FaultInv
<1>6. ASSUME NEW c \in Checkers, Injector!CheckAfterUpdate(c) PROVE FaultInv'
  <2>1. /\ injectorAlive = "yes" /\ checkPc[c] # "blocked" /\ Injector!FindFault(c, key[c])
        /\ UNCHANGED <<blockedChecks, hands, cancelled, count>>
    BY <1>6 DEF Injector!CheckAfterUpdate
  <2>2. key[c] \in Keys \union {"none"}
    BY <1>0 DEF Injector!TypeOK
  <2> QED
    BY <2>1, <2>2, Found
<1>7. ASSUME NEW c \in Checkers, Injector!Enlist(c) PROVE FaultInv'
  <2>1. /\ checkPc[c] = "enlist" /\ checkPc' = [checkPc EXCEPT ![c] = "blocked"]
        /\ blockedChecks' = Append(blockedChecks, c)
        /\ UNCHANGED <<faults, key, token, hands, cancelled, injectorAlive, count, hits>>
    BY <1>7 DEF Injector!Enlist
  <2>2. ~Holds(blockedChecks, c) /\ \A u \in Us : ~Holds(hands[u], c)
    BY <1>0, <2>1 DEF OnePlace
  <2>3. blockedChecks \in Seq(Checkers) /\ Distinct(blockedChecks)
    BY <1>0 DEF Injector!TypeOK, OnePlace
  <2>4. PICK b : b = blockedChecks'
    OBVIOUS
  <2>5. b \in Seq(Checkers) /\ Distinct(b) /\ \A x : Holds(b, x) <=> (Holds(blockedChecks, x) \/ x = c)
    <3>1. b = Append(blockedChecks, c)
      BY <2>1, <2>4
    <3>2. c \in Checkers
      OBVIOUS
    <3>3. /\ b \in Seq(Checkers)
          /\ \A x : Holds(b, x) <=> (Holds(blockedChecks, x) \/ x = c)
          /\ Distinct(blockedChecks) /\ ~Holds(blockedChecks, c) => Distinct(b)
      BY ONLY <2>3, <3>1, <3>2, AppendHolds, ZenonT(60)
    <3> QED
      BY ONLY <2>2, <2>3, <3>3
  <2>6. Injector!TypeOK'
    BY <1>0, <2>1, <2>4, <2>5 DEF Injector!TypeOK
  <2>7. \A d \in Checkers : checkPc'[d] = IF d = c THEN "blocked" ELSE checkPc[d]
    BY <1>0, <2>1 DEF Injector!TypeOK
  <2>8. OnePlace'
    <3>1. \A u \in Us, d \in Checkers : ~(Holds(hands[u], d) /\ Holds(b, d))
      BY <1>0, <2>2, <2>5 DEF OnePlace
    <3>2. ASSUME NEW d \in Checkers
          PROVE  (checkPc'[d] = "blocked") <=> (Holds(b, d) \/ \E u \in Us : Holds(hands[u], d))
      BY <1>0, <2>5, <2>7 DEF OnePlace
    <3> QED
      BY <1>0, <2>1, <2>4, <2>5, <3>1, <3>2 DEF OnePlace
  <2>9. FaultCounts' /\ DestructorIdle'
    BY <1>0, <2>1 DEF FaultCounts, DestructorIdle
  <2> QED
    BY <2>6, <2>8, <2>9 DEF FaultInv
\* A check that was not blocked is over.
<1>8. ASSUME NEW c \in Checkers, checkPc[c] # "blocked", Injector!Finish(c),
             UNCHANGED <<faults, blockedChecks, hands, cancelled, injectorAlive, count, hits>>
      PROVE  FaultInv'
  <2>1. /\ checkPc' = [checkPc EXCEPT ![c] = "idle"] /\ key' = [key EXCEPT ![c] = "none"]
        /\ token' = [token EXCEPT ![c] = "none"]
    BY <1>8 DEF Injector!Finish
  <2>2. Injector!TypeOK'
    BY <1>0, <1>8, <2>1 DEF Injector!TypeOK
  <2>3. \A d \in Checkers : (checkPc'[d] = "blocked") <=> (checkPc[d] = "blocked")
    BY <1>0, <1>8, <2>1 DEF Injector!TypeOK
  <2>4. OnePlace' /\ DestructorIdle'
    BY <1>0, <1>8, <2>3, PlacesKept DEF DestructorIdle
  <2>5. FaultCounts'
    BY <1>0, <1>8 DEF FaultCounts
  <2> QED
    BY <2>2, <2>4, <2>5 DEF FaultInv
<1>9. ASSUME NEW c \in Checkers,
             Injector!PollCancelled(c) \/ Injector!PollTimeout(c) \/ Injector!SleepEnds(c)
      PROVE  FaultInv'
  <2>1. /\ checkPc[c] # "blocked" /\ Injector!Finish(c)
        /\ UNCHANGED <<faults, blockedChecks, hands, cancelled, injectorAlive, count, hits>>
    BY <1>9 DEF Injector!PollCancelled, Injector!PollTimeout, Injector!TimedOut, Injector!SleepEnds
  <2> QED
    BY <1>8, <2>1
<1>10. ASSUME NEW u \in Us, Injector!Fulfil(u) PROVE FaultInv'
  <2>1. PICK c, t : c = Head(hands[u]) /\ t = Tail(hands[u])
    OBVIOUS
  <2>2. /\ injectorAlive # "aborted" /\ hands[u] # <<>> /\ hands' = [hands EXCEPT ![u] = t]
        /\ checkPc' = [checkPc EXCEPT ![c] = "idle"] /\ key' = [key EXCEPT ![c] = "none"]
        /\ token' = [token EXCEPT ![c] = "none"]
        /\ UNCHANGED <<faults, blockedChecks, cancelled, injectorAlive, count, hits>>
    BY <1>10, <2>1 DEF Injector!Fulfil, Injector!Finish, Injector!TakeNext
  <2>3. hands \in [Us -> Seq(Checkers)] /\ hands[u] \in Seq(Checkers) /\ Distinct(hands[u])
    BY <1>0 DEF Injector!TypeOK, OnePlace
  <2>4. /\ t \in Seq(Checkers) /\ c \in Checkers /\ Holds(hands[u], c) /\ Distinct(t)
        /\ \A x : Holds(t, x) <=> (Holds(hands[u], x) /\ x # c)
    BY <2>1, <2>2, <2>3, TailHolds
  <2>5. hands' \in [Us -> Seq(Checkers)] /\ hands'[u] = t /\ \A v \in Us : v # u => hands'[v] = hands[v]
    BY <2>2, <2>3, <2>4
  <2>6. Injector!TypeOK'
    BY <1>0, <2>2, <2>4, <2>5 DEF Injector!TypeOK
  <2>7. \A d \in Checkers : checkPc'[d] = IF d = c THEN "idle" ELSE checkPc[d]
    BY <1>0, <2>2, <2>4 DEF Injector!TypeOK
  <2>8. \A v \in Us, d \in Checkers : Holds(hands'[v], d) <=> (Holds(hands[v], d) /\ d # c)
    <3>1. \A v \in Us : v # u => ~Holds(hands[v], c)
      BY <1>0, <2>4 DEF OnePlace
    <3> QED
      BY <2>4, <2>5, <3>1
  <2>9. ~Holds(blockedChecks, c)
    BY <1>0, <2>4 DEF OnePlace
  <2>10. OnePlace'
    <3>1. \A v \in Us : Distinct(hands'[v])
      BY <1>0, <2>4, <2>5 DEF OnePlace
    <3>2. \A v \in Us, d \in Checkers : ~(Holds(hands'[v], d) /\ Holds(blockedChecks, d))
      BY <1>0, <2>8 DEF OnePlace
    <3>3. \A v, w \in Us, d \in Checkers : Holds(hands'[v], d) /\ Holds(hands'[w], d) => v = w
      BY <1>0, <2>8 DEF OnePlace
    <3>4. ASSUME NEW d \in Checkers
          PROVE  (checkPc'[d] = "blocked") <=> (Holds(blockedChecks, d) \/ \E v \in Us : Holds(hands'[v], d))
      BY <1>0, <2>7, <2>8, <2>9 DEF OnePlace
    <3> QED
      BY <1>0, <2>2, <3>1, <3>2, <3>3, <3>4 DEF OnePlace
  <2>11. DestructorIdle'
    <3>1. CASE u = "dtor"
      BY <1>0, <2>2, <3>1 DEF DestructorIdle
    <3>2. CASE u # "dtor"
      <4>1. "dtor" \in Us
        BY DEF Injector!Unblockers
      <4> QED
        BY <1>0, <2>2, <2>5, <3>2, <4>1 DEF DestructorIdle
    <3> QED
      BY <3>1, <3>2
  <2>12. FaultCounts'
    BY <1>0, <2>2 DEF FaultCounts
  <2> QED
    BY <2>6, <2>10, <2>11, <2>12 DEF FaultInv
<1>11. ASSUME Injector!Destroy PROVE FaultInv'
  <2>1. /\ injectorAlive = "yes" /\ (\A u \in Testers : hands[u] = <<>>) /\ Injector!Extract("dtor", Keys)
        /\ injectorAlive' = "destroyed" /\ UNCHANGED <<faults, checkPc, key, token, cancelled, count, hits>>
    BY <1>11 DEF Injector!Destroy, Injector!DestroyUnblocks
  <2>2. "dtor" \in Us /\ hands["dtor"] = <<>>
    BY <1>0, <2>1 DEF DestructorIdle, Injector!Unblockers
  <2>3. OnePlace' /\ blockedChecks' \in Seq(Checkers) /\ hands' \in [Us -> Seq(Checkers)]
    BY <1>0, <2>1, <2>2, Extracted
  <2>4. Injector!TypeOK'
    BY <1>0, <2>1, <2>3 DEF Injector!TypeOK
  <2>5. FaultCounts' /\ DestructorIdle'
    BY <1>0, <2>1 DEF FaultCounts, DestructorIdle
  <2> QED
    BY <2>3, <2>4, <2>5 DEF FaultInv
<1>12. ASSUME NEW c \in Checkers, Injector!Cancel(c) PROVE FaultInv'
  <2>1. /\ cancelled' = cancelled \union {c}
        /\ UNCHANGED <<faults, blockedChecks, checkPc, key, token, hands, injectorAlive, count, hits>>
    BY <1>12 DEF Injector!Cancel
  <2>2. Injector!TypeOK'
    BY <1>0, <2>1 DEF Injector!TypeOK
  <2>3. OnePlace' /\ DestructorIdle'
    BY <1>0, <2>1, PlacesKept DEF DestructorIdle
  <2>4. FaultCounts'
    BY <1>0, <2>1 DEF FaultCounts
  <2> QED
    BY <2>2, <2>3, <2>4 DEF FaultInv
<1>13. ASSUME UNCHANGED Injector!vars PROVE FaultInv'
  <2>1. UNCHANGED <<faults, blockedChecks, checkPc, key, token, hands, cancelled, injectorAlive, count, hits>>
    BY <1>13 DEF Injector!vars
  <2>2. Injector!TypeOK'
    BY <1>0, <2>1 DEF Injector!TypeOK
  <2>3. OnePlace' /\ DestructorIdle'
    BY <1>0, <2>1, PlacesKept DEF DestructorIdle
  <2>4. FaultCounts'
    BY <1>0, <2>1 DEF FaultCounts
  <2> QED
    BY <2>2, <2>3, <2>4 DEF FaultInv
<1> QED
  BY <1>1, <1>2, <1>3, <1>4, <1>5, <1>6, <1>7, <1>9, <1>10, <1>11, <1>12, <1>13
     DEF Injector!Next, Injector!CheckerStep, Injector!Terminated

\* FaultInjector.cpp:57-118, 341-356, for any number of checks, testers and faults and any limits: the
\* promise of a blocked check is in one place until it is fulfilled, and a limited fault matches exactly
\* as often as it was told to.
THEOREM FaultsAreSound == Injector!Spec => []InjectorSound
<1>1. Injector!Init => FaultInv
  <2> SUFFICES ASSUME Injector!Init PROVE FaultInv
    OBVIOUS
  <2>1. /\ faults = <<>> /\ blockedChecks = <<>> /\ count = <<>> /\ hits = <<>> /\ cancelled = {}
        /\ checkPc = [c \in Checkers |-> "idle"] /\ key = [c \in Checkers |-> "none"]
        /\ token = [c \in Checkers |-> "none"] /\ injectorAlive = "yes"
        /\ hands = [u \in Injector!Unblockers |-> <<>>]
    BY DEF Injector!Init
  <2>2. Injector!TypeOK
    BY <2>1 DEF Injector!TypeOK
  <2>3. OnePlace
    BY <2>1 DEF OnePlace, Holds, Distinct
  <2>4. FaultCounts
    BY <2>1 DEF FaultCounts
  <2>5. DestructorIdle
    BY <2>1 DEF DestructorIdle, Injector!Unblockers
  <2> QED
    BY <2>2, <2>3, <2>4, <2>5 DEF FaultInv
<1>2. FaultInv => InjectorSound
  <2> SUFFICES ASSUME FaultInv PROVE InjectorSound
    OBVIOUS
  <2>1. Injector!TypeOK /\ OnePlace /\ FaultCounts
    BY DEF FaultInv
  <2>2. DOMAIN blockedChecks = 1 .. Len(blockedChecks) /\ \A u \in Injector!Unblockers : DOMAIN hands[u] = 1 .. Len(hands[u])
    BY <2>1 DEF Injector!TypeOK
  <2>3. /\ \A x : x \in Injector!Range(blockedChecks) <=> Holds(blockedChecks, x)
        /\ \A u \in Injector!Unblockers : \A x : x \in Injector!Range(hands[u]) <=> Holds(hands[u], x)
    BY <2>2 DEF Injector!Range, Holds
  <2>4. /\ \A x : Holds(blockedChecks, x) => x \in Checkers
        /\ \A u \in Injector!Unblockers : \A x : Holds(hands[u], x) => x \in Checkers
    BY <2>1 DEF Injector!TypeOK, Holds
  <2>5. Injector!IsInjective(blockedChecks) /\ \A u \in Injector!Unblockers : Injector!IsInjective(hands[u])
    BY <2>1, <2>2 DEF OnePlace, Distinct, Injector!IsInjective
  <2>6. ASSUME NEW u \in Injector!Unblockers
        PROVE  /\ Injector!Range(hands[u]) \intersect Injector!Range(blockedChecks) = {}
               /\ \A v \in Injector!Unblockers \ {u} : Injector!Range(hands[u]) \intersect Injector!Range(hands[v]) = {}
    BY <2>1, <2>3, <2>4 DEF OnePlace
  <2>7. {c \in Checkers : checkPc[c] = "blocked"} =
          Injector!Range(blockedChecks) \union UNION {Injector!Range(hands[u]) : u \in Injector!Unblockers}
    <3>1. ASSUME NEW c
          PROVE  (c \in Checkers /\ checkPc[c] = "blocked") <=>
                   (c \in Injector!Range(blockedChecks) \/ \E u \in Injector!Unblockers : c \in Injector!Range(hands[u]))
      BY <2>1, <2>3, <2>4 DEF OnePlace
    <3> QED
      BY <3>1
  <2>8. Injector!PromiseKeptOnce
    BY <2>1, <2>5, <2>6, <2>7 DEF Injector!PromiseKeptOnce
  <2>9. Injector!CountsExact
    <3>1. DOMAIN count = 1 .. Len(count) /\ DOMAIN faults = 1 .. Len(faults)
      BY <2>1 DEF Injector!TypeOK
    <3> QED
      BY <2>1, <3>1 DEF FaultCounts, MatchesLeft, Injector!CountsExact
  <2> QED
    BY <2>8, <2>9 DEF InjectorSound, Injector!InjectorSound
<1> QED
  BY <1>1, <1>2, FaultStep, PTL DEF Injector!Spec

-----------------------------------------------------------------------------
(* Tracing *)

Disjoint(s, t) == \A x : ~(Holds(s, x) /\ Holds(t, x))
Joined(r, s, t) == \A x : Holds(r, x) <=> (Holds(s, x) \/ Holds(t, x))

\* What two sequences hold together.
LEMMA ConcatHolds ==
  ASSUME NEW S, NEW s \in Seq(S), NEW t \in Seq(S), NEW r, r = s \o t
  PROVE  r \in Seq(S) /\ Joined(r, s, t) /\ (Distinct(s) /\ Distinct(t) /\ Disjoint(s, t) => Distinct(r))
<1>1. PICK m, n : m = Len(s) /\ n = Len(t)
  OBVIOUS
<1>2. /\ r \in Seq(S) /\ m \in Nat /\ n \in Nat /\ Len(r) = m + n
      /\ \A i \in 1 .. (m + n) : r[i] = IF i <= m THEN s[i] ELSE t[i - m]
  <2>1. s \in Seq(S) /\ t \in Seq(S)
    OBVIOUS
  <2> QED
    BY ONLY <1>1, <2>1, r = s \o t
<1>3. \A i \in 1 .. m : i \in 1 .. (m + n) /\ r[i] = s[i]
  BY ONLY <1>2
<1>4. \A i \in 1 .. n : m + i \in 1 .. (m + n) /\ r[m + i] = t[i]
  BY ONLY <1>2
<1>5. ASSUME NEW i \in 1 .. (m + n), i \notin 1 .. m PROVE i - m \in 1 .. n /\ m + (i - m) = i /\ r[i] = t[i - m]
  BY ONLY <1>2, <1>5
<1>6. Joined(r, s, t)
  <2> SUFFICES ASSUME NEW x PROVE Holds(r, x) <=> (Holds(s, x) \/ Holds(t, x))
    BY DEF Joined
  <2>1. ASSUME Holds(s, x) PROVE Holds(r, x)
    BY <1>1, <1>2, <1>3, <2>1 DEF Holds
  <2>2. ASSUME Holds(t, x) PROVE Holds(r, x)
    BY <1>1, <1>2, <1>4, <2>2 DEF Holds
  <2>3. ASSUME Holds(r, x) PROVE Holds(s, x) \/ Holds(t, x)
    <3>1. PICK i \in 1 .. (m + n) : r[i] = x
      BY <1>2, <2>3 DEF Holds
    <3>2. CASE i \in 1 .. m
      BY <1>1, <1>3, <3>1, <3>2 DEF Holds
    <3>3. CASE i \notin 1 .. m
      BY <1>1, <1>5, <3>1, <3>3 DEF Holds
    <3> QED
      BY <3>2, <3>3
  <2> QED
    BY <2>1, <2>2, <2>3
<1>7. ASSUME Distinct(s), Distinct(t), Disjoint(s, t) PROVE Distinct(r)
  <2> SUFFICES ASSUME NEW i \in 1 .. (m + n), NEW j \in 1 .. (m + n), r[i] = r[j] PROVE i = j
    BY <1>2 DEF Distinct
  <2>1. \A k \in 1 .. m : Holds(s, s[k])
    BY <1>1 DEF Holds
  <2>2. \A k \in 1 .. n : Holds(t, t[k])
    BY <1>1 DEF Holds
  <2>3. CASE i \in 1 .. m /\ j \in 1 .. m
    BY <1>1, <1>3, <1>7, <2>3 DEF Distinct
  <2>4. CASE i \in 1 .. m /\ j \notin 1 .. m
    BY <1>3, <1>5, <1>7, <2>1, <2>2, <2>4 DEF Disjoint
  <2>5. CASE i \notin 1 .. m /\ j \in 1 .. m
    BY <1>3, <1>5, <1>7, <2>1, <2>2, <2>5 DEF Disjoint
  <2>6. CASE i \notin 1 .. m /\ j \notin 1 .. m
    <3>1. i - m \in 1 .. n /\ j - m \in 1 .. n /\ t[i - m] = t[j - m] /\ m + (i - m) = i /\ m + (j - m) = j
      BY <1>5, <2>6
    <3>2. i - m = j - m
      BY <1>1, <1>7, <3>1 DEF Distinct
    <3> QED
      BY ONLY <3>1, <3>2
  <2> QED
    BY <2>3, <2>4, <2>5, <2>6
<1> QED
  BY <1>2, <1>6, <1>7

\* Sorting keeps what there is.
LEMMA SortedHolds ==
  ASSUME NEW s \in Seq(Nat), Distinct(s), NEW r \in Tracer!Sorted(s)
  PROVE  /\ r \in Seq(Nat) /\ Distinct(r) /\ \A x : Holds(r, x) <=> Holds(s, x)
         /\ \A i, j \in 1 .. Len(r) : i < j => r[i] < r[j]
<1>1. PICK n : n = Len(s)
  OBVIOUS
<1>2. PICK o \in Tracer!Bijection(1 .. n, 1 .. n) :
        /\ r = [i \in 1 .. n |-> s[o[i]]]
        /\ \A i, j \in 1 .. n : i < j => s[o[i]] <= s[o[j]]
  BY <1>1 DEF Tracer!Sorted
<1>3. /\ n \in Nat /\ o \in [1 .. n -> 1 .. n] /\ (\A i, j \in 1 .. n : o[i] = o[j] => i = j)
      /\ \A k \in 1 .. n : \E i \in 1 .. n : o[i] = k
  <2>1. o \in [1 .. n -> 1 .. n] /\ Tracer!IsInjective(o) /\ \A k \in 1 .. n : \E i \in 1 .. n : o[i] = k
    BY DEF Tracer!Bijection, Tracer!Injection, Tracer!Surjection
  <2>2. n \in Nat
    BY <1>1
  <2>3. ASSUME NEW i \in 1 .. n, NEW j \in 1 .. n, o[i] = o[j] PROVE i = j
    <3>1. DOMAIN o = 1 .. n
      BY ONLY <2>1
    <3>2. \A a, b \in DOMAIN o : o[a] = o[b] => a = b
      BY ONLY <2>1, Zenon DEF Tracer!IsInjective
    <3> QED
      BY ONLY <2>3, <3>1, <3>2, Zenon
  <2> QED
    BY ONLY <2>1, <2>2, <2>3, Zenon
<1>4. \A k \in 1 .. n : s[k] \in Nat
  BY <1>1
<1>5. \A i \in 1 .. n : o[i] \in 1 .. n /\ s[o[i]] \in Nat
  BY <1>3, <1>4
<1>6. r \in Seq(Nat) /\ Len(r) = n /\ \A i \in 1 .. n : r[i] = s[o[i]]
  BY ONLY <1>2, <1>3, <1>5
<1>7. ASSUME NEW i \in 1 .. n, NEW j \in 1 .. n, r[i] = r[j] PROVE i = j
  <2>1. s[o[i]] = s[o[j]] /\ o[i] \in 1 .. Len(s) /\ o[j] \in 1 .. Len(s)
    BY <1>1, <1>5, <1>6, <1>7
  <2>2. o[i] = o[j]
    BY <2>1 DEF Distinct
  <2> QED
    BY <1>3, <2>2
<1>8. ASSUME NEW x PROVE Holds(r, x) <=> Holds(s, x)
  <2>1. ASSUME Holds(r, x) PROVE Holds(s, x)
    BY <1>1, <1>5, <1>6, <2>1 DEF Holds
  <2>2. ASSUME Holds(s, x) PROVE Holds(r, x)
    <3>1. PICK k \in 1 .. n : s[k] = x
      BY <1>1, <2>2 DEF Holds
    <3>2. PICK i \in 1 .. n : o[i] = k
      BY <1>3
    <3> QED
      BY <1>6, <3>1, <3>2 DEF Holds
  <2> QED
    BY <2>1, <2>2
<1>9. ASSUME NEW i \in 1 .. n, NEW j \in 1 .. n, i < j PROVE r[i] < r[j]
  <2>1. r[i] <= r[j] /\ r[i] \in Nat /\ r[j] \in Nat
    BY <1>2, <1>5, <1>6, <1>9
  <2>2. r[i] # r[j]
    BY <1>7, <1>9
  <2> QED
    BY <2>1, <2>2
<1> QED
  BY <1>6, <1>7, <1>8, <1>9 DEF Distinct

TraceType ==
  /\ clock \in Nat
  /\ ring \in [Tracers -> [0 .. (kBufferPoints - 1) -> Nat]]
  /\ currNum \in [Tracers -> Nat]
  /\ written \in [Tracers -> Seq(Nat)]
  /\ tracepoints \in Seq(Nat) /\ returned \in Seq(Nat)
  /\ request \in [Tracers -> Nat] /\ blocks \in [Tracers -> Seq(Nat \X Nat)]

\* Timestamps are given once, and grow.
Timestamps ==
  /\ \A t \in Tracers : \A i \in 1 .. Len(written[t]) : written[t][i] \in 1 .. clock
  /\ \A t \in Tracers : \A i, j \in 1 .. Len(written[t]) : i < j => written[t][i] < written[t][j]
  /\ \A t, u \in Tracers : t # u => Disjoint(written[t], written[u])

\* A thread has written the points of its ring last.  The n-th point since the last flush is
\* in the place that n selects, unless kBufferPoints others came after it.
Before(t) == Len(written[t]) - currNum[t]
Recent(t) == {n \in 0 .. (currNum[t] - 1) : currNum[t] <= n + kBufferPoints}
RingHolds ==
  \A t \in Tracers :
    /\ currNum[t] <= Len(written[t])
    /\ \A n \in Recent(t) : ring[t][n % kBufferPoints] = written[t][Before(t) + n + 1]
    /\ \A i \in 0 .. (kBufferPoints - 1) : i < currNum[t] => \E n \in Recent(t) : n % kBufferPoints = i

\* What was flushed is collected, but for what had been overwritten, and once.
Collected(x) == Holds(tracepoints, x) \/ Holds(returned, x)
Flushes ==
  /\ Distinct(tracepoints) /\ Distinct(returned) /\ Disjoint(tracepoints, returned)
  /\ \A x : Collected(x) => \E t \in Tracers : \E i \in 1 .. Len(written[t]) : i <= Before(t) /\ written[t][i] = x
  /\ \A t \in Tracers : \A i \in 1 .. Len(written[t]) :
       i <= Before(t) => (Collected(written[t][i]) \/ i + kBufferPoints <= Len(written[t]))

\* The points of a thread are returned in their order.
InOrder ==
  \A t \in Tracers :
    /\ \A i, j \in 1 .. Len(returned) :
         i < j /\ Holds(written[t], returned[i]) /\ Holds(written[t], returned[j]) => returned[i] < returned[j]
    /\ \A x, y : Holds(written[t], x) /\ Holds(returned, x) /\ Holds(written[t], y) /\ Holds(tracepoints, y) => x < y

\* The request knows the innermost block, and each block the one around it.
Nested(q, s) ==
  /\ q = IF s = <<>> THEN 0 ELSE s[Len(s)][1]
  /\ \A i \in 1 .. Len(s) : s[i][2] = IF i = 1 THEN 0 ELSE s[i - 1][1]
Nesting == \A t \in Tracers : Nested(request[t], blocks[t])

TraceInv == TraceType /\ Timestamps /\ RingHolds /\ Flushes /\ InOrder /\ Nesting

\* The points of a ring: those since the last flush that are not overwritten, each of them once.
LEMMA RingPoints ==
  ASSUME TraceType, RingHolds, Timestamps, NEW t \in Tracers, NEW p, p = Tracer!Points(t)
  PROVE  /\ p \in Seq(Nat) /\ Distinct(p)
         /\ \A x : Holds(p, x) <=> \E i \in 1 .. Len(written[t]) :
                                     i > Before(t) /\ i + kBufferPoints > Len(written[t]) /\ written[t][i] = x
<1>1. PICK b, n, l, w, r, k :
        /\ b = kBufferPoints /\ n = currNum[t] /\ w = written[t] /\ l = Len(w) /\ r = ring[t]
        /\ k = IF n < b THEN n ELSE b
  OBVIOUS
<1>2. b \in Nat /\ b >= 1 /\ n \in Nat /\ w \in Seq(Nat) /\ l \in Nat /\ r \in [0 .. (b - 1) -> Nat] /\ n <= l
  BY <1>1, BufferAssumption DEF TraceType, RingHolds
<1>3. k \in Nat /\ k <= b /\ k <= n
  BY <1>1, <1>2
<1>4. p = [i \in 1 .. k |-> r[i - 1]]
  BY <1>1 DEF Tracer!Points
<1>5. /\ \A j \in 0 .. (n - 1) : n <= j + b => r[j % b] = w[l - n + j + 1]
      /\ \A i \in 0 .. (b - 1) : i < n => \E j \in 0 .. (n - 1) : n <= j + b /\ j % b = i
  BY <1>1 DEF RingHolds, Recent, Before
<1>6. \A i, j \in 1 .. l : w[i] = w[j] => i = j
  <2> SUFFICES ASSUME NEW i \in 1 .. l, NEW j \in 1 .. l, w[i] = w[j], i # j PROVE FALSE
    OBVIOUS
  <2>1. \A x, y \in 1 .. l : x < y => w[x] < w[y]
    BY <1>1 DEF Timestamps
  <2>2. w[i] \in Nat /\ w[j] \in Nat
    BY <1>1, <1>2
  <2>3. CASE i < j
    BY <2>1, <2>2, <2>3
  <2>4. CASE j < i
    BY <2>1, <2>2, <2>4
  <2> QED
    BY <2>3, <2>4
<1>7. ASSUME NEW i \in 1 .. k PROVE i - 1 \in 0 .. (b - 1) /\ i - 1 < n /\ r[i - 1] \in Nat
  <2>1. i - 1 \in 0 .. (b - 1) /\ i - 1 < n
    BY <1>2, <1>3
  <2> QED
    BY <1>2, <2>1
<1>8. p \in Seq(Nat) /\ Len(p) = k /\ \A i \in 1 .. k : p[i] = r[i - 1]
  BY ONLY <1>3, <1>4, <1>7
\* The point in a place.
<1>9. ASSUME NEW i \in 1 .. k
      PROVE  \E j \in 0 .. (n - 1) : n <= j + b /\ j % b = i - 1 /\ l - n + j + 1 \in 1 .. l /\ p[i] = w[l - n + j + 1]
  <2>1. PICK j \in 0 .. (n - 1) : n <= j + b /\ j % b = i - 1
    BY <1>5, <1>7
  <2>2. l - n + j + 1 \in 1 .. l
    BY <1>2
  <2>3. p[i] = w[l - n + j + 1]
    BY <1>5, <1>8, <2>1
  <2> QED
    BY <2>1, <2>2, <2>3
<1>10. Distinct(p)
  <2> SUFFICES ASSUME NEW x \in 1 .. k, NEW y \in 1 .. k, p[x] = p[y] PROVE x = y
    BY <1>8 DEF Distinct
  <2>1. PICK i \in 0 .. (n - 1) : i % b = x - 1 /\ l - n + i + 1 \in 1 .. l /\ p[x] = w[l - n + i + 1]
    BY <1>9
  <2>2. PICK j \in 0 .. (n - 1) : j % b = y - 1 /\ l - n + j + 1 \in 1 .. l /\ p[y] = w[l - n + j + 1]
    BY <1>9
  <2>3. l - n + i + 1 = l - n + j + 1
    BY <1>6, <2>1, <2>2
  <2>4. i = j
    BY <1>2, <2>3
  <2> QED
    BY <2>1, <2>2, <2>4
<1>11. ASSUME NEW x, Holds(p, x) PROVE \E i \in 1 .. l : i > l - n /\ i + b > l /\ w[i] = x
  <2>1. PICK i \in 1 .. k : p[i] = x
    BY <1>8, <1>11 DEF Holds
  <2>2. PICK j \in 0 .. (n - 1) : n <= j + b /\ l - n + j + 1 \in 1 .. l /\ p[i] = w[l - n + j + 1]
    BY <1>9
  <2>3. l - n + j + 1 > l - n /\ l - n + j + 1 + b > l
    BY <1>2, <2>2
  <2> QED
    BY <2>1, <2>2, <2>3
<1>12. ASSUME NEW i \in 1 .. l, i > l - n, i + b > l PROVE Holds(p, w[i])
  <2>1. PICK j : j = i - 1 - (l - n)
    OBVIOUS
  <2>2. j \in 0 .. (n - 1) /\ n <= j + b /\ l - n + j + 1 = i /\ j \in Nat
    BY <1>2, <1>12, <2>1
  <2>3. r[j % b] = w[i]
    BY <1>5, <2>2
  <2>4. PICK m : m = j % b
    OBVIOUS
  <2>5. m \in 0 .. (b - 1) /\ m <= j
    <3>1. PICK q \in Nat, c \in 0 .. (b - 1) : c = j % b /\ j = b * q + c
      BY <1>2, <2>2, Remainder
    <3>2. b * q \in Nat
      BY <1>2
    <3> QED
      BY <2>4, <3>1, <3>2
  <2>6. m + 1 \in 1 .. k /\ (m + 1) - 1 = m
    <3>1. m + 1 <= n /\ m + 1 <= b
      BY <1>2, <2>2, <2>5
    <3>2. m + 1 <= k
      BY <1>1, <3>1
    <3> QED
      BY ONLY <1>3, <2>2, <2>5, <3>2, <1>2
  <2>7. p[m + 1] = w[i]
    BY <1>8, <2>3, <2>4, <2>6
  <2> QED
    BY <1>8, <2>6, <2>7 DEF Holds
<1> QED
  BY <1>1, <1>8, <1>10, <1>11, <1>12 DEF Before

\* A point of a thread that was collected was written before the last flush.
LEMMA CollectedBefore ==
  ASSUME Timestamps, Flushes, NEW t \in Tracers, NEW x, Holds(written[t], x), Collected(x)
  PROVE  \E i \in 1 .. Len(written[t]) : i <= Before(t) /\ written[t][i] = x
<1>1. PICK u \in Tracers : \E i \in 1 .. Len(written[u]) : i <= Before(u) /\ written[u][i] = x
  BY DEF Flushes
<1>2. Holds(written[u], x)
  BY <1>1 DEF Holds
<1>3. u = t
  BY <1>2 DEF Timestamps, Disjoint
<1> QED
  BY <1>1, <1>3

\* trace() writes a new point, in the place of one that is kBufferPoints older.
Wrote(t, b, n, w, l, c) ==
  /\ b \in Nat /\ b >= 1 /\ n \in Nat /\ w \in Seq(Nat) /\ l \in Nat /\ clock \in Nat /\ n <= l
  /\ clock' = c /\ ring' \in [Tracers -> [0 .. (kBufferPoints - 1) -> Nat]]
  /\ currNum' \in [Tracers -> Nat] /\ written' \in [Tracers -> Seq(Nat)]
  /\ currNum'[t] = n + 1 /\ Len(written'[t]) = l + 1 /\ written'[t][l + 1] = c
  /\ \A i \in 1 .. l : written'[t][i] = w[i]
  /\ ring'[t][n % b] = c
  /\ \A i \in 0 .. (b - 1) : i # n % b => ring'[t][i] = ring[t][i]
  /\ \A u \in Tracers : u # t => ring'[u] = ring[u] /\ currNum'[u] = currNum[u] /\ written'[u] = written[u]

LEMMA TraceWrites ==
  ASSUME TraceType, Timestamps, RingHolds, NEW t \in Tracers, Tracer!Trace(t),
         NEW b, b = kBufferPoints, NEW n, n = currNum[t], NEW w, w = written[t], NEW l, l = Len(w),
         NEW c, c = clock + 1
  PROVE  Wrote(t, b, n, w, l, c)
<1>1. /\ clock \in Nat /\ n \in Nat /\ w \in Seq(Nat) /\ l \in Nat /\ n <= l /\ b \in Nat /\ b >= 1
      /\ ring[t] \in [0 .. (b - 1) -> Nat] /\ c \in Nat
  BY BufferAssumption DEF TraceType, RingHolds
<1>2. n % b \in 0 .. (b - 1)
  BY <1>1, NextRemainder
<1>3. /\ clock' = c
      /\ ring' = [ring EXCEPT ![t] = [ring[t] EXCEPT ![n % b] = c]]
      /\ currNum' = [currNum EXCEPT ![t] = n + 1]
      /\ written' = [written EXCEPT ![t] = Append(w, c)]
  BY DEF Tracer!Trace
<1>4. PICK r : r = [ring[t] EXCEPT ![n % b] = c]
  OBVIOUS
<1>5. r \in [0 .. (b - 1) -> Nat] /\ r[n % b] = c /\ \A i \in 0 .. (b - 1) : i # n % b => r[i] = ring[t][i]
  BY ONLY <1>1, <1>2, <1>4
<1>6. PICK v : v = Append(w, c)
  OBVIOUS
<1>7. v \in Seq(Nat) /\ Len(v) = l + 1 /\ v[l + 1] = c /\ \A i \in 1 .. l : v[i] = w[i]
  BY ONLY <1>1, <1>6, l = Len(w)
<1>8. ring' \in [Tracers -> [0 .. (kBufferPoints - 1) -> Nat]] /\ ring'[t] = r /\ \A u \in Tracers : u # t => ring'[u] = ring[u]
  BY <1>3, <1>4, <1>5 DEF TraceType
<1>9. currNum' \in [Tracers -> Nat] /\ currNum'[t] = n + 1 /\ \A u \in Tracers : u # t => currNum'[u] = currNum[u]
  BY <1>1, <1>3 DEF TraceType
<1>10. written' \in [Tracers -> Seq(Nat)] /\ written'[t] = v /\ \A u \in Tracers : u # t => written'[u] = written[u]
  BY <1>3, <1>6, <1>7 DEF TraceType
<1> QED
  BY <1>1, <1>3, <1>5, <1>7, <1>8, <1>9, <1>10 DEF Wrote

\* The time of a new point is later than the others'.
LEMMA TraceTimestamps ==
  ASSUME TraceType, Timestamps, RingHolds, NEW t \in Tracers, Tracer!Trace(t)
  PROVE  /\ Timestamps'
         /\ \A u \in Tracers : \A x : Holds(written'[u], x) => Holds(written[u], x) \/ x = clock + 1
         /\ \A u \in Tracers : \A x : Holds(written[u], x) => x \in Nat /\ x <= clock
<1>1. PICK b, n, w, l, c : b = kBufferPoints /\ n = currNum[t] /\ w = written[t] /\ l = Len(w) /\ c = clock + 1
  OBVIOUS
<1>2. /\ l \in Nat /\ clock \in Nat /\ clock' = c /\ w \in Seq(Nat)
      /\ Len(written'[t]) = l + 1 /\ written'[t][l + 1] = c /\ (\A i \in 1 .. l : written'[t][i] = w[i])
      /\ \A u \in Tracers : u # t => written'[u] = written[u]
  <2>1. Wrote(t, b, n, w, l, c)
    BY <1>1, TraceWrites
  <2> QED
    BY <2>1 DEF Wrote
<1>3. /\ \A u \in Tracers : \A i \in 1 .. Len(written[u]) : written[u][i] \in 1 .. clock
      /\ \A u \in Tracers : \A i, j \in 1 .. Len(written[u]) : i < j => written[u][i] < written[u][j]
      /\ \A u, v \in Tracers : u # v => Disjoint(written[u], written[v])
  BY DEF Timestamps
<1>4. ASSUME NEW u \in Tracers, NEW x, Holds(written[u], x) PROVE x \in Nat /\ x <= clock
  <2>1. PICK i \in 1 .. Len(written[u]) : written[u][i] = x
    BY <1>4 DEF Holds
  <2>2. x \in 1 .. clock
    BY <1>3, <2>1
  <2> QED
    BY <1>2, <2>2
<1>5. \A i \in 1 .. l : w[i] \in 1 .. clock
  BY <1>1, <1>3
<1>6. ASSUME NEW u \in Tracers, NEW x, Holds(written'[u], x) PROVE Holds(written[u], x) \/ x = c
  <2>1. CASE u # t
    BY <1>2, <1>6, <2>1
  <2>2. CASE u = t
    <3>1. PICK i \in 1 .. (l + 1) : written'[t][i] = x
      BY <1>2, <1>6, <2>2 DEF Holds
    <3>2. CASE i = l + 1
      BY <1>2, <3>1, <3>2
    <3>3. CASE i # l + 1
      <4>1. i \in 1 .. l
        BY <1>2, <3>3
      <4> QED
        BY <1>1, <1>2, <2>2, <3>1, <4>1 DEF Holds
    <3> QED
      BY <3>2, <3>3
  <2> QED
    BY <2>1, <2>2
<1>7. ASSUME NEW u \in Tracers, NEW i \in 1 .. Len(written'[u]) PROVE written'[u][i] \in 1 .. c
  <2>1. Holds(written'[u], written'[u][i])
    BY DEF Holds
  <2>2. CASE written'[u][i] = c
    BY <1>1, <1>2, <2>2
  <2>3. CASE Holds(written[u], written'[u][i])
    <3>1. PICK j \in 1 .. Len(written[u]) : written[u][j] = written'[u][i]
      BY <2>3 DEF Holds
    <3>2. written'[u][i] \in 1 .. clock
      BY <1>3, <3>1
    <3> QED
      BY <1>1, <1>2, <3>2
  <2> QED
    BY <1>6, <2>1, <2>2, <2>3
<1>8. ASSUME NEW u \in Tracers, NEW i \in 1 .. Len(written'[u]), NEW j \in 1 .. Len(written'[u]), i < j
      PROVE  written'[u][i] < written'[u][j]
  <2>1. CASE u # t
    BY <1>2, <1>3, <1>8, <2>1
  <2>2. CASE u = t
    <3>1. i \in 1 .. (l + 1) /\ j \in 1 .. (l + 1) /\ i \in 1 .. l
      BY <1>2, <1>8, <2>2
    <3>2. CASE j = l + 1
      <4>1. w[i] \in 1 .. clock /\ written'[u][i] = w[i] /\ written'[u][j] = clock + 1
        BY <1>1, <1>2, <1>5, <2>2, <3>1, <3>2
      <4> QED
        BY <1>2, <4>1
    <3>3. CASE j # l + 1
      <4>1. j \in 1 .. l
        BY <1>2, <3>1, <3>3
      <4>2. w[i] < w[j]
        BY <1>1, <1>3, <1>8, <3>1, <4>1
      <4> QED
        BY <1>2, <2>2, <3>1, <4>1, <4>2
    <3> QED
      BY <3>2, <3>3
  <2> QED
    BY <2>1, <2>2
<1>9. ASSUME NEW u \in Tracers, NEW v \in Tracers, u # v, NEW x, Holds(written'[u], x), Holds(written'[v], x) PROVE FALSE
  <2>1. u # t \/ v # t
    BY <1>9
  <2>2. CASE x = c
    <3>1. Holds(written[u], c) \/ Holds(written[v], c)
      BY <1>2, <1>9, <2>1, <2>2
    <3>2. c <= clock
      BY <1>4, <3>1
    <3> QED
      BY <1>1, <1>2, <3>2
  <2>3. CASE x # c
    BY <1>3, <1>6, <1>9, <2>3 DEF Disjoint
  <2> QED
    BY <2>2, <2>3
<1> QED
  BY <1>1, <1>2, <1>4, <1>6, <1>7, <1>8, <1>9 DEF Timestamps, Disjoint

\* It overwrites the oldest point of a ring that is full, and no other.
LEMMA TraceRing ==
  ASSUME TraceType, Timestamps, RingHolds, NEW t \in Tracers, Tracer!Trace(t)
  PROVE  RingHolds' /\ \A u \in Tracers : Before(u)' = Before(u)
<1>1. PICK b, n, w, l, c : b = kBufferPoints /\ n = currNum[t] /\ w = written[t] /\ l = Len(w) /\ c = clock + 1
  OBVIOUS
<1>2. /\ b \in Nat /\ b >= 1 /\ n \in Nat /\ l \in Nat /\ n <= l
      /\ currNum'[t] = n + 1 /\ Len(written'[t]) = l + 1 /\ written'[t][l + 1] = c
      /\ (\A i \in 1 .. l : written'[t][i] = w[i])
      /\ ring'[t][n % b] = c /\ (\A i \in 0 .. (b - 1) : i # n % b => ring'[t][i] = ring[t][i])
      /\ \A u \in Tracers : u # t => ring'[u] = ring[u] /\ currNum'[u] = currNum[u] /\ written'[u] = written[u]
  <2>1. Wrote(t, b, n, w, l, c)
    BY <1>1, TraceWrites
  <2> QED
    BY <2>1 DEF Wrote
<1>3. PICK r, s : r = ring[t] /\ s = ring'[t]
  OBVIOUS
<1>4. /\ \A j \in 0 .. (n - 1) : n <= j + b => r[j % b] = w[l - n + j + 1]
      /\ \A i \in 0 .. (b - 1) : i < n => \E j \in 0 .. (n - 1) : n <= j + b /\ j % b = i
  BY <1>1, <1>3 DEF RingHolds, Recent, Before
<1>5. n % b \in 0 .. (b - 1)
  BY <1>2, NextRemainder
<1>6. ASSUME NEW j \in 0 .. n, n + 1 <= j + b PROVE s[j % b] = written'[t][(l + 1) - (n + 1) + j + 1]
  <2>1. CASE j = n
    <3>1. (l + 1) - (n + 1) + j + 1 = l + 1
      BY <1>2, <2>1
    <3> QED
      BY <1>2, <1>3, <2>1, <3>1
  <2>2. CASE j # n
    <3>1. j \in 0 .. (n - 1) /\ j \in Nat /\ n < j + b /\ n <= j + b /\ j <= n
      BY <1>2, <1>6, <2>2
    <3>2. j % b # n % b
      BY <1>2, <2>2, <3>1, SameRemainder
    <3>3. j % b \in 0 .. (b - 1)
      BY <1>2, <3>1, NextRemainder
    <3>4. s[j % b] = w[l - n + j + 1]
      BY <1>2, <1>3, <1>4, <3>1, <3>2, <3>3
    <3>5. (l + 1) - (n + 1) + j + 1 = l - n + j + 1 /\ l - n + j + 1 \in 1 .. l
      BY <1>2, <3>1
    <3> QED
      BY <1>2, <3>4, <3>5
  <2> QED
    BY <2>1, <2>2
<1>7. ASSUME NEW i \in 0 .. (b - 1), i < n + 1 PROVE \E j \in 0 .. n : n + 1 <= j + b /\ j % b = i
  <2>1. CASE i = n % b
    <3>1. n \in 0 .. n /\ n + 1 <= n + b
      BY <1>2
    <3> QED
      BY <2>1, <3>1
  <2>2. CASE i # n % b
    <3>1. i # n
      <4>1. SUFFICES ASSUME i = n PROVE FALSE
        OBVIOUS
      <4>2. n % b = n
        BY <1>2, <4>1
      <4> QED
        BY <2>2, <4>1, <4>2
    <3>2. i < n
      BY <1>2, <1>7, <3>1
    <3>3. PICK j \in 0 .. (n - 1) : n <= j + b /\ j % b = i
      BY <1>4, <3>2
    <3>4. j \in Nat /\ j \in 0 .. n
      BY <1>2
    <3>5. n # j + b
      BY <1>2, <2>2, <3>3, <3>4, NextRemainder
    <3>6. n + 1 <= j + b
      BY <1>2, <3>3, <3>4, <3>5
    <3> QED
      BY <3>3, <3>4, <3>6
  <2> QED
    BY <2>1, <2>2
<1>8. ASSUME NEW u \in Tracers PROVE Before(u)' = Before(u)
  <2>1. CASE u = t
    <3>1. Before(u)' = (l + 1) - (n + 1) /\ Before(u) = l - n
      BY <1>1, <1>2, <2>1 DEF Before
    <3> QED
      BY ONLY <1>2, <3>1
  <2>2. CASE u # t
    BY <1>2, <2>2 DEF Before
  <2> QED
    BY <2>1, <2>2
<1>9. Len(written'[t]) >= currNum'[t] /\ (currNum'[t] - 1) = n
  BY <1>2
<1>10. /\ currNum'[t] <= Len(written'[t])
       /\ \A j \in Recent(t)' : ring'[t][j % kBufferPoints] = written'[t][Before(t)' + j + 1]
       /\ \A i \in 0 .. (kBufferPoints - 1) : i < currNum'[t] => \E j \in Recent(t)' : j % kBufferPoints = i
  <2>1. Recent(t)' = {j \in 0 .. n : n + 1 <= j + b} /\ Before(t)' = (l + 1) - (n + 1)
    BY <1>1, <1>2, <1>9 DEF Recent, Before
  <2>2. \A j \in Recent(t)' : ring'[t][j % b] = written'[t][Before(t)' + j + 1]
    BY <1>3, <1>6, <2>1
  <2>3. \A i \in 0 .. (b - 1) : i < currNum'[t] => \E j \in Recent(t)' : j % b = i
    BY <1>2, <1>7, <2>1
  <2> QED
    BY <1>1, <1>2, <2>2, <2>3
<1>11. ASSUME NEW u \in Tracers, u # t
       PROVE  /\ currNum'[u] <= Len(written'[u])
              /\ \A j \in Recent(u)' : ring'[u][j % kBufferPoints] = written'[u][Before(u)' + j + 1]
              /\ \A i \in 0 .. (kBufferPoints - 1) : i < currNum'[u] => \E j \in Recent(u)' : j % kBufferPoints = i
  <2>1. Recent(u)' = Recent(u) /\ ring'[u] = ring[u] /\ currNum'[u] = currNum[u] /\ written'[u] = written[u]
    BY <1>2, <1>11 DEF Recent
  <2> QED
    BY <1>8, <2>1 DEF RingHolds
<1> QED
  BY <1>8, <1>10, <1>11 DEF RingHolds

\* What was collected stays.
LEMMA TraceCollected ==
  ASSUME TraceInv, NEW t \in Tracers, Tracer!Trace(t), UNCHANGED <<tracepoints, returned>>
  PROVE  Timestamps' /\ RingHolds' /\ Flushes' /\ InOrder'
<1>1. TraceType /\ Timestamps /\ RingHolds /\ Flushes /\ InOrder
  BY DEF TraceInv
<1>2. /\ Timestamps'
      /\ \A u \in Tracers : \A x : Holds(written'[u], x) => Holds(written[u], x) \/ x = clock + 1
      /\ \A u \in Tracers : \A x : Holds(written[u], x) => x \in Nat /\ x <= clock
  BY <1>1, TraceTimestamps
<1>3. RingHolds' /\ \A u \in Tracers : Before(u)' = Before(u)
  BY <1>1, TraceRing
<1>4. PICK b, n, w, l, c : b = kBufferPoints /\ n = currNum[t] /\ w = written[t] /\ l = Len(w) /\ c = clock + 1
  OBVIOUS
<1>5. /\ b \in Nat /\ n \in Nat /\ l \in Nat /\ n <= l /\ Len(written'[t]) = l + 1 /\ clock \in Nat
      /\ (\A i \in 1 .. l : written'[t][i] = w[i])
      /\ \A u \in Tracers : u # t => written'[u] = written[u]
  <2>1. Wrote(t, b, n, w, l, c)
    BY <1>1, <1>4, TraceWrites
  <2> QED
    BY <2>1 DEF Wrote
\* Each index of what was written stays the same point.
<1>6. ASSUME NEW u \in Tracers
      PROVE  /\ Len(written'[u]) \in Nat /\ Len(written[u]) \in Nat /\ Len(written'[u]) >= Len(written[u])
             /\ Before(u) \in Nat /\ Before(u) <= Len(written[u])
             /\ \A i \in 1 .. Len(written[u]) : i \in 1 .. Len(written'[u]) /\ written'[u][i] = written[u][i]
  <2>1. written[u] \in Seq(Nat) /\ currNum[u] \in Nat /\ currNum[u] <= Len(written[u])
    BY <1>1 DEF TraceType, RingHolds
  <2>2. CASE u = t
    BY <1>4, <1>5, <2>1, <2>2 DEF Before
  <2>3. CASE u # t
    BY <1>5, <2>1, <2>3 DEF Before
  <2> QED
    BY <2>2, <2>3
<1>7. tracepoints' = tracepoints /\ returned' = returned
  OBVIOUS
<1>8. ASSUME NEW x, Collected(x)
      PROVE  \E u \in Tracers : \E i \in 1 .. Len(written'[u]) : i <= Before(u)' /\ written'[u][i] = x
  <2>1. PICK u \in Tracers : \E i \in 1 .. Len(written[u]) : i <= Before(u) /\ written[u][i] = x
    BY <1>1, <1>8 DEF Flushes
  <2> QED
    BY <1>3, <1>6, <2>1
<1>9. ASSUME NEW u \in Tracers, NEW i \in 1 .. Len(written'[u]), i <= Before(u)'
      PROVE  \/ Holds(tracepoints', written'[u][i]) \/ Holds(returned', written'[u][i])
             \/ i + kBufferPoints <= Len(written'[u])
  <2>1. i <= Before(u) /\ i \in 1 .. Len(written[u])
    BY <1>3, <1>6, <1>9
  <2>2. Collected(written[u][i]) \/ i + b <= Len(written[u])
    BY <1>1, <1>4, <2>1 DEF Flushes
  <2>3. CASE Collected(written[u][i])
    BY <1>6, <1>7, <2>1, <2>3 DEF Collected
  <2>4. CASE i + b <= Len(written[u])
    BY <1>4, <1>5, <1>6, <2>1, <2>4
  <2> QED
    BY <2>2, <2>3, <2>4
<1>10. Flushes'
  <2>1. Distinct(tracepoints') /\ Distinct(returned') /\ Disjoint(tracepoints', returned')
    BY <1>1 DEF Flushes
  <2>2. \A x : Collected(x)' => Collected(x)
    BY <1>7 DEF Collected
  <2>3. \A x : Collected(x)' => \E u \in Tracers : \E i \in 1 .. Len(written'[u]) : i <= Before(u)' /\ written'[u][i] = x
    BY <1>8, <2>2
  <2> QED
    BY <1>9, <2>1, <2>3 DEF Flushes, Collected
\* The new point is not among them.
<1>11. ASSUME NEW x, Collected(x), NEW u \in Tracers, Holds(written'[u], x) PROVE Holds(written[u], x)
  <2>1. PICK v \in Tracers : \E i \in 1 .. Len(written[v]) : i <= Before(v) /\ written[v][i] = x
    BY <1>1, <1>11 DEF Flushes
  <2>2. Holds(written[v], x)
    BY <2>1 DEF Holds
  <2>3. x \in Nat /\ x <= clock
    BY <1>2, <2>2
  <2> QED
    BY <1>2, <1>5, <1>11, <2>3
<1>12. ASSUME NEW u \in Tracers, NEW i \in 1 .. Len(returned), NEW j \in 1 .. Len(returned), i < j,
              Holds(written'[u], returned[i]), Holds(written'[u], returned[j])
       PROVE  returned[i] < returned[j]
  <2>1. Collected(returned[i]) /\ Collected(returned[j])
    BY DEF Collected, Holds
  <2>2. Holds(written[u], returned[i]) /\ Holds(written[u], returned[j])
    BY <1>11, <1>12, <2>1
  <2> QED
    BY <1>1, <1>12, <2>2 DEF InOrder
<1>13. ASSUME NEW u \in Tracers, NEW x, NEW y,
              Holds(written'[u], x), Holds(returned, x), Holds(written'[u], y), Holds(tracepoints, y)
       PROVE  x < y
  <2>1. Collected(x) /\ Collected(y)
    BY <1>13 DEF Collected
  <2>2. Holds(written[u], x) /\ Holds(written[u], y)
    BY <1>11, <1>13, <2>1
  <2> QED
    BY <1>1, <1>13, <2>2 DEF InOrder
<1>14. InOrder'
  <2>1. \A u \in Tracers : \A i, j \in 1 .. Len(returned') :
          i < j /\ Holds(written'[u], returned'[i]) /\ Holds(written'[u], returned'[j]) => returned'[i] < returned'[j]
    BY <1>7, <1>12
  <2>2. \A u \in Tracers : \A x, y :
          Holds(written'[u], x) /\ Holds(returned', x) /\ Holds(written'[u], y) /\ Holds(tracepoints', y) => x < y
    BY <1>7, <1>13
  <2> QED
    BY <2>1, <2>2 DEF InOrder
<1> QED
  BY <1>2, <1>3, <1>10, <1>14

\* flush() collects what is in a ring, which no flush has collected before.
LEMMA FlushCollects ==
  ASSUME TraceInv, NEW t \in Tracers, Tracer!Flush(t), UNCHANGED <<clock, ring, written, request, blocks, returned>>
  PROVE  TraceInv'
<1>1. TraceType /\ Timestamps /\ RingHolds /\ Flushes /\ InOrder /\ Nesting
  BY DEF TraceInv
<1>2. PICK p : p = Tracer!Points(t)
  OBVIOUS
<1>3. /\ tracepoints' = tracepoints \o p /\ currNum' = [currNum EXCEPT ![t] = 0]
      /\ written' = written /\ returned' = returned /\ ring' = ring /\ clock' = clock /\ request' = request /\ blocks' = blocks
  BY <1>2 DEF Tracer!Flush, Tracer!Flushed
<1>4. /\ currNum' \in [Tracers -> Nat] /\ currNum'[t] = 0 /\ \A u \in Tracers : u # t => currNum'[u] = currNum[u]
  BY <1>1, <1>3 DEF TraceType
<1>5. /\ p \in Seq(Nat) /\ Distinct(p)
      /\ \A x : Holds(p, x) <=> \E i \in 1 .. Len(written[t]) :
                                  i > Before(t) /\ i + kBufferPoints > Len(written[t]) /\ written[t][i] = x
  BY <1>1, <1>2, RingPoints
<1>6. ASSUME NEW u \in Tracers
      PROVE  /\ Len(written[u]) \in Nat /\ currNum[u] \in Nat /\ currNum[u] <= Len(written[u])
             /\ Before(u) \in Nat /\ Before(u) <= Len(written[u])
  <2>1. written[u] \in Seq(Nat) /\ currNum[u] \in Nat /\ currNum[u] <= Len(written[u])
    BY <1>1 DEF TraceType, RingHolds
  <2> QED
    BY <2>1 DEF Before
<1>7. Before(t)' = Len(written[t]) /\ \A u \in Tracers : u # t => Before(u)' = Before(u)
  <2>1. Before(t)' = Len(written[t]) - 0
    BY <1>3, <1>4 DEF Before
  <2> QED
    BY <1>3, <1>4, <1>6, <2>1 DEF Before
<1>8. \A i, j \in 1 .. Len(written[t]) : i < j => written[t][i] < written[t][j]
  BY <1>1 DEF Timestamps
<1>9. \A i \in 1 .. Len(written[t]) : written[t][i] \in Nat
  BY <1>1 DEF TraceType
<1>10. ASSUME NEW x, Holds(p, x) PROVE Holds(written[t], x) /\ ~Collected(x)
  <2>1. PICK i \in 1 .. Len(written[t]) : i > Before(t) /\ written[t][i] = x
    BY <1>5, <1>10
  <2>2. Holds(written[t], x)
    BY <2>1 DEF Holds
  <2>3. ASSUME Collected(x) PROVE FALSE
    <3>1. PICK j \in 1 .. Len(written[t]) : j <= Before(t) /\ written[t][j] = x
      BY <1>1, <2>2, <2>3, CollectedBefore
    <3>2. j < i
      BY <1>6, <2>1, <3>1
    <3>3. written[t][j] < written[t][i] /\ written[t][i] \in Nat
      BY <1>8, <1>9, <3>2
    <3> QED
      BY <2>1, <3>1, <3>3
  <2> QED
    BY <2>2, <2>3
<1>11. tracepoints \in Seq(Nat) /\ Distinct(tracepoints) /\ Distinct(returned) /\ Disjoint(tracepoints, returned)
  BY <1>1 DEF TraceType, Flushes
<1>12. Disjoint(tracepoints, p)
  BY <1>10 DEF Disjoint, Collected
<1>13. tracepoints' \in Seq(Nat) /\ Joined(tracepoints', tracepoints, p) /\ Distinct(tracepoints')
  BY ONLY <1>3, <1>5, <1>11, <1>12, ConcatHolds
<1>14. \A x : Holds(tracepoints', x) <=> (Holds(tracepoints, x) \/ Holds(p, x))
  BY <1>13 DEF Joined
<1>15. Disjoint(tracepoints', returned)
  BY <1>10, <1>11, <1>14 DEF Disjoint, Collected
<1>16. TraceType'
  BY <1>1, <1>3, <1>4, <1>13 DEF TraceType
<1>17. Timestamps'
  BY <1>1, <1>3 DEF Timestamps
<1>18. RingHolds'
  <2>1. /\ currNum'[t] <= Len(written'[t])
        /\ \A j \in Recent(t)' : ring'[t][j % kBufferPoints] = written'[t][Before(t)' + j + 1]
        /\ \A i \in 0 .. (kBufferPoints - 1) : i < currNum'[t] => \E j \in Recent(t)' : j % kBufferPoints = i
    <3>1. Recent(t)' = {} /\ 0 <= Len(written'[t])
      <4>1. 0 .. (0 - 1) = {}
        OBVIOUS
      <4> QED
        BY <1>3, <1>4, <1>6, <4>1 DEF Recent
    <3> QED
      BY <1>4, <3>1
  <2>2. ASSUME NEW u \in Tracers, u # t
        PROVE  /\ currNum'[u] <= Len(written'[u])
               /\ \A j \in Recent(u)' : ring'[u][j % kBufferPoints] = written'[u][Before(u)' + j + 1]
               /\ \A i \in 0 .. (kBufferPoints - 1) : i < currNum'[u] => \E j \in Recent(u)' : j % kBufferPoints = i
    <3>1. Recent(u)' = Recent(u) /\ ring'[u] = ring[u] /\ currNum'[u] = currNum[u] /\ written'[u] = written[u]
      BY <1>3, <1>4, <2>2 DEF Recent
    <3> QED
      BY <1>1, <1>7, <2>2, <3>1 DEF RingHolds
  <2> QED
    BY <2>1, <2>2 DEF RingHolds
<1>19. ASSUME NEW x, Holds(tracepoints', x) \/ Holds(returned, x)
       PROVE  \E u \in Tracers : \E i \in 1 .. Len(written[u]) : i <= Before(u)' /\ written[u][i] = x
  <2>1. CASE Holds(p, x)
    <3>1. PICK i \in 1 .. Len(written[t]) : written[t][i] = x
      BY <1>10, <2>1 DEF Holds
    <3>2. i <= Before(t)'
      BY <1>6, <1>7
    <3> QED
      BY <3>1, <3>2
  <2>2. CASE ~Holds(p, x)
    <3>1. Collected(x)
      BY <1>14, <1>19, <2>2 DEF Collected
    <3>2. PICK u \in Tracers : \E i \in 1 .. Len(written[u]) : i <= Before(u) /\ written[u][i] = x
      BY <1>1, <3>1 DEF Flushes
    <3>3. PICK i \in 1 .. Len(written[u]) : i <= Before(u) /\ written[u][i] = x
      BY <3>2
    <3>4. i <= Before(u)'
      <4>1. CASE u = t
        BY <1>6, <1>7, <4>1
      <4>2. CASE u # t
        BY <1>7, <3>3, <4>2
      <4> QED
        BY <4>1, <4>2
    <3> QED
      BY <3>3, <3>4
  <2> QED
    BY <2>1, <2>2
<1>20. ASSUME NEW u \in Tracers, NEW i \in 1 .. Len(written[u]), i <= Before(u)'
       PROVE  \/ Holds(tracepoints', written[u][i]) \/ Holds(returned, written[u][i])
              \/ i + kBufferPoints <= Len(written[u])
  <2>1. CASE i <= Before(u)
    <3>1. Collected(written[u][i]) \/ i + kBufferPoints <= Len(written[u])
      BY <1>1, <2>1 DEF Flushes
    <3> QED
      BY <1>14, <3>1 DEF Collected
  <2>2. CASE ~(i <= Before(u))
    <3>1. u = t
      BY <1>7, <1>20, <2>2
    <3>2. i > Before(t)
      BY <1>6, <2>2, <3>1
    <3>3. CASE i + kBufferPoints > Len(written[t])
      BY <1>5, <1>14, <3>1, <3>2, <3>3
    <3>4. CASE ~(i + kBufferPoints > Len(written[t]))
      <4>1. kBufferPoints \in Nat /\ Len(written[t]) \in Nat
        BY <1>6, BufferAssumption
      <4> QED
        BY <3>1, <3>4, <4>1
    <3> QED
      BY <3>3, <3>4
  <2> QED
    BY <2>1, <2>2
<1>21. Flushes'
  BY <1>3, <1>11, <1>13, <1>15, <1>19, <1>20 DEF Flushes, Collected
<1>22. ASSUME NEW u \in Tracers, NEW x, NEW y,
              Holds(written[u], x), Holds(returned, x), Holds(written[u], y), Holds(tracepoints', y)
       PROVE  x < y
  <2>1. CASE Holds(tracepoints, y)
    BY <1>1, <1>22, <2>1 DEF InOrder
  <2>2. CASE Holds(p, y)
    <3>1. u = t
      BY <1>1, <1>10, <1>22, <2>2 DEF Timestamps, Disjoint
    <3>2. PICK i \in 1 .. Len(written[t]) : i > Before(t) /\ written[t][i] = y
      BY <1>5, <2>2
    <3>3. PICK j \in 1 .. Len(written[t]) : j <= Before(t) /\ written[t][j] = x
      <4>1. Collected(x) /\ Holds(written[t], x)
        BY <1>22, <3>1 DEF Collected
      <4> QED
        BY <1>1, <4>1, CollectedBefore
    <3>4. j < i
      BY <1>6, <3>2, <3>3
    <3> QED
      BY <1>8, <3>2, <3>3, <3>4
  <2> QED
    BY <1>14, <1>22, <2>1, <2>2
<1>23. InOrder'
  <2>1. \A u \in Tracers : \A i, j \in 1 .. Len(returned') :
          i < j /\ Holds(written'[u], returned'[i]) /\ Holds(written'[u], returned'[j]) => returned'[i] < returned'[j]
    BY <1>1, <1>3 DEF InOrder
  <2>2. \A u \in Tracers : \A x, y :
          Holds(written'[u], x) /\ Holds(returned', x) /\ Holds(written'[u], y) /\ Holds(tracepoints', y) => x < y
    BY <1>3, <1>22
  <2> QED
    BY <2>1, <2>2 DEF InOrder
<1>24. Nesting'
  BY <1>1, <1>3 DEF Nesting
<1> QED
  BY <1>16, <1>17, <1>18, <1>21, <1>23, <1>24 DEF TraceInv

\* getAllTracepoints() returns what was collected, in the order of time.
LEMMA FinishReturns ==
  ASSUME TraceInv, Tracer!FinishGetAll
  PROVE  TraceInv'
<1>1. TraceType /\ Timestamps /\ RingHolds /\ Flushes /\ InOrder /\ Nesting
  BY DEF TraceInv
<1>2. PICK s \in Tracer!Sorted(tracepoints) : returned' = returned \o s
  BY DEF Tracer!FinishGetAll
<1>3. /\ tracepoints' = <<>> /\ written' = written /\ ring' = ring /\ currNum' = currNum
      /\ clock' = clock /\ request' = request /\ blocks' = blocks
  BY DEF Tracer!FinishGetAll
<1>4. /\ tracepoints \in Seq(Nat) /\ returned \in Seq(Nat)
      /\ Distinct(tracepoints) /\ Distinct(returned) /\ Disjoint(tracepoints, returned)
  BY <1>1 DEF TraceType, Flushes
<1>5. /\ s \in Seq(Nat) /\ Distinct(s) /\ (\A x : Holds(s, x) <=> Holds(tracepoints, x))
      /\ \A i, j \in 1 .. Len(s) : i < j => s[i] < s[j]
  BY <1>2, <1>4, SortedHolds
<1>6. Disjoint(returned, s)
  BY <1>4, <1>5 DEF Disjoint
<1>7. returned' \in Seq(Nat) /\ Joined(returned', returned, s) /\ Distinct(returned')
  BY ONLY <1>2, <1>4, <1>5, <1>6, ConcatHolds
<1>8. tracepoints' \in Seq(Nat) /\ Distinct(tracepoints') /\ \A x : ~Holds(tracepoints', x)
  BY <1>3 DEF Holds, Distinct
<1>9. \A x : Collected(x)' <=> Collected(x)
  BY <1>5, <1>7, <1>8 DEF Joined, Collected
<1>10. \A u \in Tracers : Before(u)' = Before(u) /\ Recent(u)' = Recent(u)
  BY <1>3 DEF Before, Recent
<1>11. TraceType'
  BY <1>1, <1>3, <1>7, <1>8 DEF TraceType
<1>12. Timestamps' /\ Nesting'
  BY <1>1, <1>3 DEF Timestamps, Nesting
<1>13. RingHolds'
  BY <1>1, <1>3, <1>10 DEF RingHolds
<1>14. Flushes'
  <2>1. Disjoint(tracepoints', returned')
    BY <1>8 DEF Disjoint
  <2>2. \A x : Collected(x)' => \E t \in Tracers : \E i \in 1 .. Len(written'[t]) : i <= Before(t)' /\ written'[t][i] = x
    BY <1>1, <1>3, <1>9, <1>10 DEF Flushes
  <2>3. ASSUME NEW t \in Tracers, NEW i \in 1 .. Len(written[t]), i <= Before(t), NEW x, x = written[t][i]
        PROVE  Holds(tracepoints', x) \/ Holds(returned', x) \/ i + kBufferPoints <= Len(written[t])
    <3>1. Collected(x) \/ i + kBufferPoints <= Len(written[t])
      BY <1>1, <2>3 DEF Flushes
    <3> QED
      BY <1>9, <3>1 DEF Collected
  <2> QED
    BY <1>3, <1>7, <1>8, <1>10, <2>1, <2>2, <2>3 DEF Flushes, Collected
<1>15. ASSUME NEW u \in Tracers, NEW i \in 1 .. Len(returned'), NEW j \in 1 .. Len(returned'), i < j,
              Holds(written[u], returned'[i]), Holds(written[u], returned'[j])
       PROVE  returned'[i] < returned'[j]
  <2>1. PICK m, n, r : m = Len(returned) /\ n = Len(s) /\ r = returned'
    OBVIOUS
  <2>2. m \in Nat /\ n \in Nat /\ Len(r) = m + n /\ \A k \in 1 .. (m + n) : r[k] = IF k <= m THEN returned[k] ELSE s[k - m]
    BY ONLY <1>2, <1>4, <1>5, <2>1
  <2>3. i \in 1 .. (m + n) /\ j \in 1 .. (m + n)
    BY <2>1, <2>2
  <2>4. CASE i <= m /\ j <= m
    <3>1. i \in 1 .. m /\ j \in 1 .. m /\ r[i] = returned[i] /\ r[j] = returned[j]
      BY <2>2, <2>3, <2>4
    <3> QED
      BY <1>1, <1>15, <2>1, <3>1 DEF InOrder
  <2>5. CASE i <= m /\ ~(j <= m)
    <3>1. i \in 1 .. m /\ j - m \in 1 .. n /\ r[i] = returned[i] /\ r[j] = s[j - m]
      BY <2>2, <2>3, <2>5
    <3>2. Holds(returned, r[i]) /\ Holds(s, r[j])
      BY <2>1, <3>1 DEF Holds
    <3>3. Holds(tracepoints, r[j])
      BY <1>5, <3>2
    <3> QED
      BY <1>1, <1>15, <2>1, <3>2, <3>3 DEF InOrder
  <2>6. CASE ~(i <= m)
    <3>1. i - m \in 1 .. n /\ j - m \in 1 .. n /\ r[i] = s[i - m] /\ r[j] = s[j - m] /\ i - m < j - m
      BY <1>15, <2>2, <2>3, <2>6
    <3> QED
      BY <1>5, <2>1, <3>1
  <2> QED
    BY <2>4, <2>5, <2>6
<1>16. InOrder'
  <2>1. \A u \in Tracers : \A i, j \in 1 .. Len(returned') :
          i < j /\ Holds(written'[u], returned'[i]) /\ Holds(written'[u], returned'[j]) => returned'[i] < returned'[j]
    BY <1>3, <1>15
  <2>2. \A u \in Tracers : \A x, y :
          Holds(written'[u], x) /\ Holds(returned', x) /\ Holds(written'[u], y) /\ Holds(tracepoints', y) => x < y
    BY <1>8
  <2> QED
    BY <2>1, <2>2 DEF InOrder
<1> QED
  BY <1>11, <1>12, <1>13, <1>14, <1>16 DEF TraceInv

\* A block that opens is inside the one that was open ...
LEMMA OpenNests ==
  ASSUME TraceInv, NEW t \in Tracers, Tracer!OpenBlock(t)
  PROVE  /\ request' \in [Tracers -> Nat] /\ blocks' \in [Tracers -> Seq(Nat \X Nat)] /\ Nesting'
<1>1. TraceType /\ Nesting
  BY DEF TraceInv
<1>2. PICK s, n, c, q, v : s = blocks[t] /\ n = Len(s) /\ c = clock + 1 /\ q = request[t] /\ v = Append(s, <<c, q>>)
  OBVIOUS
<1>3. s \in Seq(Nat \X Nat) /\ n \in Nat /\ c \in Nat /\ q \in Nat
  BY <1>1, <1>2 DEF TraceType
<1>4. blocks' = [blocks EXCEPT ![t] = v] /\ request' = [request EXCEPT ![t] = c]
  BY <1>2 DEF Tracer!OpenBlock
<1>5. <<c, q>> \in Nat \X Nat /\ <<c, q>>[1] = c /\ <<c, q>>[2] = q
  BY <1>3
<1>6. v \in Seq(Nat \X Nat) /\ Len(v) = n + 1 /\ v[n + 1] = <<c, q>> /\ \A i \in 1 .. n : v[i] = s[i]
  BY ONLY <1>2, <1>3, <1>5
<1>7. /\ request' \in [Tracers -> Nat] /\ request'[t] = c /\ \A u \in Tracers : u # t => request'[u] = request[u]
  BY <1>1, <1>3, <1>4 DEF TraceType
<1>8. /\ blocks' \in [Tracers -> Seq(Nat \X Nat)] /\ blocks'[t] = v /\ \A u \in Tracers : u # t => blocks'[u] = blocks[u]
  BY <1>1, <1>4, <1>6 DEF TraceType
<1>9. /\ q = IF s = <<>> THEN 0 ELSE s[n][1]
      /\ \A i \in 1 .. n : s[i][2] = IF i = 1 THEN 0 ELSE s[i - 1][1]
  BY <1>1, <1>2 DEF Nesting, Nested
<1>10. v # <<>> /\ v[Len(v)][1] = c
  BY <1>3, <1>5, <1>6
<1>11. ASSUME NEW i \in 1 .. (n + 1) PROVE v[i][2] = IF i = 1 THEN 0 ELSE v[i - 1][1]
  <2>1. CASE i = n + 1
    <3>1. v[i][2] = q
      BY <1>5, <1>6, <2>1
    <3>2. CASE n = 0
      <4>1. s = <<>> /\ i = 1
        <5>1. Len(s) = 0
          BY <1>2, <3>2
        <5>2. s = <<>>
          BY ONLY <1>3, <5>1
        <5> QED
          BY <1>3, <2>1, <3>2, <5>2
      <4> QED
        BY <1>9, <3>1, <4>1
    <3>3. CASE n # 0
      <4>1. s # <<>> /\ i # 1 /\ i - 1 = n /\ n \in 1 .. n
        BY <1>2, <1>3, <2>1, <3>3
      <4> QED
        BY <1>6, <1>9, <3>1, <4>1
    <3> QED
      BY <3>2, <3>3
  <2>2. CASE i # n + 1
    <3>1. i \in 1 .. n
      BY <1>3, <2>2
    <3>2. CASE i = 1
      BY <1>6, <1>9, <3>1, <3>2
    <3>3. CASE i # 1
      <4>1. i - 1 \in 1 .. n
        BY <1>3, <3>1, <3>3
      <4> QED
        BY <1>6, <1>9, <3>1, <3>3, <4>1
    <3> QED
      BY <3>2, <3>3
  <2> QED
    BY <2>1, <2>2
<1>12. ASSUME NEW u \in Tracers PROVE Nested(request'[u], blocks'[u])
  <2>1. CASE u = t
    <3>1. Nested(c, v)
      BY <1>6, <1>10, <1>11 DEF Nested
    <3> QED
      BY <1>7, <1>8, <2>1, <3>1
  <2>2. CASE u # t
    BY <1>1, <1>7, <1>8, <2>2 DEF Nesting
  <2> QED
    BY <2>1, <2>2
<1> QED
  BY <1>7, <1>8, <1>12 DEF Nesting

\* ... and the one around it is open again when it closes.
LEMMA CloseNests ==
  ASSUME TraceInv, NEW t \in Tracers, Tracer!CloseBlock(t)
  PROVE  /\ request' \in [Tracers -> Nat] /\ blocks' \in [Tracers -> Seq(Nat \X Nat)] /\ Nesting'
<1>1. TraceType /\ Nesting
  BY DEF TraceInv
<1>2. PICK s, n, q, v : s = blocks[t] /\ n = Len(s) /\ q = s[n][2] /\ v = SubSeq(s, 1, n - 1)
  OBVIOUS
<1>3. s \in Seq(Nat \X Nat) /\ s # <<>> /\ n \in Nat /\ n >= 1
  <2>1. s \in Seq(Nat \X Nat) /\ s # <<>>
    BY <1>1, <1>2 DEF TraceType, Tracer!CloseBlock
  <2> QED
    BY <1>2, <2>1
<1>4. blocks' = [blocks EXCEPT ![t] = v] /\ request' = [request EXCEPT ![t] = q]
  BY <1>2 DEF Tracer!CloseBlock, Tracer!Last, Tracer!Front
<1>5. n \in 1 .. n /\ s[n] \in Nat \X Nat
  BY <1>2, <1>3
<1>6. q \in Nat
  BY <1>2, <1>5
<1>7. v \in Seq(Nat \X Nat) /\ Len(v) = n - 1 /\ \A i \in 1 .. (n - 1) : v[i] = s[i]
  BY ONLY <1>2, <1>3
<1>8. /\ request' \in [Tracers -> Nat] /\ request'[t] = q /\ \A u \in Tracers : u # t => request'[u] = request[u]
  BY <1>1, <1>4, <1>6 DEF TraceType
<1>9. /\ blocks' \in [Tracers -> Seq(Nat \X Nat)] /\ blocks'[t] = v /\ \A u \in Tracers : u # t => blocks'[u] = blocks[u]
  BY <1>1, <1>4, <1>7 DEF TraceType
<1>10. \A i \in 1 .. n : s[i][2] = IF i = 1 THEN 0 ELSE s[i - 1][1]
  BY <1>1, <1>2 DEF Nesting, Nested
<1>11. q = IF v = <<>> THEN 0 ELSE v[Len(v)][1]
  <2>1. q = IF n = 1 THEN 0 ELSE s[n - 1][1]
    BY <1>2, <1>5, <1>10
  <2>2. CASE n = 1
    BY <1>7, <2>1, <2>2
  <2>3. CASE n # 1
    <3>1. n - 1 \in 1 .. (n - 1) /\ v # <<>>
      BY <1>3, <1>7, <2>3
    <3> QED
      BY <1>7, <2>1, <2>3, <3>1
  <2> QED
    BY <2>2, <2>3
<1>12. ASSUME NEW i \in 1 .. (n - 1) PROVE v[i][2] = IF i = 1 THEN 0 ELSE v[i - 1][1]
  <2>1. i \in 1 .. n
    BY <1>3
  <2>2. CASE i = 1
    BY <1>7, <1>10, <2>1, <2>2
  <2>3. CASE i # 1
    <3>1. i - 1 \in 1 .. (n - 1)
      BY <1>3, <2>3
    <3> QED
      BY <1>7, <1>10, <2>1, <2>3, <3>1
  <2> QED
    BY <2>2, <2>3
<1>13. ASSUME NEW u \in Tracers PROVE Nested(request'[u], blocks'[u])
  <2>1. CASE u = t
    <3>1. Nested(q, v)
      BY <1>7, <1>11, <1>12 DEF Nested
    <3> QED
      BY <1>8, <1>9, <2>1, <3>1
  <2>2. CASE u # t
    BY <1>1, <1>8, <1>9, <2>2 DEF Nesting
  <2> QED
    BY <2>1, <2>2
<1> QED
  BY <1>8, <1>9, <1>13 DEF Nesting

LEMMA BlockTraces ==
  ASSUME TraceInv, NEW t \in Tracers, Tracer!OpenBlock(t) \/ Tracer!CloseBlock(t)
  PROVE  TraceInv'
<1>1. TraceType /\ Timestamps /\ RingHolds
  BY DEF TraceInv
<1>2. Tracer!Trace(t) /\ tracepoints' = tracepoints /\ returned' = returned
  BY DEF Tracer!OpenBlock, Tracer!CloseBlock
<1>3. Timestamps' /\ RingHolds' /\ Flushes' /\ InOrder'
  BY <1>2, TraceCollected
<1>4. request' \in [Tracers -> Nat] /\ blocks' \in [Tracers -> Seq(Nat \X Nat)] /\ Nesting'
  BY OpenNests, CloseNests
<1>5. /\ clock \in Nat /\ clock' = clock + 1 /\ ring' \in [Tracers -> [0 .. (kBufferPoints - 1) -> Nat]]
      /\ currNum' \in [Tracers -> Nat] /\ written' \in [Tracers -> Seq(Nat)]
  <2>1. PICK b, n, w, l, c : b = kBufferPoints /\ n = currNum[t] /\ w = written[t] /\ l = Len(w) /\ c = clock + 1
    OBVIOUS
  <2>2. Wrote(t, b, n, w, l, c)
    BY <1>1, <1>2, <2>1, TraceWrites
  <2> QED
    BY ONLY <2>1, <2>2 DEF Wrote
<1>6. TraceType'
  <2>1. clock' \in Nat
    BY ONLY <1>5
  <2>2. tracepoints' \in Seq(Nat) /\ returned' \in Seq(Nat)
    BY ONLY <1>1, <1>2 DEF TraceType
  <2> QED
    BY ONLY <1>4, <1>5, <2>1, <2>2, Zenon DEF TraceType
<1> QED
  BY <1>3, <1>4, <1>6 DEF TraceInv

LEMMA TraceInit == Tracer!Init => TraceInv
<1> SUFFICES ASSUME Tracer!Init PROVE TraceInv
  OBVIOUS
<1>1. /\ clock = 0 /\ tracepoints = <<>> /\ returned = <<>>
      /\ \A t \in Tracers : currNum[t] = 0 /\ written[t] = <<>> /\ request[t] = 0 /\ blocks[t] = <<>>
  BY DEF Tracer!Init, Tracer!NoBlock
<1>2. TraceType
  <2>1. [i \in 0 .. (kBufferPoints - 1) |-> 0] \in [0 .. (kBufferPoints - 1) -> Nat]
    OBVIOUS
  <2>2. ring \in [Tracers -> [0 .. (kBufferPoints - 1) -> Nat]]
    BY <2>1 DEF Tracer!Init
  <2> QED
    BY <2>2 DEF Tracer!Init, Tracer!NoBlock, TraceType
<1>3. \A x : ~Holds(<<>>, x)
  BY DEF Holds
<1>4. Distinct(<<>>) /\ Disjoint(<<>>, <<>>)
  BY <1>3 DEF Distinct, Disjoint
<1>5. Timestamps
  BY <1>1, <1>4 DEF Timestamps
<1>6. \A t \in Tracers : Recent(t) = {} /\ Before(t) = 0
  <2>1. 0 .. (0 - 1) = {} /\ Len(<<>>) - 0 = 0
    OBVIOUS
  <2> QED
    BY <1>1, <2>1 DEF Recent, Before
<1>7. RingHolds
  BY <1>1, <1>6 DEF RingHolds
<1>8. Flushes
  BY <1>1, <1>3, <1>4 DEF Flushes, Collected
<1>9. InOrder
  BY <1>1, <1>3 DEF InOrder
<1>10. Nesting
  BY <1>1 DEF Nesting, Nested
<1> QED
  BY <1>2, <1>5, <1>7, <1>8, <1>9, <1>10 DEF TraceInv

LEMMA TraceStep == TraceInv /\ [Tracer!Next]_(Tracer!tracingVars) => TraceInv'
<1> SUFFICES ASSUME TraceInv, [Tracer!Next]_(Tracer!tracingVars) PROVE TraceInv'
  OBVIOUS
<1>1. CASE UNCHANGED <<clock, ring, currNum, written, request, blocks, tracepoints, returned>>
  <2>1. /\ clock' = clock /\ ring' = ring /\ currNum' = currNum /\ written' = written /\ request' = request
        /\ blocks' = blocks /\ tracepoints' = tracepoints /\ returned' = returned
    BY <1>1
  <2>2. TraceType' /\ Timestamps' /\ Nesting' /\ InOrder'
    BY <2>1 DEF TraceInv, TraceType, Timestamps, Nesting, InOrder
  <2>3. RingHolds'
    BY <2>1 DEF TraceInv, RingHolds, Recent, Before
  <2>4. Flushes'
    BY <2>1 DEF TraceInv, Flushes, Collected, Before
  <2> QED
    BY <2>2, <2>3, <2>4 DEF TraceInv
<1>2. CASE Tracer!Enable
  BY <1>1, <1>2 DEF Tracer!Enable
<1>3. CASE Tracer!StartGetAll
  BY <1>1, <1>3 DEF Tracer!StartGetAll
<1>4. CASE Tracer!FinishGetAll
  BY <1>4, FinishReturns
<1>5. ASSUME NEW t \in Tracers, Tracer!OpenBlock(t) PROVE TraceInv'
  BY <1>5, BlockTraces
<1>6. ASSUME NEW t \in Tracers, Tracer!CloseBlock(t) PROVE TraceInv'
  BY <1>6, BlockTraces
<1>7. ASSUME NEW t \in Tracers, Tracer!ThreadEnds(t) PROVE TraceInv'
  <2>1. Tracer!Flush(t) /\ UNCHANGED <<clock, ring, written, request, blocks, returned>>
    BY <1>7 DEF Tracer!ThreadEnds
  <2> QED
    BY <2>1, FlushCollects
<1>8. ASSUME NEW t \in Tracers, Tracer!FlushOne(t) PROVE TraceInv'
  <2>1. Tracer!Flush(t) /\ UNCHANGED <<clock, ring, written, request, blocks, returned>>
    BY <1>8 DEF Tracer!FlushOne
  <2> QED
    BY <2>1, FlushCollects
<1>9. CASE UNCHANGED Tracer!tracingVars
  BY <1>1, <1>9 DEF Tracer!tracingVars
<1> QED
  BY <1>2, <1>3, <1>4, <1>5, <1>6, <1>7, <1>8, <1>9 DEF Tracer!Next

\* Of what the invariant says of rings and flushes, what a reader of the tracepoints sees.
LEMMA TraceResult == TraceInv => TracepointsOnce
<1> SUFFICES ASSUME TraceInv PROVE TracepointsOnce
  OBVIOUS
<1>1. TraceType /\ Timestamps /\ RingHolds /\ Flushes /\ InOrder /\ Nesting
  BY DEF TraceInv
<1>2. PICK collected : collected = tracepoints \o returned
  OBVIOUS
<1>3. PICK kept : kept = UNION {Tracer!Range(Tracer!Points(t)) : t \in Tracers}
  OBVIOUS
<1>4. /\ collected \in Seq(Nat) /\ Distinct(collected) /\ \A x : Holds(collected, x) <=> Collected(x)
  <2>1. /\ tracepoints \in Seq(Nat) /\ returned \in Seq(Nat)
        /\ Distinct(tracepoints) /\ Distinct(returned) /\ Disjoint(tracepoints, returned)
    BY <1>1 DEF TraceType, Flushes
  <2>2. collected \in Seq(Nat) /\ Joined(collected, tracepoints, returned) /\ Distinct(collected)
    BY ONLY <1>2, <2>1, ConcatHolds
  <2> QED
    BY <2>2 DEF Joined, Collected
<1>5. \A s \in Seq(Nat) : \A x : x \in Tracer!Range(s) <=> Holds(s, x)
  BY DEF Tracer!Range, Holds
<1>6. Tracer!IsInjective(collected)
  BY <1>4 DEF Tracer!IsInjective, Distinct
<1>7. ASSUME NEW t \in Tracers, NEW x
      PROVE  x \in Tracer!Range(Tracer!Points(t)) <=>
               \E i \in 1 .. Len(written[t]) :
                 i > Before(t) /\ i + kBufferPoints > Len(written[t]) /\ written[t][i] = x
  <2>1. PICK p : p = Tracer!Points(t)
    OBVIOUS
  <2>2. /\ p \in Seq(Nat)
        /\ Holds(p, x) <=> \E i \in 1 .. Len(written[t]) :
                             i > Before(t) /\ i + kBufferPoints > Len(written[t]) /\ written[t][i] = x
    BY <1>1, <2>1, RingPoints
  <2> QED
    BY <1>5, <2>1, <2>2
<1>8. ASSUME NEW t \in Tracers PROVE Len(written[t]) \in Nat /\ Before(t) \in Nat /\ written[t] \in Seq(Nat)
  <2>1. written[t] \in Seq(Nat) /\ currNum[t] \in Nat /\ currNum[t] <= Len(written[t])
    BY <1>1 DEF TraceType, RingHolds
  <2> QED
    BY <2>1 DEF Before
<1>9. Tracer!Range(collected) \cap kept = {}
  <2> SUFFICES ASSUME NEW x, x \in Tracer!Range(collected), x \in kept PROVE FALSE
    OBVIOUS
  <2>1. PICK t \in Tracers : x \in Tracer!Range(Tracer!Points(t))
    BY <1>3
  <2>2. PICK i \in 1 .. Len(written[t]) : i > Before(t) /\ written[t][i] = x
    BY <1>7, <2>1
  <2>3. Holds(written[t], x) /\ Collected(x)
    BY <1>4, <1>5, <2>2 DEF Holds
  <2>4. PICK j \in 1 .. Len(written[t]) : j <= Before(t) /\ written[t][j] = x
    BY <1>1, <2>3, CollectedBefore
  <2>5. j < i
    BY <1>8, <2>2, <2>4
  <2>6. written[t][j] < written[t][i] /\ written[t][i] \in Nat
    <3>1. \A a, b \in 1 .. Len(written[t]) : a < b => written[t][a] < written[t][b]
      BY <1>1, Zenon DEF Timestamps
    <3>2. written[t] \in Seq(Nat)
      BY <1>8
    <3> QED
      BY ONLY <2>5, <3>1, <3>2
  <2>7. x < x /\ x \in Nat
    BY ONLY <2>2, <2>4, <2>6
  <2> QED
    BY ONLY <2>7
<1>10. ASSUME NEW t \in Tracers, NEW i \in 1 .. Len(written[t]), written[t][i] \notin Tracer!Range(collected) \cup kept
       PROVE  Len(written[t]) >= i + kBufferPoints
  <2>1. ~Collected(written[t][i])
    BY <1>4, <1>5, <1>10
  <2>2. kBufferPoints \in Nat
    BY BufferAssumption
  <2>3. CASE i <= Before(t)
    <3>1. i + kBufferPoints <= Len(written[t])
      BY <1>1, <2>1, <2>3 DEF Flushes
    <3> QED
      BY <1>8, <2>2, <3>1
  <2>4. CASE ~(i <= Before(t))
    <3>1. i > Before(t)
      BY <1>8, <2>4
    <3>2. written[t][i] \notin Tracer!Range(Tracer!Points(t))
      BY <1>3, <1>10
    <3>3. ~(i + kBufferPoints > Len(written[t]))
      BY <1>7, <3>1, <3>2
    <3> QED
      BY <1>8, <2>2, <3>3
  <2> QED
    BY <2>3, <2>4
<1>11. ASSUME NEW t \in Tracers, NEW i \in 1 .. Len(returned), NEW j \in 1 .. Len(returned),
              i < j, {returned[i], returned[j]} \subseteq Tracer!Range(written[t])
       PROVE  returned[i] < returned[j]
  <2>1. Holds(written[t], returned[i]) /\ Holds(written[t], returned[j])
    BY <1>5, <1>8, <1>11
  <2> QED
    BY <1>1, <1>11, <2>1 DEF InOrder
<1>12. \A t \in Tracers : request[t] = IF blocks[t] = <<>> THEN Tracer!NoBlock ELSE Tracer!Last(blocks[t])[1]
  BY <1>1 DEF Nesting, Nested, Tracer!NoBlock, Tracer!Last
<1> QED
  BY <1>2, <1>3, <1>6, <1>9, <1>10, <1>11, <1>12 DEF TracepointsOnce, Tracer!TracepointsOnce

\* Tracing.cpp:13-36, Tracing.h:63-80: while threads write, end and are flushed one by one, a
\* tracepoint is returned once and in its thread's order of time, unless kBufferPoints
\* later ones of its thread overwrote it before it was flushed; and the request of a
\* thread knows the innermost open block.
THEOREM TracepointsReturnedOnce == Tracer!Spec => []TracepointsOnce
<1>1. Tracer!Spec => []TraceInv
  BY TraceInit, TraceStep, PTL DEF Tracer!Spec
<1> QED
  BY <1>1, TraceResult, PTL

-----------------------------------------------------------------------------
(* ImmediateFuture *)

Settled == {"value", "error"} \X Nat
Outcome == Settled \cup {Future!Unset}

OpRecord ==
  {op \in [on : Future!Methods, does : {"value", "throw", "future"}, awaits : 0 .. Future!LastPromise, id : Nat] :
     op.does = "future" => op.awaits # 0}
FutureRecord ==
  [kind : {"Immediate", "SemiFuture", "LazySemiFuture", "Nothing"}, from : 0 .. Future!LastPromise,
   try : Outcome, deferred : Seq(OpRecord)]
SourceRecord ==
  {s \in [type : {"try", "promise", "lazy", "empty"}, try : Outcome, from : 0 .. Count] :
     /\ s.type = "promise" <=> s.from # 0
     /\ s.type \in {"try", "lazy"} => s.try # Future!Unset}
ChainRecord == [source : SourceRecord, ops : Seq(OpRecord), ran : Seq(Nat)]

\* What a future that waits for a promise, or holds a Try, has when the promises are pr.
Reads(pr, f) == IF f.from = 0 THEN f.try ELSE pr[f.from]

\* What the m-th continuation of the chain returned, if w[k] is what the k-th came to.
Last(c, w, m) == IF m = 0 THEN c.source ELSE Future!Continue(c.ops[m], w[m - 1])

\* w is the plain composition of the first m continuations, all but the last with a result.
Composes(pr, c, w, m) ==
  /\ w[0] = Reads(pr, c.source)
  /\ \A k \in 1 .. m : w[k] = Reads(pr, Future!Continue(c.ops[k], w[k - 1]))
  /\ \A k \in 0 .. (m - 1) : w[k] # Future!Unset

\* The future is where the composition is: it holds the last result, or waits for the same promise.
Reached(pr, c, f, w, m) ==
  /\ Reads(pr, f) = w[m]
  /\ f.from # 0 => f.from = Last(c, w, m).from
  /\ f.from = 0 => f.try # Future!Unset

\* The callbacks that have run are those of the composition.
Logged(c, w, m) ==
  \A x : x \in Future!Range(c.ran) <=> \E k \in 1 .. m : x = c.ops[k].id /\ Future!Calls(c.ops[k], w[k - 1])

Increases(s) == \A a, b \in DOMAIN s : a < b => s[a] < s[b]
IdsIncrease(c) == \A a, b \in DOMAIN c.ops : a < b => c.ops[a].id < c.ops[b].id

\* What is left to do is the rest of the chain.
Left(c, f, m) ==
  /\ m \in 0 .. Len(c.ops) /\ Len(f.deferred) = Len(c.ops) - m
  /\ \A k \in 1 .. Len(f.deferred) : f.deferred[k] = c.ops[m + k]

\* A future that is not empty and its chain.
Follows(pr, c, f, w, m) ==
  /\ Left(c, f, m) /\ IdsIncrease(c) /\ Increases(c.ran)
  /\ Composes(pr, c, w, m) /\ Reached(pr, c, f, w, m) /\ Logged(c, w, m)
Sound(pr, c, f) == \E w : \E m \in Nat : Follows(pr, c, f, w, m)

LEMMA SettledNotUnset == Future!Unset \notin Settled
BY DEF Future!Unset, Settled

LEMMA LastPromiseNat == Future!LastPromise \in Nat \ {0} /\ Future!LastPromise = Count + 1 /\ Future!Promises = 1 .. Future!LastPromise
BY CountAssumption DEF Future!LastPromise, Future!Promises

\* A continuation gives a future that waits for a promise or has a result.
LEMMA ContinueSound ==
  ASSUME NEW op \in OpRecord, NEW try \in Settled, NEW f, f = Future!Continue(op, try)
  PROVE  /\ f \in FutureRecord /\ f.kind = "SemiFuture" /\ f.deferred = <<>>
         /\ f.from = 0 => f.try \in Settled
<1>1. /\ op.does \in {"value", "throw", "future"} /\ op.id \in Nat /\ op.awaits \in 0 .. Future!LastPromise
      /\ op.does = "future" => op.awaits # 0
  BY DEF OpRecord
<1>2. 0 \in 0 .. Future!LastPromise /\ Future!Maker(op) \in Nat
  BY <1>1, LastPromiseNat DEF Future!Maker
<1>3. PICK from, t : /\ f = [kind |-> "SemiFuture", from |-> from, try |-> t, deferred |-> <<>>]
                     /\ from \in 0 .. Future!LastPromise /\ t \in Outcome
                     /\ from = 0 => t \in Settled
  <2>1. CASE ~Future!Calls(op, try)
    <3>1. f = [kind |-> "SemiFuture", from |-> 0, try |-> try, deferred |-> <<>>]
      BY <2>1 DEF Future!Continue, Future!Semi
    <3> QED
      BY <1>2, <3>1 DEF Outcome
  <2>2. CASE Future!Calls(op, try) /\ op.does = "throw"
    <3>1. f = [kind |-> "SemiFuture", from |-> 0, try |-> <<"error", Future!Maker(op)>>, deferred |-> <<>>]
      BY <2>2 DEF Future!Continue, Future!Semi
    <3>2. <<"error", Future!Maker(op)>> \in Settled
      BY <1>2 DEF Settled
    <3> QED
      BY <1>2, <3>1, <3>2 DEF Outcome
  <2>3. CASE Future!Calls(op, try) /\ op.does = "value"
    <3>1. f = [kind |-> "SemiFuture", from |-> 0,
               try |-> IF op.on = "ensure" THEN try ELSE <<"value", Future!Maker(op)>>, deferred |-> <<>>]
      BY <2>3 DEF Future!Continue, Future!Semi
    <3>2. <<"value", Future!Maker(op)>> \in Settled
      BY <1>2 DEF Settled
    <3> QED
      BY <1>2, <3>1, <3>2 DEF Outcome
  <2>4. CASE Future!Calls(op, try) /\ op.does = "future"
    <3>1. f = [kind |-> "SemiFuture", from |-> op.awaits, try |-> Future!Unset, deferred |-> <<>>]
      BY <2>4 DEF Future!Continue, Future!Semi
    <3> QED
      BY <1>1, <2>4, <3>1 DEF Outcome
  <2> QED
    BY <1>1, <2>1, <2>2, <2>3, <2>4
<1>4. <<>> \in Seq(OpRecord)
  OBVIOUS
<1> QED
  BY ONLY <1>3, <1>4 DEF FutureRecord

\* The next callback of a chain runs, now or later, on what the composition has come to.
LEMMA CallbackRuns ==
  ASSUME NEW pr, NEW c \in ChainRecord, NEW f \in FutureRecord, NEW w, NEW m \in Nat,
         Follows(pr, c, f, w, m), w[m] # Future!Unset,
         NEW d \in ChainRecord, NEW g \in FutureRecord, NEW op, NEW h, h = Future!Continue(op, w[m]),
         d.source = c.source, IdsIncrease(d), Left(d, g, m + 1),
         \A k \in 1 .. m : d.ops[k] = c.ops[k], op = d.ops[m + 1],
         d.ran = Future!Log(c.ran, op, w[m]),
         Reads(pr, g) = Reads(pr, h), g.from # 0 => g.from = h.from, g.from = 0 => g.try # Future!Unset
  PROVE  Sound(pr, d, g)
<1>1. PICK v : v = [k \in Nat |-> IF k = m + 1 THEN Reads(pr, h) ELSE w[k]]
  OBVIOUS
<1>2. v[m + 1] = Reads(pr, h) /\ v[m] = w[m] /\ \A k \in 0 .. m : v[k] = w[k]
  BY <1>1
<1>3. Composes(pr, d, v, m + 1)
  <2>1. /\ w[0] = Reads(pr, d.source)
        /\ \A k \in 1 .. m : w[k] = Reads(pr, Future!Continue(d.ops[k], w[k - 1]))
        /\ \A k \in 0 .. (m - 1) : w[k] # Future!Unset
    BY DEF Follows, Composes
  <2>2. v[0] = Reads(pr, d.source)
    BY ONLY <1>2, <2>1, m \in Nat
  <2>3. ASSUME NEW k \in 1 .. (m + 1) PROVE v[k] = Reads(pr, Future!Continue(d.ops[k], v[k - 1]))
    <3>1. CASE k = m + 1
      <4>1. v[k] = Reads(pr, h) /\ v[k - 1] = w[m] /\ d.ops[k] = op
        BY ONLY <1>2, <3>1, m \in Nat, op = d.ops[m + 1]
      <4> QED
        BY ONLY <4>1, h = Future!Continue(op, w[m])
    <3>2. CASE k # m + 1
      <4>1. k \in 1 .. m /\ k \in 0 .. m /\ k - 1 \in 0 .. m
        BY ONLY <2>3, <3>2, m \in Nat
      <4>2. v[k] = w[k] /\ v[k - 1] = w[k - 1]
        BY ONLY <1>2, <4>1
      <4> QED
        BY ONLY <2>1, <4>1, <4>2
    <3> QED
      BY ONLY <3>1, <3>2
  <2>4. ASSUME NEW k \in 0 .. (m + 1 - 1) PROVE v[k] # Future!Unset
    <3>1. k = m \/ k \in 0 .. (m - 1)
      BY ONLY <2>4, m \in Nat
    <3>2. k \in 0 .. m
      BY ONLY <2>4, m \in Nat
    <3> QED
      BY ONLY <1>2, <2>1, <3>1, <3>2, w[m] # Future!Unset
  <2> QED
    BY ONLY <2>2, <2>3, <2>4 DEF Composes
<1>4. Reached(pr, d, g, v, m + 1)
  <2>1. Last(d, v, m + 1) = h
    <3>1. m + 1 # 0 /\ (m + 1) - 1 = m
      BY ONLY m \in Nat
    <3> QED
      BY <1>2, <3>1 DEF Last
  <2> QED
    BY <1>2, <2>1 DEF Reached
<1>5. PICK r, s : r = c.ran /\ s = d.ran
  OBVIOUS
<1>6. r \in Seq(Nat) /\ s \in Seq(Nat) /\ c.ops \in Seq(OpRecord) /\ d.ops \in Seq(OpRecord)
  BY <1>5 DEF ChainRecord
<1>7. m + 1 \in 1 .. Len(d.ops)
  BY DEF Left
<1>8. /\ s = IF Future!Calls(op, w[m]) THEN Append(r, op.id) ELSE r
      /\ op.id \in Nat
  <2>1. op \in OpRecord
    BY <1>6, <1>7
  <2> QED
    BY <1>5, <2>1 DEF Future!Log, OpRecord
<1>9. Logged(d, v, m + 1)
  <2>1. ASSUME NEW x
        PROVE  x \in Future!Range(r) <=> \E k \in 1 .. m : x = d.ops[k].id /\ Future!Calls(d.ops[k], v[k - 1])
    <3>1. x \in Future!Range(r) <=> \E k \in 1 .. m : x = c.ops[k].id /\ Future!Calls(c.ops[k], w[k - 1])
      BY <1>5 DEF Follows, Logged
    <3>2. \A k \in 1 .. m : d.ops[k] = c.ops[k] /\ v[k - 1] = w[k - 1]
      BY <1>2
    <3> QED
      BY ONLY <3>1, <3>2
  <2>2. \A x : x \in Future!Range(s) <=> x \in Future!Range(r) \/ (Future!Calls(op, w[m]) /\ x = op.id)
    <3>1. CASE Future!Calls(op, w[m])
      <4>1. s = Append(r, op.id)
        BY ONLY <1>8, <3>1
      <4>2. Len(r) \in Nat /\ DOMAIN r = 1 .. Len(r) /\ DOMAIN s = 1 .. (Len(r) + 1)
        BY ONLY <1>6, <1>8, <4>1
      <4>3. s[Len(r) + 1] = op.id /\ \A j \in 1 .. Len(r) : s[j] = r[j]
        BY ONLY <1>6, <1>8, <4>1
      <4> QED
        BY ONLY <3>1, <4>2, <4>3 DEF Future!Range
    <3>2. CASE ~Future!Calls(op, w[m])
      BY ONLY <1>8, <3>2
    <3> QED
      BY ONLY <3>1, <3>2
  <2>3. ASSUME NEW x
        PROVE  (\E k \in 1 .. (m + 1) : x = d.ops[k].id /\ Future!Calls(d.ops[k], v[k - 1]))
               <=> \/ \E k \in 1 .. m : x = d.ops[k].id /\ Future!Calls(d.ops[k], v[k - 1])
                   \/ x = op.id /\ Future!Calls(op, w[m])
    <3>1. \A k \in 1 .. (m + 1) : k \in 1 .. m \/ k = m + 1
      BY ONLY m \in Nat
    <3>2. /\ \A k \in 1 .. m : k \in 1 .. (m + 1)
          /\ m + 1 \in 1 .. (m + 1) /\ (m + 1) - 1 = m
      BY ONLY m \in Nat
    <3>3. d.ops[m + 1] = op /\ v[(m + 1) - 1] = w[m]
      BY ONLY <1>2, <3>2, op = d.ops[m + 1]
    <3> QED
      BY ONLY <3>1, <3>2, <3>3
  <2> QED
    BY ONLY <1>5, <2>1, <2>2, <2>3 DEF Logged
<1>10. Increases(d.ran)
  <2>1. ASSUME NEW j \in 1 .. Len(r) PROVE r[j] < op.id
    <3>1. r[j] \in Future!Range(r)
      BY <1>6 DEF Future!Range
    <3>2. PICK k \in 1 .. m : r[j] = c.ops[k].id
      BY <1>5, <3>1 DEF Follows, Logged
    <3>3. k \in DOMAIN d.ops /\ m + 1 \in DOMAIN d.ops /\ k < m + 1
      BY ONLY <1>6, <1>7, <3>2, m \in Nat
    <3>4. d.ops[k].id < d.ops[m + 1].id
      BY ONLY <3>3, IdsIncrease(d) DEF IdsIncrease
    <3> QED
      BY <3>2, <3>4
  <2>2. \A a, b \in 1 .. Len(r) : a < b => r[a] < r[b]
    <3>1. Increases(r) /\ DOMAIN r = 1 .. Len(r)
      BY <1>5, <1>6 DEF Follows
    <3> QED
      BY ONLY <3>1 DEF Increases
  <2>3. CASE Future!Calls(op, w[m])
    <3>1. s = Append(r, op.id)
      BY ONLY <1>8, <2>3
    <3>2. /\ Len(r) \in Nat /\ DOMAIN s = 1 .. (Len(r) + 1) /\ s[Len(r) + 1] = op.id
          /\ \A j \in 1 .. Len(r) : s[j] = r[j] 
      BY ONLY <1>6, <1>8, <3>1
    <3>3. ASSUME NEW a \in DOMAIN s, NEW b \in DOMAIN s, a < b PROVE s[a] < s[b]
      <4>1. a \in 1 .. Len(r) /\ (b \in 1 .. Len(r) \/ b = Len(r) + 1)
        BY ONLY <3>2, <3>3
      <4> QED
        BY ONLY <2>1, <2>2, <3>2, <3>3, <4>1
    <3> QED
      BY ONLY <1>5, <3>3 DEF Increases
  <2>4. CASE ~Future!Calls(op, w[m])
    BY <1>5, <1>8, <2>4 DEF Follows
  <2> QED
    BY ONLY <2>3, <2>4
<1> QED
  <2>1. Follows(pr, d, g, v, m + 1)
    BY ONLY <1>3, <1>4, <1>9, <1>10, Left(d, g, m + 1), IdsIncrease(d) DEF Follows
  <2>2. m + 1 \in Nat
    OBVIOUS
  <2> QED
    BY ONLY <2>1, <2>2 DEF Sound

\* A promise that is fulfilled can only be the one that the composition waits for.
LEMMA PromiseFulfilled ==
  ASSUME NEW pr \in [Future!Promises -> Outcome], NEW p \in Future!Promises, pr[p] = Future!Unset,
         NEW t \in Settled, NEW qr, qr = [pr EXCEPT ![p] = t],
         NEW c \in ChainRecord, NEW f \in FutureRecord, Sound(pr, c, f)
  PROVE  Sound(qr, c, f)
<1>1. PICK w, m : m \in Nat /\ Follows(pr, c, f, w, m)
  BY DEF Sound
<1>2. m \in 0 .. Len(c.ops) /\ c.ops \in Seq(OpRecord) /\ c.source \in SourceRecord
  BY <1>1 DEF Follows, Left, ChainRecord
<1>3. /\ w[0] = Reads(pr, c.source)
      /\ \A k \in 1 .. m : w[k] = Reads(pr, Future!Continue(c.ops[k], w[k - 1]))
      /\ \A k \in 0 .. (m - 1) : w[k] # Future!Unset
  BY <1>1 DEF Follows, Composes
<1>4. ASSUME NEW g, g.from \in 0 .. Future!LastPromise, Reads(pr, g) # Future!Unset PROVE Reads(qr, g) = Reads(pr, g)
  <2>1. CASE g.from = 0
    BY ONLY <2>1 DEF Reads
  <2>2. CASE g.from # 0
    <3>1. g.from \in Future!Promises
      BY <1>4, <2>2, LastPromiseNat
    <3>2. g.from # p
      BY <1>4, <2>2 DEF Reads
    <3>3. qr[g.from] = pr[g.from]
      BY <3>1, <3>2
    <3> QED
      BY ONLY <2>2, <3>3 DEF Reads
  <2> QED
    BY ONLY <2>1, <2>2
<1>5. c.source.from \in 0 .. Future!LastPromise
  BY <1>2, LastPromiseNat, CountAssumption DEF SourceRecord
\* Settled or not, a result of the composition is one of the outcomes.
<1>6. w[0] \in Outcome
  <2>1. c.source.try \in Outcome
    BY <1>2 DEF SourceRecord
  <2>2. CASE c.source.from = 0
    BY <1>3, <2>1, <2>2 DEF Reads
  <2>3. CASE c.source.from # 0
    <3>1. c.source.from \in Future!Promises
      BY <1>5, <2>3, LastPromiseNat
    <3> QED
      BY <1>3, <2>3, <3>1 DEF Reads
  <2> QED
    BY ONLY <2>2, <2>3
<1>7. ASSUME NEW k \in 1 .. m, w[k - 1] \in Settled
      PROVE  w[k] \in Outcome /\ Future!Continue(c.ops[k], w[k - 1]).from \in 0 .. Future!LastPromise
  <2>1. PICK h : h = Future!Continue(c.ops[k], w[k - 1])
    OBVIOUS
  <2>2. c.ops[k] \in OpRecord
    <3>1. k \in 1 .. Len(c.ops)
      BY ONLY <1>1, <1>2, <1>7
    <3> QED
      BY ONLY <1>2, <3>1
  <2>3. h \in FutureRecord
    BY ONLY <1>7, <2>1, <2>2, ContinueSound
  <2>4. h.from \in 0 .. Future!LastPromise /\ h.try \in Outcome
    BY <2>3 DEF FutureRecord
  <2>5. w[k] = Reads(pr, h)
    BY <1>3, <2>1
  <2>6. CASE h.from = 0
    BY <2>1, <2>4, <2>5, <2>6 DEF Reads
  <2>7. CASE h.from # 0
    <3>1. h.from \in Future!Promises
      BY <2>4, <2>7, LastPromiseNat
    <3> QED
      BY <2>1, <2>4, <2>5, <2>7, <3>1 DEF Reads
  <2> QED
    BY ONLY <2>6, <2>7
<1>8. \A k \in 0 .. m : w[k] \in Outcome
  <2> DEFINE S == {k \in Nat : k \in 0 .. m /\ w[k] \notin Outcome}
  <2>1. SUFFICES ASSUME S # {} PROVE FALSE
    BY <1>1
  <2>2. PICK k \in S : \A x \in S : k <= x
    <3>1. S \subseteq Nat
      OBVIOUS
    <3> HIDE DEF S
    <3> QED
      BY ONLY <2>1, <3>1, Least
  <2>3. k # 0
    BY <1>6, <2>2
  <2>4. k \in 1 .. m /\ k - 1 \in 0 .. (m - 1) /\ k - 1 \in Nat /\ k - 1 \in 0 .. m /\ k - 1 < k
    BY <1>1, <2>2, <2>3
  <2>5. k - 1 \notin S
    BY <2>2, <2>4
  <2>6. w[k - 1] \in Outcome
    BY <2>4, <2>5
  <2>7. w[k - 1] \in Settled
    BY <1>3, <2>4, <2>6 DEF Outcome
  <2> QED
    BY <1>7, <2>2, <2>4, <2>7
<1>9. \A k \in 0 .. (m - 1) : w[k] \in Settled
  <2>1. \A k \in 0 .. (m - 1) : k \in 0 .. m
    BY <1>1
  <2> QED
    BY <1>3, <1>8, <2>1 DEF Outcome
<1>10. Last(c, w, m).from \in 0 .. Future!LastPromise /\ w[m] = Reads(pr, Last(c, w, m))
  <2>1. CASE m = 0
    BY <1>3, <1>5, <2>1 DEF Last
  <2>2. CASE m # 0
    <3>1. m \in 1 .. m /\ m - 1 \in 0 .. (m - 1)
      BY <1>1, <2>2
    <3> QED
      BY <1>3, <1>7, <1>9, <2>2, <3>1 DEF Last
  <2> QED
    BY ONLY <2>1, <2>2
<1>11. PICK v : v = [k \in Nat |-> IF k = m THEN Reads(qr, Last(c, w, m)) ELSE w[k]]
  OBVIOUS
<1>12. v[m] = Reads(qr, Last(c, w, m)) /\ \A k \in 0 .. (m - 1) : v[k] = w[k]
  BY <1>1, <1>11
<1>13. Composes(qr, c, v, m)
  <2>1. v[0] = Reads(qr, c.source)
    <3>1. CASE m = 0
      BY <1>12, <3>1 DEF Last
    <3>2. CASE m # 0
      <4>1. 0 \in 0 .. (m - 1)
        BY <1>1, <3>2
      <4>2. Reads(pr, c.source) # Future!Unset
        BY <1>3, <4>1
      <4> QED
        BY <1>3, <1>4, <1>5, <1>12, <4>1, <4>2
    <3> QED
      BY ONLY <3>1, <3>2
  <2>2. ASSUME NEW k \in 1 .. m PROVE v[k] = Reads(qr, Future!Continue(c.ops[k], v[k - 1]))
    <3>1. k - 1 \in 0 .. (m - 1)
      BY <1>1, <2>2
    <3>2. v[k - 1] = w[k - 1]
      BY <1>12, <3>1
    <3>3. CASE k = m
      <4>1. m # 0
        BY <1>1, <2>2
      <4> QED
        BY ONLY <1>12, <3>2, <3>3, <4>1 DEF Last
    <3>4. CASE k # m
      <4>1. k \in 0 .. (m - 1)
        BY <1>1, <2>2, <3>4
      <4>2. v[k] = w[k] /\ w[k] # Future!Unset /\ w[k] = Reads(pr, Future!Continue(c.ops[k], w[k - 1]))
        BY ONLY <1>3, <1>12, <2>2, <4>1
      <4>3. Future!Continue(c.ops[k], w[k - 1]).from \in 0 .. Future!LastPromise
        BY ONLY <1>7, <1>9, <2>2, <3>1
      <4> QED
        BY ONLY <1>4, <3>2, <4>2, <4>3
    <3> QED
      BY ONLY <3>3, <3>4
  <2>3. \A k \in 0 .. (m - 1) : v[k] # Future!Unset
    BY ONLY <1>3, <1>12
  <2> QED
    BY ONLY <2>1, <2>2, <2>3 DEF Composes
<1>14. Last(c, v, m) = Last(c, w, m)
  <2>1. CASE m = 0
    BY ONLY <2>1 DEF Last
  <2>2. CASE m # 0
    <3>1. m - 1 \in 0 .. (m - 1)
      BY <1>1, <2>2
    <3> QED
      BY ONLY <1>12, <2>2, <3>1 DEF Last
  <2> QED
    BY ONLY <2>1, <2>2
<1>15. Reached(qr, c, f, v, m)
  <2>1. /\ Reads(pr, f) = w[m]
        /\ f.from # 0 => f.from = Last(c, w, m).from
        /\ f.from = 0 => f.try # Future!Unset
    BY <1>1 DEF Follows, Reached
  <2>2. Reads(qr, f) = v[m]
    <3>1. CASE f.from = 0
      <4>1. Reads(pr, f) # Future!Unset /\ Reads(qr, f) = Reads(pr, f)
        BY ONLY <2>1, <3>1 DEF Reads
      <4>2. Reads(qr, Last(c, w, m)) = w[m]
        BY ONLY <1>4, <1>10, <2>1, <4>1
      <4> QED
        BY ONLY <1>12, <2>1, <4>1, <4>2
    <3>2. CASE f.from # 0
      <4>1. Reads(qr, f) = qr[f.from] /\ Reads(qr, Last(c, w, m)) = qr[f.from]
        BY ONLY <2>1, <3>2 DEF Reads
      <4> QED
        BY ONLY <1>12, <4>1
    <3> QED
      BY ONLY <3>1, <3>2
  <2> QED
    BY ONLY <1>14, <2>1, <2>2 DEF Reached
<1>16. Logged(c, v, m)
  <2>1. \A k \in 1 .. m : v[k - 1] = w[k - 1]
    BY <1>1, <1>12
  <2>2. Logged(c, w, m)
    BY <1>1 DEF Follows
  <2> QED
    BY ONLY <2>1, <2>2 DEF Logged
<1> QED
  <2>1. Follows(qr, c, f, v, m)
    BY <1>1, <1>13, <1>15, <1>16 DEF Follows
  <2> QED
    BY ONLY <1>1, <2>1 DEF Sound

\* What the reference computes for a chain whose continuations have all run.
LEMMA CompositionReached ==
  ASSUME NEW c \in ChainRecord, NEW f \in FutureRecord, Sound(promise, c, f), f.deferred = <<>>
  PROVE  /\ Future!Composed(c)[Len(c.ops)] = Reads(promise, f)
         /\ Future!Range(c.ran) = Future!Called(c) /\ Increases(c.ran)
<1>1. PICK w, m : m \in Nat /\ Follows(promise, c, f, w, m)
  BY DEF Sound
<1>2. c.ops \in Seq(OpRecord) /\ c.source \in SourceRecord /\ Len(c.ops) = m /\ DOMAIN c.ops = 1 .. m
  BY <1>1 DEF Follows, Left, ChainRecord
<1>3. Future!SourceValue(c.source) = Reads(promise, c.source)
  BY <1>2 DEF SourceRecord, Future!SourceValue, Reads
<1>4. \A try, op : Future!Apply(try, op) = Reads(promise, Future!Continue(op, try))
  BY DEF Future!Apply, Future!SourceTry, Reads
<1>5. PICK v : v = [k \in 0 .. m |-> w[k]]
  OBVIOUS
<1>6. v = [k \in 0 .. m |-> IF k = 0 THEN Future!SourceValue(c.source) ELSE Future!Apply(v[k - 1], c.ops[k])]
  <2>1. ASSUME NEW k \in 0 .. m
        PROVE  v[k] = IF k = 0 THEN Future!SourceValue(c.source) ELSE Future!Apply(v[k - 1], c.ops[k])
    <3>1. CASE k = 0
      BY <1>1, <1>3, <1>5, <3>1 DEF Follows, Composes
    <3>2. CASE k # 0
      <4>1. k \in 1 .. m /\ k - 1 \in 0 .. m
        BY <1>1, <3>2
      <4>2. w[k] = Reads(promise, Future!Continue(c.ops[k], w[k - 1]))
        BY <1>1, <4>1 DEF Follows, Composes
      <4> QED
        BY <1>4, <1>5, <3>2, <4>1, <4>2
    <3> QED
      BY ONLY <3>1, <3>2
  <2> QED
    BY ONLY <1>5, <2>1
<1>7. PICK u : u = Future!Composed(c)
  OBVIOUS
<1>8. u = [k \in 0 .. m |-> IF k = 0 THEN Future!SourceValue(c.source) ELSE Future!Apply(u[k - 1], c.ops[k])]
  <2>1. u = CHOOSE g : g = [k \in 0 .. m |->
                         IF k = 0 THEN Future!SourceValue(c.source) ELSE Future!Apply(g[k - 1], c.ops[k])]
    BY <1>2, <1>7 DEF Future!Composed
  <2> QED
    BY ONLY <1>6, <2>1
<1>9. \A k \in 0 .. m : u[k] = v[k]
  <2> DEFINE S == {k \in Nat : k \in 0 .. m /\ u[k] # v[k]}
  <2>1. SUFFICES ASSUME S # {} PROVE FALSE
    BY <1>1
  <2>2. PICK k \in S : \A x \in S : k <= x
    <3>1. S \subseteq Nat
      OBVIOUS
    <3> HIDE DEF S
    <3> QED
      BY ONLY <2>1, <3>1, Least
  <2>3. k \in 0 .. m /\ k \in Nat /\ u[k] # v[k]
    BY <2>2
  <2>4. k # 0
    <3>1. 0 \in 0 .. m
      BY <1>1
    <3>2. u[0] = Future!SourceValue(c.source)
      BY ONLY <1>8, <3>1
    <3>3. v[0] = Future!SourceValue(c.source)
      BY ONLY <1>6, <3>1
    <3> QED
      BY ONLY <2>3, <3>2, <3>3
  <2>5. k - 1 \in 0 .. m /\ k - 1 \in Nat /\ k - 1 < k
    BY ONLY <1>1, <2>3, <2>4
  <2>6. k - 1 \notin S
    BY <2>2, <2>5
  <2>7. u[k - 1] = v[k - 1]
    BY <2>5, <2>6
  <2>8. u[k] = Future!Apply(u[k - 1], c.ops[k])
    BY ONLY <1>8, <2>3, <2>4
  <2>9. v[k] = Future!Apply(v[k - 1], c.ops[k])
    BY ONLY <1>6, <2>3, <2>4
  <2> QED
    BY ONLY <2>3, <2>7, <2>8, <2>9
<1>10. \A k \in 0 .. m : u[k] = w[k]
  BY ONLY <1>5, <1>9
<1>11. Future!Composed(c)[Len(c.ops)] = Reads(promise, f)
  <2>1. m \in 0 .. m
    BY <1>1
  <2>2. w[m] = Reads(promise, f)
    BY <1>1 DEF Follows, Reached
  <2> QED
    BY ONLY <1>2, <1>7, <1>10, <2>1, <2>2
<1>12. Future!Range(c.ran) = Future!Called(c)
  <2>1. ASSUME NEW x PROVE x \in Future!Called(c) <=> \E k \in 1 .. m : x = c.ops[k].id /\ Future!Calls(c.ops[k], w[k - 1])
    <3>1. x \in Future!Called(c) <=> \E k \in DOMAIN c.ops : x = c.ops[k].id /\ Future!Calls(c.ops[k], u[k - 1])
      BY ONLY <1>7 DEF Future!Called
    <3>2. \A k \in 1 .. m : u[k - 1] = w[k - 1]
      <4>1. \A k \in 1 .. m : k - 1 \in 0 .. m
        BY <1>1
      <4> QED
        BY ONLY <1>10, <4>1
    <3> QED
      BY ONLY <1>2, <3>1, <3>2
  <2>2. \A x : x \in Future!Range(c.ran) <=> \E k \in 1 .. m : x = c.ops[k].id /\ Future!Calls(c.ops[k], w[k - 1])
    BY <1>1 DEF Follows, Logged
  <2> QED
    BY ONLY <2>1, <2>2
<1> QED
  BY <1>1, <1>11, <1>12 DEF Follows

\* A slot with its chain: n continuations were attached so far.
SlotSound(pr, n, c, f) ==
  /\ f.kind = "Nothing" <=> c.source.type = "empty"
  /\ f.kind = "Immediate" => f.from = 0 /\ f.deferred = <<>>
  /\ \A k \in DOMAIN c.ops : c.ops[k].id <= n
  /\ f.kind # "Nothing" => Sound(pr, c, f)

FutureType ==
  /\ promise \in [Future!Promises -> Outcome]
  /\ futures \in [Future!Slots -> FutureRecord] /\ chains \in [Future!Slots -> ChainRecord]
  /\ thens \in Nat

Slotted == \A i \in Future!Slots : SlotSound(promise, thens, chains[i], futures[i])

\* A future whose value can be taken.
Ready(pr, f) == f.deferred = <<>> /\ Reads(pr, f) # Future!Unset

\* What the consumer has of a slot, r, while it waits for the slots in places.
Taken(i, places, r, pr, f) ==
  IF f.kind = "Nothing" THEN i \notin places /\ r = Future!Unset
  ELSE i \in places \/ (r = Reads(pr, f) /\ Ready(pr, f))
Waits ==
  (consumer # "none" /\ ~done) =>
    \A i \in Future!Slots : Taken(i, Future!Range(semisIndices), results[i], promise, futures[i])

Settles(pr, cs, fs) ==
  [i \in Future!Slots |-> IF cs[i].source.type = "empty" THEN Future!Unset ELSE Reads(pr, fs[i])]
Delivers ==
  done => /\ consumer # "none"
          /\ \A i \in Future!Slots : futures[i].kind # "Nothing" => Ready(promise, futures[i])
          /\ results = IF consumer = "collectAllSafe" THEN Future!Unwrap(Settles(promise, chains, futures))
                       ELSE Settles(promise, chains, futures)

FutureInv == FutureType /\ Slotted /\ Waits /\ Delivers

LEMMA ReadsOutcome ==
  ASSUME NEW pr \in [Future!Promises -> Outcome], NEW f \in FutureRecord
  PROVE  Reads(pr, f) \in Outcome
<1>1. f.from \in 0 .. Future!LastPromise /\ f.try \in Outcome
  BY DEF FutureRecord
<1>2. CASE f.from = 0
  BY <1>1, <1>2 DEF Reads
<1>3. CASE f.from # 0
  <2>1. f.from \in Future!Promises
    BY <1>1, <1>3, LastPromiseNat
  <2> QED
    BY <1>3, <2>1 DEF Reads
<1> QED
  BY ONLY <1>2, <1>3

\* A future that is not empty has a result if its promise has.
LEMMA ResultRead ==
  ASSUME NEW c, NEW f, Sound(promise, c, f)
  PROVE  Future!HasResult(f) <=> Reads(promise, f) # Future!Unset
<1>1. f.from = 0 => f.try # Future!Unset
  BY DEF Sound, Follows, Reached
<1> QED
  BY <1>1 DEF Future!HasResult, Reads

LEMMA ReadyIs ==
  ASSUME NEW n, NEW c, NEW f, SlotSound(promise, n, c, f), f.kind # "Nothing"
  PROVE  /\ Future!SemiIsReady(f) <=> Ready(promise, f)
         /\ Future!IsReady(f) => Ready(promise, f)
<1>1. Sound(promise, c, f)
  BY DEF SlotSound
<1>2. Future!SemiIsReady(f) <=> Ready(promise, f)
  BY <1>1, ResultRead DEF Future!SemiIsReady, Ready
<1>3. f.kind = "Immediate" => Future!SemiIsReady(f)
  BY DEF SlotSound, Future!SemiIsReady, Future!HasResult
<1> QED
  BY <1>2, <1>3 DEF Future!IsReady

\* The chain d is c and then op, the continuation with the number n.
Extends(d, c, op, n) ==
  /\ d \in ChainRecord /\ IdsIncrease(d)
  /\ \A k \in DOMAIN d.ops : d.ops[k].id <= n
  /\ Len(d.ops) = Len(c.ops) + 1 /\ d.ops[Len(c.ops) + 1] = op
  /\ \A k \in 1 .. Len(c.ops) : d.ops[k] = c.ops[k]

\* A continuation is put at the end of a chain.
LEMMA Attached ==
  ASSUME NEW c \in ChainRecord, NEW n \in Nat, \A k \in DOMAIN c.ops : c.ops[k].id <= n, IdsIncrease(c),
         NEW op \in OpRecord, op.id = n + 1, NEW ran \in Seq(Nat),
         NEW d, d = [source |-> c.source, ops |-> Append(c.ops, op), ran |-> ran]
  PROVE  Extends(d, c, op, n + 1)
<1>1. PICK s, t : s = c.ops /\ t = d.ops
  OBVIOUS
<1>2. s \in Seq(OpRecord) /\ t = Append(s, op) /\ c.source \in SourceRecord
  BY <1>1 DEF ChainRecord
<1>3. /\ t \in Seq(OpRecord) /\ Len(t) = Len(s) + 1 /\ t[Len(s) + 1] = op /\ DOMAIN t = 1 .. (Len(s) + 1)
      /\ Len(s) \in Nat /\ DOMAIN s = 1 .. Len(s)
      /\ \A k \in 1 .. Len(s) : t[k] = s[k] /\ s[k] \in OpRecord
  BY ONLY <1>2, op \in OpRecord
<1>4. \A k \in 1 .. Len(s) : s[k].id \in Nat /\ s[k].id <= n
  BY ONLY <1>1, <1>3, \A k \in DOMAIN c.ops : c.ops[k].id <= n DEF OpRecord
<1>5. \A k \in DOMAIN t : t[k].id <= n + 1
  <2>1. SUFFICES ASSUME NEW k \in DOMAIN t PROVE t[k].id <= n + 1
    OBVIOUS
  <2>2. k \in 1 .. Len(s) \/ k = Len(s) + 1
    BY ONLY <1>3, <2>1
  <2>3. CASE k \in 1 .. Len(s)
    <3>1. t[k].id \in Nat /\ t[k].id <= n
      BY ONLY <1>3, <1>4, <2>3
    <3> QED
      BY ONLY <3>1, n \in Nat
  <2>4. CASE k = Len(s) + 1
    BY ONLY <1>3, <2>4, n \in Nat, op.id = n + 1
  <2> QED
    BY ONLY <2>2, <2>3, <2>4
<1>6. ASSUME NEW a \in DOMAIN t, NEW b \in DOMAIN t, a < b PROVE t[a].id < t[b].id
  <2>1. a \in 1 .. Len(s) /\ (b \in 1 .. Len(s) \/ b = Len(s) + 1)
    BY ONLY <1>3, <1>6
  <2>2. CASE b \in 1 .. Len(s)
    BY ONLY <1>1, <1>3, <1>6, <2>1, <2>2, IdsIncrease(c) DEF IdsIncrease
  <2>3. CASE b = Len(s) + 1
    <3>1. t[a].id \in Nat /\ t[a].id <= n /\ t[b].id = n + 1
      BY ONLY <1>3, <1>4, <2>1, <2>3, op.id = n + 1
    <3> QED
      BY ONLY <3>1, n \in Nat
  <2> QED
    BY ONLY <2>1, <2>2, <2>3
<1>7. d \in ChainRecord
  BY ONLY <1>1, <1>2, <1>3, d = [source |-> c.source, ops |-> Append(c.ops, op), ran |-> ran], ran \in Seq(Nat) DEF ChainRecord
<1>8. IdsIncrease(d)
  BY ONLY <1>1, <1>6 DEF IdsIncrease
<1> QED
  BY ONLY <1>1, <1>3, <1>5, <1>7, <1>8 DEF Extends

LEMMA LogNat ==
  ASSUME NEW ran \in Seq(Nat), NEW op \in OpRecord, NEW try
  PROVE  Future!Log(ran, op, try) \in Seq(Nat)
<1>1. op.id \in Nat
  BY DEF OpRecord
<1>2. Append(ran, op.id) \in Seq(Nat)
  BY ONLY <1>1, ran \in Seq(Nat)
<1> QED
  BY <1>2 DEF Future!Log

\* A ready future calls the callback at once.
LEMMA RunNowSound ==
  ASSUME FutureType, NEW c \in ChainRecord, NEW f \in FutureRecord, SlotSound(promise, thens, c, f),
         f.kind # "Nothing", Future!IsReady(f), NEW op \in OpRecord, op.id = thens + 1,
         NEW try, try = Future!SourceTry(f), NEW h, h = Future!Continue(op, try),
         NEW g, g = IF h.from = 0 THEN Future!FromTry(h.try) ELSE Future!FromSemiFuture(h, "Eager"),
         NEW d, d = [source |-> c.source, ops |-> Append(c.ops, op), ran |-> Future!Log(c.ran, op, try)]
  PROVE  d \in ChainRecord /\ g \in FutureRecord /\ SlotSound(promise, thens + 1, d, g)
<1>0. promise \in [Future!Promises -> Outcome] /\ thens \in Nat
  BY DEF FutureType
<1>1. PICK w, m : m \in Nat /\ Follows(promise, c, f, w, m)
  BY DEF SlotSound, Sound
<1>2. f.deferred = <<>> /\ Reads(promise, f) # Future!Unset
  BY ReadyIs DEF Ready
<1>3. try = Reads(promise, f) /\ try = w[m] /\ try \in Settled
  <2>1. try = Reads(promise, f) /\ Reads(promise, f) = w[m]
    BY <1>1 DEF Follows, Reached, Future!SourceTry, Reads
  <2> QED
    BY <1>0, <1>2, <2>1, ReadsOutcome DEF Outcome
<1>4. m = Len(c.ops) /\ IdsIncrease(c)
  <2>1. Len(c.ops) \in Nat
    BY DEF ChainRecord
  <2> QED
    BY <1>1, <1>2, <2>1 DEF Follows, Left
<1>5. /\ h \in FutureRecord /\ h.kind = "SemiFuture" /\ h.deferred = <<>>
      /\ h.from = 0 => h.try \in Settled
  BY <1>3, ContinueSound
\* Ready or not, the new future reads what the callback returned.
<1>6. /\ g \in FutureRecord /\ g.kind # "Nothing" /\ g.deferred = <<>>
      /\ g.kind = "Immediate" => g.from = 0
      /\ Reads(promise, g) = Reads(promise, h)
      /\ g.from # 0 => g.from = h.from
      /\ g.from = 0 => g.try # Future!Unset
  <2>1. h.from \in 0 .. Future!LastPromise /\ h.try \in Outcome /\ 0 \in 0 .. Future!LastPromise /\ <<>> \in Seq(OpRecord)
    BY <1>5, LastPromiseNat DEF FutureRecord
  <2>2. /\ g = [kind |-> g.kind, from |-> g.from, try |-> g.try, deferred |-> <<>>]
        /\ g.kind \in {"Immediate", "SemiFuture"}
        /\ g.kind = "Immediate" => g.from = 0
        /\ \/ g.from = h.from /\ g.try = h.try
           \/ g.from = 0 /\ g.try = Reads(promise, h)
        /\ g.from = 0 => g.try \in Settled
    <3>1. CASE h.from = 0
      <4>1. g = [kind |-> IF alwaysDefer THEN "SemiFuture" ELSE "Immediate", from |-> 0, try |-> h.try, deferred |-> <<>>]
        BY <3>1 DEF Future!FromTry, Future!Semi, Future!Immediate
      <4> QED
        BY ONLY <1>5, <3>1, <4>1
    <3>2. CASE h.from # 0 /\ (~Future!SemiIsReady(h) \/ alwaysDefer)
      <4>1. g = [h EXCEPT !.kind = "SemiFuture"]
        BY <3>2 DEF Future!FromSemiFuture
      <4>2. g = [kind |-> "SemiFuture", from |-> h.from, try |-> h.try, deferred |-> <<>>]
        BY ONLY <1>5, <4>1 DEF FutureRecord
      <4> QED
        BY ONLY <3>2, <4>2
    <3>3. CASE h.from # 0 /\ Future!SemiIsReady(h) /\ ~alwaysDefer
      <4>1. g = [kind |-> "Immediate", from |-> 0, try |-> Future!SourceTry(h), deferred |-> <<>>]
        BY <3>3 DEF Future!FromSemiFuture, Future!Immediate
      <4>2. Future!SourceTry(h) = Reads(promise, h)
        BY DEF Future!SourceTry, Reads
      <4>3. Reads(promise, h) # Future!Unset
        BY <3>3 DEF Future!SemiIsReady, Future!HasResult, Reads
      <4>4. Reads(promise, h) \in Settled
        BY <1>0, <1>5, <4>3, ReadsOutcome DEF Outcome
      <4> QED
        BY ONLY <4>1, <4>2, <4>4
    <3> QED
      BY ONLY <3>1, <3>2, <3>3
  <2>3. g.try \in Outcome /\ g.from \in 0 .. Future!LastPromise
    BY ONLY <2>1, <2>2 DEF Outcome
  <2>4. g \in FutureRecord
    <3>1. PICK kind, from, t : kind = g.kind /\ from = g.from /\ t = g.try
      OBVIOUS
    <3>2. g = [kind |-> kind, from |-> from, try |-> t, deferred |-> <<>>]
      BY ONLY <2>2, <3>1
    <3>3. /\ kind \in {"Immediate", "SemiFuture", "LazySemiFuture", "Nothing"}
          /\ from \in 0 .. Future!LastPromise /\ t \in Outcome
      BY ONLY <2>2, <2>3, <3>1
    <3> QED
      BY ONLY <2>1, <3>2, <3>3 DEF FutureRecord
  <2>5. Reads(promise, g) = Reads(promise, h)
    BY ONLY <2>2 DEF Reads
  <2>6. g.from = 0 => g.try # Future!Unset
    BY ONLY <2>2, SettledNotUnset
  <2>7. g.deferred = <<>> /\ g.kind # "Nothing"
    BY ONLY <2>2
  <2> QED
    BY ONLY <2>2, <2>4, <2>5, <2>6, <2>7
<1>7. /\ d \in ChainRecord /\ IdsIncrease(d)
      /\ \A k \in DOMAIN d.ops : d.ops[k].id <= thens + 1
      /\ Len(d.ops) = m + 1 /\ d.ops[m + 1] = op
      /\ \A k \in 1 .. m : d.ops[k] = c.ops[k]
  <2>1. PICK ran : ran = Future!Log(c.ran, op, try)
    OBVIOUS
  <2>2. ran \in Seq(Nat)
    BY <2>1, LogNat DEF ChainRecord
  <2>3. \A k \in DOMAIN c.ops : c.ops[k].id <= thens
    BY DEF SlotSound
  <2>4. d = [source |-> c.source, ops |-> Append(c.ops, op), ran |-> ran]
    BY <2>1
  <2>5. Extends(d, c, op, thens + 1)
    BY ONLY <1>0, <1>4, <2>2, <2>3, <2>4, c \in ChainRecord, op \in OpRecord, op.id = thens + 1, Attached
  <2> QED
    BY ONLY <1>4, <2>5 DEF Extends
<1>8. Left(d, g, m + 1)
  BY ONLY <1>1, <1>6, <1>7 DEF Left
<1>9. Sound(promise, d, g)
  <2>1. d.source = c.source /\ d.ran = Future!Log(c.ran, op, w[m]) /\ w[m] # Future!Unset /\ h = Future!Continue(op, w[m])
    BY <1>2, <1>3
  <2> QED
    BY ONLY <1>1, <1>6, <1>7, <1>8, <2>1, c \in ChainRecord, f \in FutureRecord, CallbackRuns
<1>10. d.source.type # "empty"
  BY DEF SlotSound
<1> QED
  BY ONLY <1>6, <1>7, <1>9, <1>10 DEF SlotSound

\* A future that is not ready puts the callback off.
LEMMA DeferSound ==
  ASSUME FutureType, NEW c \in ChainRecord, NEW f \in FutureRecord, SlotSound(promise, thens, c, f),
         f.kind # "Nothing", NEW op \in OpRecord, op.id = thens + 1,
         NEW g, g = [kind |-> "SemiFuture", from |-> f.from, try |-> f.try, deferred |-> Append(f.deferred, op)],
         NEW d, d = [source |-> c.source, ops |-> Append(c.ops, op), ran |-> c.ran]
  PROVE  d \in ChainRecord /\ g \in FutureRecord /\ SlotSound(promise, thens + 1, d, g)
<1>0. thens \in Nat
  BY DEF FutureType
<1>1. PICK w, m : m \in Nat /\ Follows(promise, c, f, w, m)
  BY DEF SlotSound, Sound
<1>2. PICK n, s, t : n = Len(c.ops) /\ s = f.deferred /\ t = g.deferred
  OBVIOUS
<1>3. /\ n \in Nat /\ m \in 0 .. n /\ s \in Seq(OpRecord) /\ Len(s) = n - m /\ t = Append(s, op) /\ IdsIncrease(c)
      /\ \A k \in 1 .. Len(s) : s[k] = c.ops[m + k]
  <2>1. n \in Nat /\ s \in Seq(OpRecord)
    BY <1>2 DEF ChainRecord, FutureRecord
  <2> QED
    BY <1>1, <1>2, <2>1 DEF Follows, Left
<1>4. /\ d \in ChainRecord /\ IdsIncrease(d)
      /\ \A k \in DOMAIN d.ops : d.ops[k].id <= thens + 1
      /\ Len(d.ops) = n + 1 /\ d.ops[n + 1] = op
      /\ \A k \in 1 .. n : d.ops[k] = c.ops[k]
  <2>1. c.ran \in Seq(Nat)
    BY DEF ChainRecord
  <2>2. \A k \in DOMAIN c.ops : c.ops[k].id <= thens
    BY DEF SlotSound
  <2>3. Extends(d, c, op, thens + 1)
    BY ONLY <1>0, <1>3, <2>1, <2>2, c \in ChainRecord, op \in OpRecord, op.id = thens + 1,
            d = [source |-> c.source, ops |-> Append(c.ops, op), ran |-> c.ran], Attached
  <2> QED
    BY ONLY <1>2, <2>3 DEF Extends
<1>5. /\ t \in Seq(OpRecord) /\ Len(t) = (n + 1) - m /\ t[Len(s) + 1] = op
      /\ \A k \in 1 .. Len(s) : t[k] = s[k]
  BY ONLY <1>1, <1>3, op \in OpRecord
<1>6. Left(d, g, m)
  <2>1. m \in 0 .. (n + 1)
    BY ONLY <1>3
  <2>2. ASSUME NEW k \in 1 .. Len(t) PROVE t[k] = d.ops[m + k]
    <3>1. CASE k = Len(s) + 1
      <4>1. m + k = n + 1
        BY ONLY <1>3, <3>1
      <4> QED
        BY ONLY <1>4, <1>5, <3>1, <4>1
    <3>2. CASE k # Len(s) + 1
      <4>1. k \in 1 .. Len(s) /\ m + k \in 1 .. n
        BY ONLY <1>3, <1>5, <2>2, <3>2
      <4> QED
        BY ONLY <1>3, <1>4, <1>5, <4>1
    <3> QED
      BY ONLY <3>1, <3>2
  <2> QED
    BY ONLY <1>2, <1>4, <1>5, <2>1, <2>2 DEF Left
<1>7. \A k \in 1 .. m : d.ops[k] = c.ops[k]
  BY ONLY <1>3, <1>4
<1>8. d.source = c.source /\ d.ran = c.ran /\ g.from = f.from /\ g.try = f.try
  OBVIOUS
<1>9. Reads(promise, g) = Reads(promise, f)
  BY ONLY <1>8 DEF Reads
<1>10. Composes(promise, d, w, m)
  BY <1>1, <1>7, <1>8 DEF Follows, Composes
<1>11. Reached(promise, d, g, w, m)
  <2>1. Last(d, w, m) = Last(c, w, m)
    <3>1. m # 0 => m \in 1 .. m
      BY <1>1
    <3> QED
      BY ONLY <1>7, <1>8, <3>1 DEF Last
  <2> QED
    BY <1>1, <1>8, <1>9, <2>1 DEF Follows, Reached
<1>12. Logged(d, w, m)
  <2>1. Logged(c, w, m)
    BY <1>1 DEF Follows
  <2> QED
    BY ONLY <1>7, <1>8, <2>1 DEF Logged
<1>13. Sound(promise, d, g)
  <2>1. Increases(d.ran)
    BY <1>1, <1>8 DEF Follows
  <2>2. Follows(promise, d, g, w, m)
    BY ONLY <1>4, <1>6, <1>10, <1>11, <1>12, <2>1 DEF Follows
  <2> QED
    BY ONLY <1>1, <2>2 DEF Sound
<1>14. g \in FutureRecord
  BY <1>2, <1>5 DEF FutureRecord
<1>15. d.source.type # "empty" /\ g.kind = "SemiFuture"
  BY DEF SlotSound
<1> QED
  BY ONLY <1>4, <1>13, <1>14, <1>15 DEF SlotSound

\* What is left of f when its first callback has returned h.
Driven(h, f) == [h EXCEPT !.deferred = Tail(f.deferred)]

\* The consumer runs the next callback that was put off.
LEMMA DriveSound ==
  ASSUME FutureType, NEW c \in ChainRecord, NEW f \in FutureRecord, SlotSound(promise, thens, c, f),
         f.kind # "Nothing", f.deferred # <<>>, Future!HasResult(f), NEW op, op = Head(f.deferred),
         NEW try, try = Future!SourceTry(f), NEW h, h = Future!Continue(op, try),
         NEW g, g = Driven(h, f), NEW d, d = Future!Ran(c, op, try)
  PROVE  d \in ChainRecord /\ g \in FutureRecord /\ SlotSound(promise, thens, d, g) /\ g.kind = "SemiFuture"
<1>0. promise \in [Future!Promises -> Outcome] /\ thens \in Nat
  BY DEF FutureType
<1>1. PICK w, m : m \in Nat /\ Follows(promise, c, f, w, m)
  BY DEF SlotSound, Sound
<1>2. Reads(promise, f) # Future!Unset
  BY ResultRead DEF SlotSound
<1>3. try = Reads(promise, f) /\ try = w[m] /\ try \in Settled
  <2>1. try = Reads(promise, f) /\ Reads(promise, f) = w[m]
    BY <1>1 DEF Follows, Reached, Future!SourceTry, Reads
  <2> QED
    BY <1>0, <1>2, <2>1, ReadsOutcome DEF Outcome
<1>4. PICK n, s : n = Len(c.ops) /\ s = f.deferred
  OBVIOUS
<1>5. /\ n \in Nat /\ m \in 0 .. n /\ s \in Seq(OpRecord) /\ Len(s) = n - m /\ IdsIncrease(c)
      /\ \A k \in 1 .. Len(s) : s[k] = c.ops[m + k]
  <2>1. n \in Nat /\ s \in Seq(OpRecord)
    BY <1>4 DEF ChainRecord, FutureRecord
  <2> QED
    BY <1>1, <1>4, <2>1 DEF Follows, Left
<1>6. /\ Len(s) >= 1 /\ op = s[1] /\ op \in OpRecord /\ Tail(s) \in Seq(OpRecord) /\ Len(Tail(s)) = Len(s) - 1
      /\ \A k \in 1 .. (Len(s) - 1) : Tail(s)[k] = s[k + 1]
  <2>1. s # <<>> /\ op = Head(s)
    BY <1>4
  <2> QED
    BY ONLY <1>5, <2>1
<1>7. m + 1 \in 0 .. n /\ op = c.ops[m + 1]
  BY ONLY <1>5, <1>6
<1>8. /\ h \in FutureRecord /\ h.kind = "SemiFuture" /\ h.deferred = <<>>
      /\ h.from = 0 => h.try \in Settled
  BY ONLY <1>3, <1>6, h = Future!Continue(op, try), ContinueSound
<1>9. g = [kind |-> "SemiFuture", from |-> h.from, try |-> h.try, deferred |-> Tail(s)]
  BY <1>4, <1>8 DEF FutureRecord, Driven
<1>10. /\ g \in FutureRecord /\ g.kind = "SemiFuture" /\ g.from = h.from /\ g.try = h.try /\ g.deferred = Tail(s)
  BY ONLY <1>6, <1>8, <1>9 DEF FutureRecord
<1>11. d \in ChainRecord /\ d.ops = c.ops /\ d.source = c.source /\ d.ran = Future!Log(c.ran, op, try)
  <2>1. PICK r : r = Future!Log(c.ran, op, try)
    OBVIOUS
  <2>2. r \in Seq(Nat)
    BY <1>6, <2>1, LogNat DEF ChainRecord
  <2>3. d = [c EXCEPT !.ran = r]
    BY ONLY <2>1, d = Future!Ran(c, op, try) DEF Future!Ran
  <2> QED
    BY ONLY <2>1, <2>2, <2>3, c \in ChainRecord DEF ChainRecord
<1>12. Left(d, g, m + 1)
  <2>1. Len(g.deferred) = n - (m + 1)
    BY ONLY <1>1, <1>5, <1>6, <1>10
  <2>2. ASSUME NEW k \in 1 .. Len(g.deferred) PROVE g.deferred[k] = d.ops[m + 1 + k]
    <3>1. k \in 1 .. (Len(s) - 1)
      BY ONLY <1>6, <1>10, <2>2
    <3>2. k + 1 \in 1 .. Len(s) /\ m + (k + 1) = m + 1 + k
      BY ONLY <1>1, <1>5, <3>1
    <3>3. g.deferred[k] = s[k + 1]
      BY ONLY <1>6, <1>10, <3>1
    <3>4. s[k + 1] = c.ops[m + 1 + k]
      BY ONLY <1>5, <3>2
    <3> QED
      BY ONLY <1>11, <3>3, <3>4
  <2> QED
    BY ONLY <1>4, <1>7, <1>11, <2>1, <2>2 DEF Left
<1>13. Sound(promise, d, g)
  <2>1. d.ran = Future!Log(c.ran, op, w[m]) /\ w[m] # Future!Unset /\ h = Future!Continue(op, w[m])
    BY <1>2, <1>3, <1>11
  <2>2. Reads(promise, g) = Reads(promise, h) /\ (g.from # 0 => g.from = h.from)
    BY ONLY <1>10 DEF Reads
  <2>3. g.from = 0 => g.try # Future!Unset
    BY ONLY <1>8, <1>10, SettledNotUnset
  <2>4. IdsIncrease(d)
    BY ONLY <1>5, <1>11 DEF IdsIncrease
  <2>5. op = d.ops[m + 1] /\ \A k \in 1 .. m : d.ops[k] = c.ops[k]
    BY ONLY <1>7, <1>11
  <2> QED
    BY ONLY <1>1, <1>10, <1>11, <1>12, <2>1, <2>2, <2>3, <2>4, <2>5, c \in ChainRecord, f \in FutureRecord, CallbackRuns
<1>14. /\ d.source.type # "empty"
       /\ \A k \in DOMAIN d.ops : d.ops[k].id <= thens
  BY <1>11 DEF SlotSound
<1> QED
  BY ONLY <1>10, <1>11, <1>13, <1>14 DEF SlotSound

\* f, with these parts, is made from the source s when the promises are pr.
Fresh(f, kind, p, r, pr, s) ==
  /\ f = [kind |-> kind, from |-> p, try |-> r, deferred |-> <<>>]
  /\ kind \in {"Immediate", "SemiFuture", "LazySemiFuture", "Nothing"} /\ p \in 0 .. Future!LastPromise /\ r \in Outcome
  /\ kind = "Nothing" <=> s.type = "empty"
  /\ kind = "Immediate" => p = 0
  /\ s.type # "empty" => /\ (IF p = 0 THEN r ELSE pr[p]) = Reads(pr, s)
                         /\ p # 0 => p = s.from
                         /\ p = 0 => r # Future!Unset

\* A future that was just made.
LEMMA ConstructSound ==
  ASSUME promise \in [Future!Promises -> Outcome], NEW i \in Future!Slots, NEW s \in Future!Sources(i),
         NEW f, f = Future!Construct(s), NEW c, c = Future!Chain(s)
  PROVE  f \in FutureRecord /\ c \in ChainRecord /\ SlotSound(promise, 0, c, f)
<1>1. i \in 1 .. Count /\ i # 0 /\ 0 \in 0 .. Count /\ i \in 0 .. Count /\ Count \in Nat
  BY CountAssumption DEF Future!Slots
<1>2. <<>> \in Seq(OpRecord) /\ <<>> \in Seq(Nat) /\ 0 \in 0 .. Future!LastPromise /\ i \in 0 .. Future!LastPromise
  BY <1>1, LastPromiseNat
<1>3. \A t \in Future!Tries(0) : t \in Settled
  BY DEF Future!Tries, Settled
<1>4. /\ s \in SourceRecord
      /\ s.from = 0 \/ s.from = i
  <2>1. CASE \E t \in Future!Tries(0) : s = [type |-> "try", try |-> t, from |-> 0]
    BY ONLY <1>1, <1>3, <2>1, SettledNotUnset DEF SourceRecord, Outcome
  <2>2. CASE s = [type |-> "promise", try |-> Future!Unset, from |-> i]
    BY ONLY <1>1, <2>2 DEF SourceRecord, Outcome
  <2>3. CASE s = [type |-> "lazy", try |-> <<"value", 0>>, from |-> 0]
    <3>1. <<"value", 0>> \in Settled
      BY DEF Settled
    <3> QED
      BY ONLY <1>1, <2>3, <3>1, SettledNotUnset DEF SourceRecord, Outcome
  <2>4. CASE s = [type |-> "empty", try |-> Future!Unset, from |-> 0]
    BY ONLY <1>1, <2>4 DEF SourceRecord, Outcome
  <2> QED
    BY <2>1, <2>2, <2>3, <2>4 DEF Future!Sources, Future!Empty
<1>5. PICK ty, t, from : ty = s.type /\ t = s.try /\ from = s.from
  OBVIOUS
<1>6. /\ ty \in {"try", "promise", "lazy", "empty"} /\ t \in Outcome /\ from \in 0 .. Future!LastPromise
      /\ ty = "promise" <=> from # 0
      /\ ty \in {"try", "lazy"} => t # Future!Unset
  BY <1>2, <1>4, <1>5 DEF SourceRecord
\* What it reads is its source.
<1>7. PICK kind, p, r : Fresh(f, kind, p, r, promise, s)
  <2>1. CASE ty = "try"
    <3>1. f = [kind |-> IF alwaysDefer THEN "SemiFuture" ELSE "Immediate", from |-> 0, try |-> t, deferred |-> <<>>]
      BY <1>5, <2>1 DEF Future!Construct, Future!FromTry, Future!Semi, Future!Immediate
    <3>2. Reads(promise, s) = t
      BY <1>5, <1>6, <2>1 DEF Reads
    <3>3. PICK kind : kind = IF alwaysDefer THEN "SemiFuture" ELSE "Immediate"
      OBVIOUS
    <3>4. Fresh(f, kind, 0, t, promise, s)
      BY ONLY <1>2, <1>5, <1>6, <2>1, <3>1, <3>2, <3>3 DEF Fresh
    <3> QED
      BY ONLY <3>4
  <2>2. CASE ty = "lazy"
    <3>1. f = [kind |-> "LazySemiFuture", from |-> 0, try |-> t, deferred |-> <<>>]
      BY <1>5, <2>2 DEF Future!Construct, Future!FromSemiFuture, Future!Semi
    <3>2. Reads(promise, s) = t
      BY <1>5, <1>6, <2>2 DEF Reads
    <3>3. Fresh(f, "LazySemiFuture", 0, t, promise, s)
      BY ONLY <1>2, <1>5, <1>6, <2>2, <3>1, <3>2 DEF Fresh
    <3> QED
      BY ONLY <3>3
  <2>3. CASE ty = "empty"
    <3>1. f = [kind |-> "Nothing", from |-> 0, try |-> Future!Unset, deferred |-> <<>>]
      BY <1>5, <2>3 DEF Future!Construct, Future!Nothing
    <3>2. Fresh(f, "Nothing", 0, Future!Unset, promise, s)
      BY ONLY <1>2, <1>5, <1>6, <2>3, <3>1 DEF Outcome, Fresh
    <3> QED
      BY ONLY <3>2
  <2>4. CASE ty = "promise"
    <3>1. PICK h : h = Future!Semi(from, Future!Unset)
      OBVIOUS
    <3>2. h = [kind |-> "SemiFuture", from |-> from, try |-> Future!Unset, deferred |-> <<>>]
      BY <3>1 DEF Future!Semi
    <3>3. f = Future!FromSemiFuture(h, "Eager")
      BY <1>5, <2>4, <3>1 DEF Future!Construct
    <3>4. Reads(promise, s) = promise[from] /\ from # 0
      BY <1>5, <1>6, <2>4 DEF Reads
    <3>5. CASE ~Future!SemiIsReady(h) \/ alwaysDefer
      <4>1. f = [kind |-> "SemiFuture", from |-> from, try |-> Future!Unset, deferred |-> <<>>]
        BY <3>2, <3>3, <3>5 DEF Future!FromSemiFuture
      <4>2. Future!Unset \in Outcome
        BY DEF Outcome
      <4>3. Fresh(f, "SemiFuture", from, Future!Unset, promise, s)
        BY ONLY <1>5, <1>6, <2>4, <3>4, <4>1, <4>2 DEF Fresh
      <4> QED
        BY ONLY <4>3
    <3>6. CASE Future!SemiIsReady(h) /\ ~alwaysDefer
      <4>1. f = [kind |-> "Immediate", from |-> 0, try |-> promise[from], deferred |-> <<>>]
        BY <3>2, <3>3, <3>4, <3>6 DEF Future!FromSemiFuture, Future!Immediate, Future!SourceTry
      <4>2. promise[from] # Future!Unset
        BY <3>2, <3>4, <3>6 DEF Future!SemiIsReady, Future!HasResult
      <4>3. promise[from] \in Outcome
        <5>1. from \in Future!Promises
          BY <1>6, <3>4, LastPromiseNat
        <5> QED
          BY <5>1
      <4>4. PICK r : r = promise[from]
        OBVIOUS
      <4>5. Fresh(f, "Immediate", 0, r, promise, s)
        BY ONLY <1>2, <1>5, <2>4, <3>4, <4>1, <4>2, <4>3, <4>4 DEF Fresh
      <4> QED
        BY ONLY <4>5
    <3> QED
      BY ONLY <3>5, <3>6
  <2> QED
    BY ONLY <1>6, <2>1, <2>2, <2>3, <2>4
<1>8. f \in FutureRecord
  BY ONLY <1>2, <1>7 DEF FutureRecord, Fresh
<1>9. c = [source |-> s, ops |-> <<>>, ran |-> <<>>] /\ c \in ChainRecord
  BY <1>2, <1>4 DEF Future!Chain, ChainRecord
<1>10. ASSUME ty # "empty" PROVE Sound(promise, c, f)
  <2>1. PICK w : w = [k \in Nat |-> Reads(promise, s)]
    OBVIOUS
  <2>2. c.ops = <<>> /\ c.ran = <<>> /\ c.source = s /\ f.deferred = <<>> /\ w[0] = Reads(promise, s)
    BY <1>7, <1>9, <2>1 DEF Fresh
  <2>3. Left(c, f, 0)
    BY ONLY <2>2 DEF Left
  <2>4. IdsIncrease(c) /\ Increases(c.ran)
    BY ONLY <2>2 DEF IdsIncrease, Increases
  <2>5. Composes(promise, c, w, 0)
    BY ONLY <2>2 DEF Composes
  <2>6. Reads(promise, f) = Reads(promise, s)
    <3>1. f.from = p /\ f.try = r
      BY ONLY <1>7 DEF Fresh
    <3>2. (IF p = 0 THEN r ELSE promise[p]) = Reads(promise, s)
      BY ONLY <1>5, <1>7, <1>10 DEF Fresh
    <3> QED
      BY ONLY <3>1, <3>2 DEF Reads
  <2>7. Reached(promise, c, f, w, 0)
    <3>1. f.from = p /\ f.try = r
      BY ONLY <1>7 DEF Fresh
    <3>2. /\ p # 0 => p = s.from
          /\ p = 0 => r # Future!Unset
      BY ONLY <1>5, <1>7, <1>10 DEF Fresh
    <3> QED
      BY ONLY <2>2, <2>6, <3>1, <3>2 DEF Reached, Last
  <2>8. Logged(c, w, 0)
    BY ONLY <2>2 DEF Logged, Future!Range
  <2>9. Follows(promise, c, f, w, 0)
    BY ONLY <2>3, <2>4, <2>5, <2>7, <2>8 DEF Follows
  <2> QED
    BY ONLY <2>9 DEF Sound
<1>11. SlotSound(promise, 0, c, f)
  <2>1. f.kind = kind /\ f.from = p /\ f.deferred = <<>> /\ c.source.type = ty /\ DOMAIN c.ops = {}
    BY <1>5, <1>7, <1>9 DEF Fresh
  <2>2. /\ kind = "Nothing" <=> ty = "empty"
        /\ kind = "Immediate" => p = 0
    BY ONLY <1>5, <1>7 DEF Fresh
  <2> QED
    BY ONLY <1>10, <2>1, <2>2 DEF SlotSound
<1> QED
  BY ONLY <1>8, <1>9, <1>11

LEMMA FutureInit == Future!Init => FutureInv
<1> SUFFICES ASSUME Future!Init PROVE FutureInv
  OBVIOUS
<1>1. promise \in [Future!Promises -> Outcome]
  <2>1. PICK fulfilled : promise = [p \in Future!Promises |-> IF p \in fulfilled THEN <<"value", p>> ELSE Future!Unset]
    BY DEF Future!Init
  <2>2. \A p \in Future!Promises : <<"value", p>> \in Settled
    BY LastPromiseNat DEF Settled
  <2> QED
    BY ONLY <2>1, <2>2 DEF Outcome
<1>2. PICK s : /\ \A i \in Future!Slots : s[i] \in Future!Sources(i)
               /\ futures = [i \in Future!Slots |-> Future!Construct(s[i])]
               /\ chains = [i \in Future!Slots |-> Future!Chain(s[i])]
  BY DEF Future!Init
<1>3. ASSUME NEW i \in Future!Slots
      PROVE  futures[i] \in FutureRecord /\ chains[i] \in ChainRecord /\ SlotSound(promise, 0, chains[i], futures[i])
  <2>1. s[i] \in Future!Sources(i) /\ futures[i] = Future!Construct(s[i]) /\ chains[i] = Future!Chain(s[i])
    BY <1>2
  <2> QED
    BY ONLY <1>1, <1>3, <2>1, ConstructSound
<1>4. thens = 0 /\ consumer = "none" /\ done = FALSE
  BY DEF Future!Init
<1>5. FutureType
  BY ONLY <1>1, <1>2, <1>3, <1>4 DEF FutureType
<1>6. Slotted
  BY ONLY <1>3, <1>4 DEF Slotted
<1> QED
  BY ONLY <1>4, <1>5, <1>6 DEF FutureInv, Waits, Delivers

\* One slot changes, and n continuations have been attached.
LEMMA SlotChanged ==
  ASSUME FutureType, Slotted, NEW i \in Future!Slots, NEW d \in ChainRecord, NEW g \in FutureRecord,
         NEW n \in Nat, thens <= n, SlotSound(promise, n, d, g),
         futures' = [futures EXCEPT ![i] = g], chains' = [chains EXCEPT ![i] = d],
         thens' = n, promise' = promise
  PROVE  FutureType' /\ Slotted'
<1>1. /\ futures \in [Future!Slots -> FutureRecord] /\ chains \in [Future!Slots -> ChainRecord]
      /\ thens \in Nat /\ promise \in [Future!Promises -> Outcome]
  BY DEF FutureType
<1>2. FutureType'
  BY ONLY <1>1, i \in Future!Slots, d \in ChainRecord, g \in FutureRecord, n \in Nat, thens' = n, promise' = promise,
          futures' = [futures EXCEPT ![i] = g], chains' = [chains EXCEPT ![i] = d] DEF FutureType
<1>3. ASSUME NEW j \in Future!Slots PROVE SlotSound(promise, n, chains'[j], futures'[j])
  <2>1. CASE j = i
    BY <1>1, <2>1
  <2>2. CASE j # i
    <3>1. PICK c, f : c = chains[j] /\ f = futures[j]
      OBVIOUS
    <3>2. chains'[j] = c /\ futures'[j] = f /\ c \in ChainRecord
      BY <1>1, <2>2, <3>1
    <3>3. SlotSound(promise, thens, c, f)
      BY ONLY <3>1, Slotted DEF Slotted
    <3>4. ASSUME NEW k \in DOMAIN c.ops PROVE c.ops[k].id <= n
      <4>1. c.ops[k].id <= thens /\ c.ops[k].id \in Nat
        BY ONLY <3>2, <3>3, <3>4 DEF SlotSound, ChainRecord, OpRecord
      <4> QED
        BY ONLY <1>1, <4>1, thens <= n, n \in Nat
    <3> QED
      BY ONLY <3>2, <3>3, <3>4 DEF SlotSound
  <2> QED
    BY ONLY <2>1, <2>2
<1>4. Slotted'
  BY ONLY <1>3, thens' = n, promise' = promise DEF Slotted
<1> QED
  BY ONLY <1>2, <1>4

LEMMA ThenPreserves ==
  ASSUME FutureInv, NEW i \in Future!Slots, NEW method \in Future!Methods, NEW callback \in Future!Callbacks(method),
         Future!Then(i, method, callback)
  PROVE  FutureInv'
<1>1. PICK op : op = [on |-> method, does |-> callback.does, awaits |-> callback.awaits, id |-> thens + 1]
  OBVIOUS
<1>2. /\ FutureType /\ Slotted /\ Delivers
      /\ thens \in Nat /\ futures[i] \in FutureRecord /\ chains[i] \in ChainRecord
      /\ futures \in [Future!Slots -> FutureRecord] /\ chains \in [Future!Slots -> ChainRecord]
  BY DEF FutureInv, FutureType
<1>3. /\ consumer = "none" /\ futures[i].kind # "Nothing" /\ thens' = thens + 1
      /\ IF Future!IsReady(futures[i]) THEN Future!RunNow(i, op) ELSE Future!Defer(i, op)
      /\ promise' = promise /\ consumer' = consumer /\ done' = done
  BY <1>1 DEF Future!Then
<1>4. ~done
  BY ONLY <1>2, <1>3 DEF Delivers
<1>5. op \in OpRecord /\ op.id = thens + 1
  <2>1. /\ callback.does \in {"value", "throw", "future"} /\ callback.awaits \in 0 .. Future!LastPromise
        /\ callback.does = "future" => callback.awaits # 0
    <3>1. callback \in {[does |-> "value", awaits |-> 0], [does |-> "throw", awaits |-> 0],
                        [does |-> "future", awaits |-> Future!LastPromise]}
      BY DEF Future!Callbacks
    <3> QED
      BY ONLY <3>1, LastPromiseNat
  <2>2. thens + 1 \in Nat
    BY ONLY <1>2
  <2> QED
    BY ONLY <1>1, <2>1, <2>2, method \in Future!Methods DEF OpRecord
<1>6. PICK c, f : c = chains[i] /\ f = futures[i]
  OBVIOUS
<1>7. c \in ChainRecord /\ f \in FutureRecord /\ SlotSound(promise, thens, c, f) /\ f.kind # "Nothing"
  BY ONLY <1>2, <1>3, <1>6, i \in Future!Slots DEF Slotted
<1>8. /\ FutureType' /\ Slotted'
  <2>1. CASE Future!IsReady(f)
    <3>1. PICK try, h, g, d :
            /\ try = Future!SourceTry(f) /\ h = Future!Continue(op, try)
            /\ g = IF h.from = 0 THEN Future!FromTry(h.try) ELSE Future!FromSemiFuture(h, "Eager")
            /\ d = [source |-> c.source, ops |-> Append(c.ops, op), ran |-> Future!Log(c.ran, op, try)]
      OBVIOUS
    <3>2. Future!RunNow(i, op)
      BY ONLY <1>3, <1>6, <2>1
    <3>3. futures' = [futures EXCEPT ![i] = g]
      BY ONLY <1>6, <3>1, <3>2 DEF Future!RunNow
    <3>4. d = Future!Ran(Future!Attach(c, op), op, try)
      <4>1. PICK a, r : a = Append(c.ops, op) /\ r = Future!Log(c.ran, op, try)
        OBVIOUS
      <4>2. PICK e : e = [c EXCEPT !.ops = a]
        OBVIOUS
      <4>3. e = [source |-> c.source, ops |-> a, ran |-> c.ran]
        BY ONLY <1>7, <4>2 DEF ChainRecord
      <4>7. d = [source |-> c.source, ops |-> a, ran |-> r]
        BY ONLY <3>1, <4>1, Zenon
      <4>4. d = [e EXCEPT !.ran = r]
        BY ONLY <4>3, <4>7
      <4>5. e = Future!Attach(c, op)
        BY ONLY <4>1, <4>2 DEF Future!Attach
      <4>6. e.ran = c.ran
        BY ONLY <4>3
      <4> QED
        BY ONLY <4>1, <4>4, <4>5, <4>6 DEF Future!Ran
    <3>5. chains' = [chains EXCEPT ![i] = d]
      BY ONLY <1>6, <3>1, <3>2, <3>4 DEF Future!RunNow
    <3>6. d \in ChainRecord /\ g \in FutureRecord /\ SlotSound(promise, thens + 1, d, g)
      BY ONLY <1>2, <1>5, <1>7, <2>1, <3>1, RunNowSound
    <3>7. thens + 1 \in Nat /\ thens <= thens + 1
      BY ONLY <1>2
    <3> QED
      BY ONLY <1>2, <1>3, <3>3, <3>5, <3>6, <3>7, i \in Future!Slots, SlotChanged
  <2>2. CASE ~Future!IsReady(f)
    <3>1. PICK g, d :
            /\ g = [kind |-> "SemiFuture", from |-> f.from, try |-> f.try, deferred |-> Append(f.deferred, op)]
            /\ d = [source |-> c.source, ops |-> Append(c.ops, op), ran |-> c.ran]
      OBVIOUS
    <3>2. Future!Defer(i, op)
      BY ONLY <1>3, <1>6, <2>2
    <3>3. g = Future!PutOff(f, op) /\ d = Future!Attach(c, op)
      <4>1. PICK a, b : a = Append(f.deferred, op) /\ b = Append(c.ops, op)
        OBVIOUS
      <4>4. /\ g = [kind |-> "SemiFuture", from |-> f.from, try |-> f.try, deferred |-> a]
            /\ d = [source |-> c.source, ops |-> b, ran |-> c.ran]
        BY ONLY <3>1, <4>1, Zenon
      <4>2. g = [Future!Semi(f.from, f.try) EXCEPT !.deferred = a]
        <5>1. PICK p, t : p = f.from /\ t = f.try
          OBVIOUS
        <5>2. g = [kind |-> "SemiFuture", from |-> p, try |-> t, deferred |-> a]
          BY ONLY <4>4, <5>1, Zenon
        <5>3. Future!Semi(f.from, f.try) = [kind |-> "SemiFuture", from |-> p, try |-> t, deferred |-> <<>>]
          BY ONLY <5>1, Zenon DEF Future!Semi
        <5> QED
          BY ONLY <5>2, <5>3
      <4>3. d = [c EXCEPT !.ops = b]
        BY ONLY <1>7, <4>4 DEF ChainRecord
      <4> QED
        BY ONLY <4>1, <4>2, <4>3 DEF Future!PutOff, Future!Attach
    <3>4. futures' = [futures EXCEPT ![i] = g]
      BY ONLY <1>6, <3>2, <3>3 DEF Future!Defer
    <3>5. chains' = [chains EXCEPT ![i] = d]
      BY ONLY <1>6, <3>2, <3>3 DEF Future!Defer
    <3>6. d \in ChainRecord /\ g \in FutureRecord /\ SlotSound(promise, thens + 1, d, g)
      BY ONLY <1>2, <1>5, <1>7, <3>1, DeferSound
    <3>7. thens + 1 \in Nat /\ thens <= thens + 1
      BY ONLY <1>2
    <3> QED
      BY ONLY <1>2, <1>3, <3>4, <3>5, <3>6, <3>7, i \in Future!Slots, SlotChanged
  <2> QED
    BY ONLY <2>1, <2>2
<1> QED
  BY ONLY <1>3, <1>4, <1>8 DEF FutureInv, Waits, Delivers

LEMMA MovePreserves ==
  ASSUME FutureInv, NEW to \in Future!Slots, NEW from \in Future!Slots, Future!Move(to, from)
  PROVE  FutureInv'
<1>1. /\ Slotted /\ Delivers /\ promise \in [Future!Promises -> Outcome] /\ thens \in Nat
      /\ futures \in [Future!Slots -> FutureRecord] /\ chains \in [Future!Slots -> ChainRecord]
  BY DEF FutureInv, FutureType
<1>2. PICK n, e : n = Future!Nothing /\ e = Future!Chain(Future!Empty)
  OBVIOUS
<1>3. /\ consumer = "none"
      /\ futures' = [futures EXCEPT ![to] = futures[from], ![from] = n]
      /\ chains' = [chains EXCEPT ![to] = chains[from], ![from] = e]
      /\ promise' = promise /\ thens' = thens /\ consumer' = consumer /\ done' = done
  BY <1>2 DEF Future!Move
<1>4. /\ n = [kind |-> "Nothing", from |-> 0, try |-> Future!Unset, deferred |-> <<>>]
      /\ e = [source |-> [type |-> "empty", try |-> Future!Unset, from |-> 0], ops |-> <<>>, ran |-> <<>>]
  BY ONLY <1>2 DEF Future!Nothing, Future!Chain, Future!Empty
<1>5. n \in FutureRecord
  <2>1. 0 \in 0 .. Future!LastPromise /\ Future!Unset \in Outcome /\ <<>> \in Seq(OpRecord)
    BY LastPromiseNat DEF Outcome
  <2> QED
    BY ONLY <1>4, <2>1 DEF FutureRecord
<1>6. e \in ChainRecord
  <2>1. PICK s : s = [type |-> "empty", try |-> Future!Unset, from |-> 0]
    OBVIOUS
  <2>2. Future!Unset \in Outcome /\ 0 \in 0 .. Count /\ <<>> \in Seq(OpRecord) /\ <<>> \in Seq(Nat)
    BY CountAssumption DEF Outcome
  <2>3. s \in SourceRecord
    BY ONLY <2>1, <2>2 DEF SourceRecord
  <2>4. e = [source |-> s, ops |-> <<>>, ran |-> <<>>]
    BY ONLY <1>4, <2>1
  <2> QED
    BY ONLY <2>2, <2>3, <2>4 DEF ChainRecord
<1>7. SlotSound(promise, thens, e, n)
  <2>1. n.kind = "Nothing" /\ e.source.type = "empty" /\ DOMAIN e.ops = {}
    BY ONLY <1>4
  <2> QED
    BY ONLY <2>1 DEF SlotSound
<1>8. FutureType'
  BY ONLY <1>1, <1>3, <1>5, <1>6, to \in Future!Slots, from \in Future!Slots DEF FutureType
<1>9. ASSUME NEW j \in Future!Slots PROVE SlotSound(promise, thens, chains'[j], futures'[j])
  <2>1. CASE j = from
    <3>1. chains'[j] = e /\ futures'[j] = n
      BY ONLY <1>1, <1>3, <2>1, from \in Future!Slots
    <3> QED
      BY ONLY <1>7, <3>1
  <2>2. CASE j = to /\ j # from
    <3>1. chains'[j] = chains[from] /\ futures'[j] = futures[from]
      BY ONLY <1>1, <1>3, <2>2, to \in Future!Slots
    <3> QED
      BY ONLY <1>1, <3>1, from \in Future!Slots DEF Slotted
  <2>3. CASE j # from /\ j # to
    <3>1. chains'[j] = chains[j] /\ futures'[j] = futures[j]
      BY ONLY <1>1, <1>3, <1>9, <2>3
    <3> QED
      BY ONLY <1>1, <1>9, <3>1 DEF Slotted
  <2> QED
    BY ONLY <2>1, <2>2, <2>3
<1>10. Slotted'
  BY ONLY <1>3, <1>9 DEF Slotted
<1>11. ~done
  BY ONLY <1>1, <1>3 DEF Delivers
<1> QED
  BY ONLY <1>3, <1>8, <1>10, <1>11 DEF FutureInv, Waits, Delivers

LEMMA FulfilPreserves ==
  ASSUME FutureInv, NEW p \in Future!Promises, NEW try \in Future!Tries(p), Future!Fulfil(p, try)
  PROVE  FutureInv'
<1>1. /\ promise \in [Future!Promises -> Outcome] /\ thens \in Nat
      /\ futures \in [Future!Slots -> FutureRecord] /\ chains \in [Future!Slots -> ChainRecord]
  BY DEF FutureInv, FutureType
<1>2. PICK pr, qr : pr = promise /\ qr = [pr EXCEPT ![p] = try]
  OBVIOUS
<1>3. /\ pr[p] = Future!Unset /\ promise' = qr /\ futures' = futures /\ chains' = chains /\ thens' = thens
      /\ consumer' = consumer /\ semisIndices' = semisIndices /\ results' = results /\ done' = done
  BY <1>2 DEF Future!Fulfil
<1>4. try \in Settled
  <2>1. p \in Nat
    BY LastPromiseNat
  <2> QED
    BY <2>1 DEF Future!Tries, Settled
<1>5. pr \in [Future!Promises -> Outcome] /\ qr \in [Future!Promises -> Outcome]
  BY ONLY <1>1, <1>2, <1>4, p \in Future!Promises DEF Outcome
<1>6. ASSUME NEW i \in Future!Slots PROVE SlotSound(qr, thens, chains[i], futures[i])
  <2>1. PICK c, f : c = chains[i] /\ f = futures[i]
    OBVIOUS
  <2>2. SlotSound(pr, thens, c, f) /\ c \in ChainRecord /\ f \in FutureRecord
    BY <1>1, <1>2, <2>1 DEF FutureInv, Slotted
  <2>3. Sound(pr, c, f) => Sound(qr, c, f)
    BY ONLY <1>2, <1>3, <1>4, <1>5, <2>2, p \in Future!Promises, PromiseFulfilled
  <2> QED
    BY ONLY <2>1, <2>2, <2>3 DEF SlotSound
\* What can be taken stays what it is.
<1>7. ASSUME NEW i \in Future!Slots, Ready(pr, futures[i])
      PROVE  Ready(qr, futures[i]) /\ Reads(qr, futures[i]) = Reads(pr, futures[i])
  <2>1. PICK f : f = futures[i]
    OBVIOUS
  <2>2. f \in FutureRecord /\ Ready(pr, f)
    BY <1>1, <1>7, <2>1
  <2>3. qr = [pr EXCEPT ![p] = try] /\ pr[p] = Future!Unset
    BY ONLY <1>2, <1>3
  <2>4. Reads(qr, f) = Reads(pr, f)
    <3>1. f.from \in 0 .. Future!LastPromise /\ Reads(pr, f) # Future!Unset
      BY <2>2 DEF Ready, FutureRecord
    <3>2. CASE f.from = 0
      BY ONLY <3>2 DEF Reads
    <3>3. CASE f.from # 0
      <4>1. f.from \in Future!Promises /\ f.from # p
        BY ONLY <2>3, <3>1, <3>3, LastPromiseNat DEF Reads
      <4>2. qr[f.from] = pr[f.from]
        BY ONLY <1>5, <2>3, <4>1
      <4> QED
        BY ONLY <3>3, <4>2 DEF Reads
    <3> QED
      BY ONLY <3>2, <3>3
  <2> QED
    BY ONLY <2>1, <2>2, <2>4 DEF Ready
<1>8. FutureType' /\ Slotted'
  BY ONLY <1>1, <1>3, <1>5, <1>6 DEF FutureType, Slotted
<1>9. Waits'
  <2>1. ASSUME consumer # "none" /\ ~done, NEW i \in Future!Slots
        PROVE  Taken(i, Future!Range(semisIndices), results[i], qr, futures[i])
    <3>1. Taken(i, Future!Range(semisIndices), results[i], pr, futures[i])
      BY <1>2, <2>1 DEF FutureInv, Waits
    <3> QED
      BY ONLY <1>7, <2>1, <3>1 DEF Taken
  <2> QED
    BY ONLY <1>3, <2>1 DEF Waits
<1>10. Delivers'
  <2>1. CASE done
    <3>2. /\ consumer # "none"
          /\ \A i \in Future!Slots : futures[i].kind # "Nothing" => Ready(pr, futures[i])
          /\ results = IF consumer = "collectAllSafe" THEN Future!Unwrap(Settles(pr, chains, futures))
                       ELSE Settles(pr, chains, futures)
      BY <1>2, <2>1 DEF FutureInv, Delivers
    <3>3. \A i \in Future!Slots : chains[i].source.type # "empty" => futures[i].kind # "Nothing"
      BY DEF FutureInv, Slotted, SlotSound
    <3>4. Settles(qr, chains, futures) = Settles(pr, chains, futures)
      BY ONLY <1>7, <3>2, <3>3 DEF Settles
    <3>5. \A i \in Future!Slots : futures[i].kind # "Nothing" => Ready(qr, futures[i])
      BY ONLY <1>7, <3>2
    <3> QED
      BY ONLY <1>3, <3>2, <3>4, <3>5 DEF Delivers
  <2>2. CASE ~done
    BY ONLY <1>3, <2>2 DEF Delivers
  <2> QED
    BY ONLY <2>1, <2>2
<1> QED
  BY ONLY <1>8, <1>9, <1>10 DEF FutureInv

LEMMA ConsumePreserves ==
  ASSUME FutureInv, NEW how, how # "none", Future!Consume(how)
  PROVE  FutureInv'
<1>1. /\ consumer = "none" /\ semisIndices' \in Future!InOrder(Future!NotReady)
      /\ results' = [i \in Future!Slots |->
           IF i \in Future!Valid /\ Future!IsReady(futures[i]) THEN Future!SourceTry(futures[i]) ELSE Future!Unset]
      /\ promise' = promise /\ futures' = futures /\ chains' = chains /\ thens' = thens /\ done' = done
  BY DEF Future!Consume
<1>2. PICK places : places = Future!NotReady
  OBVIOUS
<1>3. Future!Range(semisIndices') = places
  <2>1. PICK s, n : s = semisIndices' /\ n = Future!Cardinality(places)
    OBVIOUS
  <2>2. s \in [1 .. n -> places] /\ \A i \in places : \E k \in DOMAIN s : s[k] = i
    <3>1. s \in Future!InOrder(places)
      BY ONLY <1>1, <1>2, <2>1
    <3>2. s \in [1 .. Future!Cardinality(places) -> places]
      BY ONLY <3>1 DEF Future!InOrder
    <3>3. \A i \in places : \E k \in DOMAIN s : s[k] = i
      BY ONLY <3>1 DEF Future!InOrder
    <3> QED
      BY ONLY <2>1, <3>2, <3>3
  <2> QED
    BY ONLY <2>1, <2>2 DEF Future!Range
<1>4. FutureType' /\ Slotted'
  <2>1. FutureType /\ Slotted
    BY DEF FutureInv
  <2> QED
    BY ONLY <1>1, <2>1 DEF FutureType, Slotted
<1>5. ~done
  BY <1>1 DEF FutureInv, Delivers
<1>6. ASSUME NEW i \in Future!Slots PROVE Taken(i, places, results'[i], promise, futures[i])
  <2>1. PICK f, c : f = futures[i] /\ c = chains[i]
    OBVIOUS
  <2>2. SlotSound(promise, thens, c, f)
    BY <2>1 DEF FutureInv, Slotted
  <2>3. /\ i \in Future!Valid <=> f.kind # "Nothing"
        /\ i \in places <=> f.kind # "Nothing" /\ ~Future!IsReady(f)
    BY <1>2, <2>1 DEF Future!Valid, Future!NotReady
  <2>4. results'[i] = IF f.kind # "Nothing" /\ Future!IsReady(f) THEN Future!SourceTry(f) ELSE Future!Unset
    BY ONLY <1>1, <1>6, <2>1, <2>3
  <2>5. (f.kind # "Nothing" /\ Future!IsReady(f)) => Ready(promise, f)
    BY ONLY <2>2, ReadyIs
  <2>6. Future!SourceTry(f) = Reads(promise, f)
    BY DEF Future!SourceTry, Reads
  <2>7. Taken(i, places, results'[i], promise, f)
    BY ONLY <2>3, <2>4, <2>5, <2>6 DEF Taken
  <2> QED
    BY ONLY <2>1, <2>7
<1>7. Waits'
  BY ONLY <1>1, <1>3, <1>6 DEF Waits
<1>8. Delivers'
  BY ONLY <1>1, <1>5 DEF Delivers
<1> QED
  BY ONLY <1>4, <1>7, <1>8 DEF FutureInv

LEMMA DrivePreserves ==
  ASSUME FutureInv, NEW i \in Future!Slots, Future!Drive(i)
  PROVE  FutureInv'
<1>1. /\ FutureType /\ Slotted /\ Waits /\ thens \in Nat
      /\ futures \in [Future!Slots -> FutureRecord] /\ chains \in [Future!Slots -> ChainRecord]
  BY DEF FutureInv, FutureType
<1>2. PICK c, f : c = chains[i] /\ f = futures[i]
  OBVIOUS
<1>3. PICK op, try, h, g, d :
        /\ op = Head(f.deferred) /\ try = Future!SourceTry(f) /\ h = Future!Continue(op, try)
        /\ g = Driven(h, f) /\ d = Future!Ran(c, op, try)
  OBVIOUS
<1>4. /\ consumer # "none" /\ ~done /\ i \in Future!Range(semisIndices) /\ f.deferred # <<>> /\ Future!HasResult(f)
      /\ chains' = [chains EXCEPT ![i] = d] /\ futures' = [futures EXCEPT ![i] = g]
      /\ promise' = promise /\ thens' = thens /\ consumer' = consumer /\ semisIndices' = semisIndices
      /\ results' = results /\ done' = done
  BY <1>2, <1>3 DEF Future!Drive, Driven
<1>5. c \in ChainRecord /\ f \in FutureRecord /\ SlotSound(promise, thens, c, f)
  BY ONLY <1>1, <1>2, i \in Future!Slots DEF Slotted
<1>6. f.kind # "Nothing"
  <2>1. Taken(i, Future!Range(semisIndices), results[i], promise, f)
    BY ONLY <1>1, <1>2, <1>4, i \in Future!Slots DEF Waits
  <2> QED
    BY ONLY <1>4, <2>1 DEF Taken
<1>8. d \in ChainRecord /\ g \in FutureRecord /\ SlotSound(promise, thens, d, g) /\ g.kind = "SemiFuture"
  BY ONLY <1>1, <1>3, <1>4, <1>5, <1>6, DriveSound
<1>9. FutureType' /\ Slotted'
  <2>1. thens <= thens
    BY ONLY <1>1
  <2> QED
    BY ONLY <1>1, <1>4, <1>8, <2>1, i \in Future!Slots, SlotChanged
<1>10. Waits'
  <2>1. ASSUME NEW j \in Future!Slots
        PROVE  Taken(j, Future!Range(semisIndices), results[j], promise, futures'[j])
    <3>1. CASE j = i
      <4>1. futures'[j] = g
        BY ONLY <1>1, <1>4, <3>1, i \in Future!Slots
      <4> QED
        BY ONLY <1>4, <1>8, <3>1, <4>1 DEF Taken
    <3>2. CASE j # i
      <4>1. futures'[j] = futures[j]
        BY ONLY <1>1, <1>4, <2>1, <3>2
      <4> QED
        BY ONLY <1>1, <1>4, <2>1, <4>1 DEF Waits
    <3> QED
      BY ONLY <3>1, <3>2
  <2> QED
    BY ONLY <1>4, <2>1 DEF Waits
<1>11. Delivers'
  BY ONLY <1>4 DEF Delivers
<1> QED
  BY ONLY <1>9, <1>10, <1>11 DEF FutureInv

LEMMA FinishPreserves ==
  ASSUME FutureInv, Future!Finish
  PROVE  FutureInv'
<1>1. PICK res : res = [i \in Future!Slots |-> Future!PutBack(i, semisIndices)]
  OBVIOUS
<1>2. /\ consumer # "none" /\ ~done /\ \A i \in Future!Range(semisIndices) : Future!SemiIsReady(futures[i])
      /\ results' = IF consumer = "collectAllSafe" THEN Future!Unwrap(res) ELSE res
      /\ done' = TRUE /\ promise' = promise /\ futures' = futures /\ chains' = chains /\ thens' = thens
      /\ consumer' = consumer
  BY <1>1 DEF Future!Finish
<1>3. ASSUME NEW i \in Future!Slots
      PROVE  /\ futures[i].kind # "Nothing" => Ready(promise, futures[i])
             /\ Future!PutBack(i, semisIndices)
                = IF chains[i].source.type = "empty" THEN Future!Unset ELSE Reads(promise, futures[i])
  <2>1. PICK f, c, places, r : f = futures[i] /\ c = chains[i] /\ places = Future!Range(semisIndices) /\ r = results[i]
    OBVIOUS
  <2>2. SlotSound(promise, thens, c, f) /\ Taken(i, places, r, promise, f)
    BY <1>2, <2>1 DEF FutureInv, Slotted, Waits
  <2>3. (f.kind # "Nothing" /\ i \in places) => Ready(promise, f)
    BY ONLY <1>2, <2>1, <2>2, ReadyIs
  <2>4. f.kind # "Nothing" => Ready(promise, f)
    BY ONLY <2>2, <2>3 DEF Taken
  <2>5. Future!SourceTry(f) = Reads(promise, f)
    BY DEF Future!SourceTry, Reads
  <2>6. Future!PutBack(i, semisIndices) = IF i \in places THEN Reads(promise, f) ELSE r
    BY ONLY <2>1, <2>5 DEF Future!PutBack
  <2>7. f.kind = "Nothing" <=> c.source.type = "empty"
    BY ONLY <2>2 DEF SlotSound
  <2>8. (IF i \in places THEN Reads(promise, f) ELSE r) = IF c.source.type = "empty" THEN Future!Unset ELSE Reads(promise, f)
    BY ONLY <2>2, <2>7 DEF Taken
  <2> QED
    BY ONLY <2>1, <2>4, <2>6, <2>8
<1>4. res = Settles(promise, chains, futures)
  BY ONLY <1>1, <1>3 DEF Settles
<1>5. FutureType' /\ Slotted'
  <2>1. FutureType /\ Slotted
    BY DEF FutureInv
  <2> QED
    BY ONLY <1>2, <2>1 DEF FutureType, Slotted
<1>6. Waits'
  BY ONLY <1>2 DEF Waits
<1>7. Delivers'
  BY ONLY <1>2, <1>3, <1>4 DEF Delivers
<1> QED
  BY ONLY <1>5, <1>6, <1>7 DEF FutureInv

LEMMA FutureStep == FutureInv /\ [Future!Next]_(Future!vars) => FutureInv'
<1> SUFFICES ASSUME FutureInv, [Future!Next]_(Future!vars) PROVE FutureInv'
  OBVIOUS
<1>1. ASSUME NEW i \in Future!Slots, NEW method \in Future!Methods, NEW callback \in Future!Callbacks(method),
             Future!Then(i, method, callback)
      PROVE  FutureInv'
  BY <1>1, ThenPreserves
<1>2. ASSUME NEW to \in Future!Slots, NEW from \in Future!Slots, Future!Move(to, from) PROVE FutureInv'
  BY <1>2, MovePreserves
<1>3. ASSUME NEW p \in Future!Promises, NEW try \in Future!Tries(p), Future!Fulfil(p, try) PROVE FutureInv'
  BY <1>3, FulfilPreserves
<1>4. ASSUME NEW how \in {"collectAll", "collectAllSafe", "collectAllValid"}, Future!Consume(how) PROVE FutureInv'
  BY <1>4, ConsumePreserves
<1>5. ASSUME NEW i \in Future!Slots, Future!Drive(i) PROVE FutureInv'
  BY <1>5, DrivePreserves
<1>6. CASE Future!Finish
  BY <1>6, FinishPreserves
<1>7. CASE UNCHANGED Future!vars
  BY <1>7 DEF Future!vars, FutureInv, FutureType, Slotted, Waits, Delivers
<1> QED
  BY <1>1, <1>2, <1>3, <1>4, <1>5, <1>6, <1>7 DEF Future!Next

LEMMA FutureResult == FutureInv => ResultIndependentOfTiming
<1> SUFFICES ASSUME FutureInv, done PROVE ResultIndependentOfTiming
  BY DEF ResultIndependentOfTiming, Future!ResultIndependentOfTiming
<1>1. ASSUME NEW i \in Future!Slots, chains[i].source.type # "empty"
      PROVE  /\ Future!Composed(chains[i])[Len(chains[i].ops)] = Reads(promise, futures[i])
             /\ Future!Range(chains[i].ran) = Future!Called(chains[i]) /\ Increases(chains[i].ran)
  <2>1. PICK f, c : f = futures[i] /\ c = chains[i]
    OBVIOUS
  <2>2. f \in FutureRecord /\ c \in ChainRecord /\ SlotSound(promise, thens, c, f)
    BY <2>1 DEF FutureInv, FutureType, Slotted
  <2>3. f.kind # "Nothing" /\ Sound(promise, c, f)
    BY <1>1, <2>1, <2>2 DEF SlotSound
  <2>4. f.deferred = <<>>
    BY <2>1, <2>3 DEF FutureInv, Delivers, Ready
  <2> QED
    BY ONLY <2>1, <2>2, <2>3, <2>4, CompositionReached
<1>2. results = Future!Expected
  <2>1. Settles(promise, chains, futures)
        = [i \in Future!Slots |-> IF chains[i].source.type = "empty" THEN Future!Unset
                                  ELSE Future!Composed(chains[i])[Len(chains[i].ops)]]
    BY ONLY <1>1 DEF Settles
  <2>2. results = IF consumer = "collectAllSafe" THEN Future!Unwrap(Settles(promise, chains, futures))
                  ELSE Settles(promise, chains, futures)
    BY DEF FutureInv, Delivers
  <2> QED
    BY ONLY <2>1, <2>2 DEF Future!Expected
<1> QED
  BY ONLY <1>1, <1>2 DEF ResultIndependentOfTiming, Future!ResultIndependentOfTiming, Increases

\* ImmediateFuture.h:17-34, 386-388, for any number of futures and of continuations: whenever the
\* promises are fulfilled and whenever the callbacks happen to run, in a debug or an optimised
\* build, collectAll() gives the results of the plain composition in the order of its arguments,
\* and each callback that the composition calls has run once, in the order of its chain.
THEOREM ResultsIndependentOfTiming == Future!Spec => []ResultIndependentOfTiming
<1>1. Future!Spec => []FutureInv
  BY FutureInit, FutureStep, PTL DEF Future!Spec
<1> QED
  BY <1>1, FutureResult, PTL
=============================================================================
