------------------------------- MODULE RefPtr -------------------------------
(***************************************************************************)
(* eden/common/utils/RefPtr.h: intrusive reference counts.  Pointers to    *)
(* one object, in the hands of several threads, are copied, moved, reset   *)
(* and destroyed; dropping a reference first looks whether it is the last. *)
(***************************************************************************)
EXTENDS Naturals, FiniteSets

CONSTANT Pointers    \* RefPtrs, each used by one thread at a time

VARIABLES
  ptr,       \* pointer -> "null", "owned" or "unowned": ptr_ with kOwnedBit or without
  dropping,  \* pointer -> what decRef() does next, and what ptr_ becomes then
  refcnt,    \* refcnt_
  deleted    \* how often the object was deleted

refVars == <<ptr, dropping, refcnt, deleted>>

Idle == [step |-> "idle", from |-> "nobody"]
Quiet(p) == dropping[p] = Idle /\ \A q \in Pointers : dropping[q].from # p
Owners == {p \in Pointers : ptr[p] = "owned"}

\* makeRefPtr(), or singleton() of an object of static lifetime.
Init ==
  \E first \in Pointers, kind \in {"owned", "unowned"} :
    /\ ptr = [p \in Pointers |-> IF p = first THEN kind ELSE "null"]
    /\ dropping = [p \in Pointers |-> Idle]
    /\ refcnt = 1 /\ deleted = 0

\* to is a new pointer.
Copy(from, to) ==
  /\ Quiet(from) /\ Quiet(to) /\ ptr[to] = "null" /\ ptr[from] # "null"
  /\ refcnt' = IF ptr[from] = "owned" THEN refcnt + 1 ELSE refcnt
  /\ ptr' = [ptr EXCEPT ![to] = ptr[from]]
  /\ UNCHANGED <<dropping, deleted>>

\* ptr_ of both after decRef(): reset() and the destructor move from nobody.
Taken(to, from) ==
  [p \in Pointers |-> IF p = from \/ (p = to /\ from \in {"nobody", to}) THEN "null"
                      ELSE IF p = to THEN ptr[from] ELSE ptr[p]]

\* operator= (from is a pointer, itself perhaps), reset() and the destructor.
Drop(to, from) ==
  /\ Quiet(to) /\ (from \in Pointers => Quiet(from))
  /\ IF ptr[to] = "owned"
     THEN dropping' = [dropping EXCEPT ![to] = [step |-> "load", from |-> from]] /\ UNCHANGED ptr
     ELSE ptr' = Taken(to, from) /\ UNCHANGED dropping
  /\ UNCHANGED <<refcnt, deleted>>

Finish(p) == ptr' = Taken(p, dropping[p].from) /\ dropping' = [dropping EXCEPT ![p] = Idle]

\* Avoids the atomic decrement: nobody else has a reference to copy.
Load(p) ==
  /\ dropping[p].step = "load"
  /\ IF refcnt = 1
     THEN deleted' = deleted + 1 /\ Finish(p)
     ELSE dropping' = [dropping EXCEPT ![p].step = "subtract"] /\ UNCHANGED <<ptr, deleted>>
  /\ UNCHANGED refcnt

\* Mutant: the object is left alone, since the count was not 1 before.
LastReference_Loaded == FALSE
LastReference == refcnt = 1

Subtract(p) ==
  /\ dropping[p].step = "subtract"
  /\ refcnt' = refcnt - 1
  /\ deleted' = IF LastReference THEN deleted + 1 ELSE deleted
  /\ Finish(p)

Next ==
  \E p \in Pointers :
    \/ \E q \in Pointers : Copy(p, q) \/ Drop(p, q)
    \/ Drop(p, "nobody") \/ Load(p) \/ Subtract(p)

Spec == Init /\ [][Next]_refVars

-----------------------------------------------------------------------------
\* RefPtr.h:36-50, 121-262: in every interleaving of drops the object is deleted once, when the
\* last owner drops it and not before, and never when it is a singleton; two threads
\* that drop the last two references at the same time do not both take the short cut.
DeletedByLastOwner ==
  LET used == Owners # {} IN
  /\ deleted <= 1
  /\ used => deleted = 0 /\ refcnt = Cardinality(Owners)
  /\ ~used => deleted = 1 \/ \A p \in Pointers : ptr[p] \in {"null", "unowned"} /\ refcnt = 1
=============================================================================
