--------------------------- MODULE LazyInitialize ---------------------------
(***************************************************************************)
(* eden/common/utils/LazyInitialize.h: lazyInitialize(cond, ptr, init)     *)
(* looks under the read lock and updates under the write lock.  Each lock  *)
(* is one step; an object made by init() is a number, 0 is nullptr.        *)
(***************************************************************************)
EXTENDS Naturals

CONSTANTS
  Threads,
  MaxInits   \* bound on the calls of init()

VARIABLES
  ptr,      \* what the Synchronized<shared_ptr> holds
  inits,    \* number of calls of init()
  pc, cond, \* each caller's position and argument
  result,   \* what the caller's last call returned
  seen      \* history: the number of inits when the caller had the read lock

vars == <<ptr, inits, pc, cond, result, seen>>

Init ==
  /\ ptr = 0 /\ inits = 0
  /\ pc = [t \in Threads |-> "idle"]
  /\ cond = [t \in Threads |-> FALSE]
  /\ result = [t \in Threads |-> 0]
  /\ seen = [t \in Threads |-> 0]

Call(t, c) ==
  /\ pc[t] = "idle"
  /\ pc' = [pc EXCEPT ![t] = "read"]
  /\ cond' = [cond EXCEPT ![t] = c]
  /\ UNCHANGED <<ptr, inits, result, seen>>

\* Mutant of ReadSuffices: every caller goes on to the write lock.
ReadSuffices_Never(t) == FALSE
ReadSuffices(t) == cond[t] <=> ptr # 0

\* The read lock: return what is there if it is what cond asks for.
ReadLocked(t) ==
  /\ pc[t] = "read"
  /\ \/ /\ ReadSuffices(t)
        /\ pc' = [pc EXCEPT ![t] = "idle"]
        /\ result' = [result EXCEPT ![t] = ptr]
     \/ /\ ~ReadSuffices(t)
        /\ pc' = [pc EXCEPT ![t] = "write"]
        /\ UNCHANGED result
  /\ seen' = [seen EXCEPT ![t] = inits]
  /\ UNCHANGED <<ptr, inits, cond>>

\* The write lock: create or reset, whatever the pointer holds by now.
Store(t, object) ==
  /\ ptr' = object
  /\ result' = [result EXCEPT ![t] = object]

WriteLocked(t) ==
  /\ pc[t] = "write"
  /\ \/ /\ cond[t]
        /\ inits < MaxInits
        /\ inits' = inits + 1
        /\ Store(t, inits + 1)
     \/ /\ ~cond[t]
        /\ Store(t, 0)
        /\ UNCHANGED inits
  /\ pc' = [pc EXCEPT ![t] = "idle"]
  /\ UNCHANGED <<cond, seen>>

Next == \E t \in Threads : ReadLocked(t) \/ WriteLocked(t) \/ \E c \in BOOLEAN : Call(t, c)

Spec == Init /\ [][Next]_vars

\* "This function ensures `init` will only be called once when it is needed" (h:22): init() is
\* called only to fill a null pointer.
InitOnlyWhenNeeded == [][inits' # inits => ptr = 0]_vars

\* What the look under the read lock does keep of that promise: init() is called over an
\* existing object only by a caller that had looked before that object was made.  Callers
\* that come later reuse it.
LateCallersReuse ==
  \A t \in Threads : pc[t] = "write" /\ cond[t] => ptr = 0 \/ ptr > seen[t]
=============================================================================
