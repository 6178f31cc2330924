------------------------------- MODULE IDGen -------------------------------
(***************************************************************************)
(* eden/common/utils/IDGen.cpp: generateUniqueID() hands out IDs from a    *)
(* range that the thread took from a global atomic counter.  fetch_add is  *)
(* the only access to shared state, so a call is one step.  uint64_t       *)
(* arithmetic is modulo Modulus, a multiple of the range size as 2^64 is.  *)
(***************************************************************************)
EXTENDS Naturals, FiniteSets

CONSTANTS
  Threads,     \* slots in which threads run one after the other
  kRangeSize,
  Ranges       \* how many ranges the counter can hand out before it wraps

Modulus == kRangeSize * Ranges

VARIABLES
  counter,       \* global.counter
  localCounter,  \* the thread_local of the thread in each slot
  fetches,       \* history: number of fetch_adds
  calls, handed  \* history: number of calls, and the IDs they returned

vars == <<counter, localCounter, fetches, calls, handed>>

TypeOK ==
  /\ counter \in 0 .. (Modulus - 1)
  /\ localCounter \in [Threads -> 0 .. (Modulus - 1)]
  /\ fetches \in 0 .. Ranges
  /\ calls \in Nat
  /\ handed \subseteq 0 .. (Modulus - 1)

Init ==
  /\ counter = 0
  /\ localCounter = [t \in Threads |-> 0]
  /\ fetches = 0
  /\ calls = 0 /\ handed = {}

RangeExhausted(t) == localCounter[t] % kRangeSize = 0

\* Mutant of FetchAdd: the global counter advances by one.
FetchAdd_One == counter' = (counter + 1) % Modulus
FetchAdd == counter' = (counter + kRangeSize) % Modulus

Increment(current) == (current + 1) % Modulus

Return(t, current) ==
  LET id == Increment(current) IN
  /\ localCounter' = [localCounter EXCEPT ![t] = id]
  /\ calls' = calls + 1
  /\ handed' = handed \union {id}

\* generateUniqueID() with a new range ...
GenerateFromNewRange(t) ==
  /\ RangeExhausted(t)
  /\ fetches < Ranges
  /\ FetchAdd
  /\ fetches' = fetches + 1
  /\ Return(t, counter)

\* ... and inside the thread's range.
GenerateFromRange(t) ==
  /\ ~RangeExhausted(t)
  /\ Return(t, localCounter[t])
  /\ UNCHANGED <<counter, fetches>>

\* The thread ends, and a new one starts with a fresh thread_local.
NewThread(t) ==
  /\ localCounter[t] # 0
  /\ localCounter' = [localCounter EXCEPT ![t] = 0]
  /\ UNCHANGED <<counter, fetches, calls, handed>>

Next ==
  \E t \in Threads : GenerateFromNewRange(t) \/ GenerateFromRange(t) \/ NewThread(t)

Spec == Init /\ [][Next]_vars

\* IDGen.h:15: "a new uint64_t unique to this process": every call until the
\* counter wraps has returned a different ID, however threads come and go.
\* IDGen.h:18: "All returned IDs are nonzero": true until the very last range is
\* handed out, whose last ID is 0.
IDsUniqueNonzero ==
  /\ TypeOK
  /\ Cardinality(handed) = calls
  /\ 0 \in handed => fetches = Ranges
=============================================================================
