---------------------------- MODULE BucketedLog ----------------------------
(***************************************************************************)
(* eden/common/utils/BucketedLog.h: a ring of buckets, one for each tick   *)
(* of a sliding window.  Two logs add samples, are read and are merged;    *)
(* the callers' clocks are not in step.                                    *)
(***************************************************************************)
EXTENDS Naturals, FiniteSets

CONSTANTS
  Size,       \* of the window
  MaxTime     \* the last tick: a bound

VARIABLES
  buckets,    \* log -> bucket -> the samples in it, <<log, tick>>s
  windowStart,
  known       \* log -> all samples it was ever given, since clear()

logVars == <<buckets, windowStart, known>>

Logs == {"mine", "other"}
Ticks == 0..MaxTime
Window(log) == windowStart[log]..(windowStart[log] + Size - 1)

Init ==
  /\ buckets = [l \in Logs |-> [b \in 0..(Size - 1) |-> {}]]
  /\ windowStart = [l \in Logs |-> 0]
  /\ known = [l \in Logs |-> {}]

\* advanceWindow(): windowStart_ and buckets_ after it.
Start(log, now) == IF now < windowStart[log] + Size THEN windowStart[log] ELSE now + 1 - Size

\* Mutant: the oldest of the buckets that roll out is not cleared.
Cleared_AllButOne(log, start) ==
  LET toClear == IF start - windowStart[log] < Size THEN start - windowStart[log] ELSE Size
  IN {p % Size : p \in (start - toClear + 1)..(start - 1)}
Cleared(log, start) ==
  LET toClear == IF start - windowStart[log] < Size THEN start - windowStart[log] ELSE Size
  IN {p % Size : p \in (start - toClear)..(start - 1)}

Advanced(log, now) ==
  LET cleared == Cleared(log, Start(log, now))
  IN [b \in 0..(Size - 1) |-> IF b \in cleared THEN {} ELSE buckets[log][b]]

Add(log, now) ==
  /\ now >= windowStart[log]
  /\ windowStart' = [windowStart EXCEPT ![log] = Start(log, now)]
  /\ buckets' = [buckets EXCEPT ![log] = [Advanced(log, now) EXCEPT ![now % Size] = @ \cup {<<log, now>>}]]
  /\ known' = [known EXCEPT ![log] = @ \cup {<<log, now>>}]

\* Values from before the window are ignored.
AddTooLate(log, now) ==
  /\ now < windowStart[log]
  /\ known' = [known EXCEPT ![log] = @ \cup {<<log, now>>}]
  /\ UNCHANGED <<buckets, windowStart>>

\* What getAll() returns, the window being advanced.
GetAllResult(log, now) ==
  LET advanced == Advanced(log, now) IN [i \in 1..Size |-> advanced[(now + i) % Size]]

GetAll(log, now) ==
  /\ windowStart' = [windowStart EXCEPT ![log] = Start(log, now)]
  /\ buckets' = [buckets EXCEPT ![log] = Advanced(log, now)]
  /\ UNCHANGED known

Merge(log, other) ==
  LET now == windowStart[other] + Size - 1
      start == Start(log, now)
      both == (start..(start + Size - 1)) \cap Window(other)
  IN /\ windowStart' = [windowStart EXCEPT ![log] = start]
     /\ buckets' = [buckets EXCEPT ![log] = [b \in 0..(Size - 1) |->
          Advanced(log, now)[b] \cup (IF b \in {t % Size : t \in both} THEN buckets[other][b] ELSE {})]]
     /\ known' = [known EXCEPT ![log] = @ \cup known[other]]

Clear(log) ==
  /\ buckets' = [buckets EXCEPT ![log] = [b \in 0..(Size - 1) |-> {}]]
  /\ known' = [known EXCEPT ![log] = {}]
  /\ UNCHANGED windowStart

Next ==
  \E log \in Logs :
    \/ \E now \in Ticks : Add(log, now) \/ AddTooLate(log, now) \/ GetAll(log, now)
    \/ Merge(log, CHOOSE other \in Logs : other # log)
    \/ Clear(log)

Spec == Init /\ [][Next]_logVars

-----------------------------------------------------------------------------
\* BucketedLog.h:43-112: whatever the order of late additions, jumps of the clock, merges in both
\* directions and reads, each bucket holds exactly the samples of its tick in the window, those
\* merged in included, and getAll() returns them oldest first, when it is
\* asked for a time that is not before the end of the window.
BucketsAreWindow ==
  LET Of(log, t) == {s \in known[log] : s[2] = t} IN
  \A log \in Logs :
    /\ \A t \in Window(log) : buckets[log][t % Size] = Of(log, t)
    /\ \A now \in Ticks : now >= windowStart[log] + Size - 1 =>
         LET all == GetAllResult(log, now)
         IN \A i \in 1..Size : now + i >= Size => all[i] = Of(log, now + i - Size)
=============================================================================
