---------------------------- MODULE CoverageSet ----------------------------
(***************************************************************************)
(* eden/common/utils/CoverageSet.cpp: intervals [begin, end) are added,    *)
(* and covers() tells whether an interval is covered by those added.       *)
(***************************************************************************)
EXTENDS Naturals, FiniteSetsExt

CONSTANT MaxEnd   \* the intervals lie within 0..MaxEnd

VARIABLES
  set,            \* set_: <<begin, end>>s, ordered by begin
  added           \* the points of all that was added since clear()

coverageVars == <<set, added>>

Points(begin, end) == begin..(end - 1)
First(intervals) == CHOOSE i \in intervals : \A j \in intervals : i[1] <= j[1]
Last(intervals) == CHOOSE i \in intervals : \A j \in intervals : i[1] >= j[1]

\* The interval before the new one, if the new one continues it.
Continued(begin) ==
  LET before == {i \in set : i[1] < begin}
  IN IF before # {} /\ Last(before)[2] = begin THEN {Last(before)} ELSE {}

\* The loop over the intervals that begin at or behind begin takes in those that begin
\* before the end or at it, which moves the end.
\* Mutant: an interval that begins one behind the end is taken in, too.
MovedEnd_OneMore(begin, end) ==
  LET after == {i \in set : i[1] >= begin}
      ends == {e \in {end} \cup {i[2] : i \in after} : e >= end}
  IN Min({e \in ends : \A i \in after : i[1] <= e + 1 => i[2] <= e})
MovedEnd(begin, end) ==
  LET after == {i \in set : i[1] >= begin}
      ends == {e \in {end} \cup {i[2] : i \in after} : e >= end}
  IN Min({e \in ends : \A i \in after : i[1] <= e => i[2] <= e})

Add(begin, end) ==
  /\ added' = added \cup Points(begin, end)
  /\ IF begin = end THEN UNCHANGED set
     ELSE LET newBegin == IF Continued(begin) = {} THEN begin ELSE First(Continued(begin))[1]
              newEnd == MovedEnd(begin, end)
              after == {i \in set : i[1] \in begin..newEnd}
          IN set' = ((set \ Continued(begin)) \ after) \cup {<<newBegin, newEnd>>}

Clear == set # {} /\ set' = {} /\ added' = {}

Covers(begin, end) ==
  \/ begin = end
  \/ LET notBehind == {i \in set : i[1] <= begin}
     IN notBehind # {} /\ end <= Last(notBehind)[2]

Init == set = {} /\ added = {}
Next == Clear \/ \E begin \in 0..MaxEnd : \E end \in begin..MaxEnd : Add(begin, end)
Spec == Init /\ [][Next]_coverageVars

-----------------------------------------------------------------------------
\* CoverageSet.cpp:21-95: in whatever order overlapping and adjacent intervals are added,
\* covers() answers true only for an interval all of whose points were added, and no point
\* that was added has been lost from the set.
CoversOnlyCovered ==
  /\ \A begin \in 0..MaxEnd : \A end \in begin..MaxEnd : Covers(begin, end) => Points(begin, end) \subseteq added
  /\ added = UNION {Points(i[1], i[2]) : i \in set}

\* CoverageSet.h:36-39: "Returns true if the interval [begin, end) is fully covered by the
\* previously-inserted intervals."
CoversAllCovered ==
  \A begin \in 0..MaxEnd : \A end \in begin..MaxEnd : Points(begin, end) \subseteq added => Covers(begin, end)
=============================================================================
