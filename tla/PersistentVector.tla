-------------------------- MODULE PersistentVector --------------------------
(***************************************************************************)
(* What a MappedDiskVector stores at a path: a vector that survives        *)
(* crashes, failures, reopening and a change of the record format.         *)
(***************************************************************************)
EXTENDS Naturals, Sequences

CONSTANT Values
VARIABLE contents

Init == contents \in Seq(Values)

EmplaceBack(v) == contents' = Append(contents, v)

PopBack ==
  /\ contents # <<>>
  /\ contents' = SubSeq(contents, 1, Len(contents) - 1)

Overwrite == contents' = <<>>

Next == (\E v \in Values : EmplaceBack(v)) \/ PopBack \/ Overwrite

Spec == Init /\ [][Next]_contents
=============================================================================
