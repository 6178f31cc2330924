------------------------------ MODULE Services ------------------------------
(***************************************************************************)
(* Child processes: waiting for one and signalling it (SpawnedProcess),    *)
(* and talking to one through pipes (Communicate).  What is stated of each *)
(* here is checked by MCServices on small instances and is what            *)
(* ServicesProofs is about.                                                *)
(***************************************************************************)
EXTENDS Naturals, Sequences

CONSTANTS Capacity, BufSize, Input, Noise, MaxInterrupts   \* Communicate

VARIABLES
  process, exit, ours, reapedElsewhere, pidReused, strangerSignalled, processHandle, call, timer, future,
  threaded, piped, data, pipes, childEnds, echo, toSay, said, heard, toWrite, outputs, revents, readers, commPc,
  interrupts

ASSUME InputAssumption == Input \in Seq({Input[i] : i \in 1 .. Len(Input)})
ASSUME NoiseAssumption == Noise \in Nat
ASSUME BufSizeAssumption == BufSize \in Nat \ {0}

Process == INSTANCE SpawnedProcess WITH handle <- processHandle
Comm == INSTANCE Communicate WITH pc <- commPc

-----------------------------------------------------------------------------
\* SpawnedProcess.cpp:749-780, 885-936, 1043-1055: statuses are true, strangers get no signals.
WaitedTruthfully == Process!WaitedTruthfully

\* SpawnedProcess.cpp:1067-1216: communicate() loses no output and no input.
CommunicateComplete == Comm!CommunicateComplete
=============================================================================
