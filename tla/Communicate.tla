---------------------------- MODULE Communicate ----------------------------
(***************************************************************************)
(* SpawnedProcess::communicate(), eden/common/utils/SpawnedProcess.cpp:    *)
(* the parent feeds a child and collects its output through pipes of       *)
(* bounded capacity, by polling (POSIX) or with reader threads (Windows,   *)
(* and the tests everywhere).  The child answers what it reads, or talks   *)
(* without listening, and may die at any moment.                           *)
(***************************************************************************)
EXTENDS Naturals, Sequences

CONSTANTS
  Capacity,      \* of a pipe, in chunks
  BufSize,       \* what one read() takes at most, in chunks
  Input,         \* the chunks the write callback has to write, in order
  Noise,         \* a child that does not listen says twice as many chunks
  MaxInterrupts  \* how often a read is interrupted: a bound

VARIABLES
  threaded,      \* threadedCommunicate() is called, not pollingCommunicate()
  piped,         \* the streams that pipeStdin() and so on have made pipes of
  data,          \* stream -> what is in its pipe
  pipes,         \* pipes_: the streams whose parent's end is open
  childEnds,     \* the streams whose child's end is open
  echo,          \* the streams on which the child repeats its input
  toSay,         \* what the child will write next: <<stream, chunk>>s
  said, heard,   \* stream -> all the child has written; all it has read
  toWrite,       \* the write callback's remaining chunks
  outputs,       \* stream -> what the parent has collected
  revents,       \* stream -> what poll() has reported and is not handled yet
  readers,       \* stream -> "none", "reading" or "done": the threads of readPipe()
  pc,            \* where communicate() is
  interrupts

parentVars == <<pipes, toWrite, outputs, revents, readers, pc, interrupts>>
childVars == <<childEnds, toSay, said, heard>>
commVars == <<threaded, piped, data, echo, parentVars, childVars>>

Outputs == {"stdout", "stderr"}
Streams == Outputs \cup {"stdin"}
Nothing == [s \in Outputs |-> <<>>]
NoEvents == [s \in Streams |-> {}]

Init ==
  /\ threaded \in BOOLEAN
  /\ piped \in {Streams, Outputs, Streams \ {"stderr"}}
  /\ pipes = piped /\ childEnds = piped
  /\ data = [s \in Streams |-> <<>>]
  /\ \/ echo \in {<<"stdout">>, <<"stdout", "stderr">>} /\ toSay = <<>>
     \/ echo = <<>> /\ \E a, b \in Outputs : toSay = [k \in 1..(2 * Noise) |-> <<IF k % 2 = 1 THEN a ELSE b, k>>]
  /\ said = Nothing /\ heard = <<>> /\ outputs = Nothing
  /\ toWrite = Input /\ revents = NoEvents /\ interrupts = 0
  /\ readers = [s \in Outputs |-> "none"]
  /\ pc = IF threaded THEN "start" ELSE "poll"

-----------------------------------------------------------------------------
(* pollingCommunicate() *)

\* What poll() reports of a stream.  Of a pipe that nobody reads Linux says POLLERR and others POLLHUP.
Reported(s, nobodyReads) ==
  IF s \notin pipes THEN {}
  ELSE (IF s = "stdin" /\ Len(data[s]) < Capacity THEN {"POLLOUT"} ELSE {})
    \cup (IF s # "stdin" /\ data[s] # <<>> THEN {"POLLIN"} ELSE {})
    \cup (IF s \in childEnds THEN {} ELSE IF s = "stdin" THEN {nobodyReads} ELSE {"POLLHUP"})

Poll ==
  /\ pc = "poll"
  /\ IF pipes = {} THEN pc' = "returned" /\ UNCHANGED revents
     ELSE \E nobodyReads \in {"POLLERR", "POLLHUP"} :
            LET reported == [s \in Streams |-> Reported(s, nobodyReads)]
            IN reported # NoEvents /\ revents' = reported /\ pc' = "handle"
  /\ UNCHANGED <<threaded, piped, data, echo, childVars, pipes, toWrite, outputs, readers, interrupts>>

\* The loop over pfds is at stream s; its order is that of an unordered_map.
Handle(s) ==
  /\ pc = "handle" /\ revents[s] # {}
  /\ revents' = [revents EXCEPT ![s] = {}]
Continue(s) == pc' = IF revents = [NoEvents EXCEPT ![s] = revents[s]] THEN "poll" ELSE "handle"

\* read() has returned 0.
\* Mutant: a stream that has hung up is taken for one that has ended.
EndOfStream_OnHangup(s) == "POLLHUP" \in revents[s]
EndOfStream(s) == data[s] = <<>>

HandleOutput(s) ==
  /\ Handle(s) /\ Continue(s)
  /\ \/ /\ EndOfStream(s)
        /\ pipes' = pipes \ {s} /\ UNCHANGED <<data, outputs, interrupts>>
     \/ /\ ~EndOfStream(s)
        /\ LET n == IF Len(data[s]) < BufSize THEN Len(data[s]) ELSE BufSize
           IN /\ outputs' = [outputs EXCEPT ![s] = @ \o SubSeq(data[s], 1, n)]
              /\ data' = [data EXCEPT ![s] = SubSeq(@, n + 1, Len(@))]
        /\ UNCHANGED <<pipes, interrupts>>
     \/ /\ interrupts < MaxInterrupts /\ interrupts' = interrupts + 1   \* EINTR or EAGAIN
        /\ UNCHANGED <<data, pipes, outputs>>
  /\ UNCHANGED <<threaded, piped, echo, childVars, toWrite, readers>>

\* The caller's callback writes a chunk and returns false; when it has none, or when the write
\* fails with EPIPE, it returns true.  Or the failure makes it throw.
CallbackDone == toWrite = <<>> \/ "stdin" \notin childEnds
CallbackThrows == toWrite # <<>> /\ "stdin" \notin childEnds
CallbackWrites ==
  /\ ~CallbackDone
  /\ data' = [data EXCEPT !["stdin"] = Append(@, Head(toWrite))]
  /\ toWrite' = Tail(toWrite)

\* pipes_.erase(): the end of file for the child.
\* Mutant: the end stays open.
CloseInput_Not == UNCHANGED pipes
CloseInput == pipes' = pipes \ {"stdin"}

HandleInput ==
  /\ Handle("stdin")
  /\ \/ "POLLHUP" \in revents["stdin"] /\ CloseInput /\ Continue("stdin") /\ UNCHANGED <<data, toWrite>>
     \/ /\ "POLLHUP" \notin revents["stdin"] /\ "POLLOUT" \in revents["stdin"]
        /\ \/ CallbackDone /\ CloseInput /\ Continue("stdin") /\ UNCHANGED <<data, toWrite>>
           \/ CallbackThrows /\ pc' = "threw" /\ UNCHANGED <<pipes, data, toWrite>>
           \/ CallbackWrites /\ Continue("stdin") /\ UNCHANGED pipes
     \/ revents["stdin"] = {"POLLERR"} /\ CloseInput /\ Continue("stdin") /\ UNCHANGED <<data, toWrite>>
  /\ UNCHANGED <<threaded, piped, echo, childVars, outputs, readers, interrupts>>

-----------------------------------------------------------------------------
(* threadedCommunicate() *)

\* readPipe() for both streams: a thread for each that is a pipe.
ReadersStarted == [s \in Outputs |-> IF s \in pipes THEN "reading" ELSE "done"]

StartReaders ==
  /\ pc = "start"
  /\ readers' = ReadersStarted
  /\ pc' = IF "stdin" \in pipes THEN "write" ELSE "get"
  /\ UNCHANGED <<threaded, piped, data, echo, childVars, pipes, toWrite, outputs, revents, interrupts>>

\* The callback until it returns true; its write blocks while the pipe is full.
WriteLoop ==
  /\ pc = "write"
  /\ \/ CallbackDone /\ CloseInput /\ pc' = "get" /\ UNCHANGED <<data, toWrite>>
     \/ CallbackThrows /\ pc' = "threw" /\ UNCHANGED <<pipes, data, toWrite>>
     \/ Len(data["stdin"]) < Capacity /\ CallbackWrites /\ UNCHANGED <<pipes, pc>>
  /\ UNCHANGED <<threaded, piped, echo, childVars, outputs, revents, readers, interrupts>>

ReaderStep(s) ==
  /\ readers[s] = "reading"
  /\ \/ /\ data[s] # <<>>
        /\ outputs' = [outputs EXCEPT ![s] = Append(@, Head(data[s]))]
        /\ data' = [data EXCEPT ![s] = Tail(@)] /\ UNCHANGED readers
     \/ /\ data[s] = <<>> /\ s \notin childEnds
        /\ readers' = [readers EXCEPT ![s] = "done"] /\ UNCHANGED <<data, outputs>>
  /\ UNCHANGED <<threaded, piped, echo, childVars, pipes, toWrite, revents, pc, interrupts>>

\* outFuture.get(), errFuture.get()
GetOutputs ==
  /\ pc = "get" /\ readers = [s \in Outputs |-> "done"]
  /\ pc' = "returned"
  /\ UNCHANGED <<threaded, piped, data, echo, childVars, pipes, toWrite, outputs, revents, readers, interrupts>>

-----------------------------------------------------------------------------
(* The child *)

Exited == childEnds = {} /\ toSay = <<>>

\* It blocks on an empty pipe until that ends, and then it exits.
ChildReads ==
  /\ toSay = <<>> /\ ~Exited
  /\ \/ /\ echo # <<>> /\ "stdin" \in piped /\ data["stdin"] # <<>>
        /\ heard' = Append(heard, Head(data["stdin"]))
        /\ toSay' = [i \in 1..Len(echo) |-> <<echo[i], Head(data["stdin"])>>]
        /\ data' = [data EXCEPT !["stdin"] = Tail(@)]
        /\ UNCHANGED childEnds
     \/ /\ echo # <<>> /\ "stdin" \in piped => data["stdin"] = <<>> /\ "stdin" \notin pipes
        /\ childEnds' = {} /\ UNCHANGED <<data, toSay, heard>>
  /\ UNCHANGED <<threaded, piped, echo, said, parentVars>>

\* It blocks on a full pipe.
ChildWrites ==
  /\ toSay # <<>>
  /\ LET s == Head(toSay)[1] IN
     IF s \in piped
     THEN /\ Len(data[s]) < Capacity
          /\ data' = [data EXCEPT ![s] = Append(@, Head(toSay)[2])]
          /\ said' = [said EXCEPT ![s] = Append(@, Head(toSay)[2])]
     ELSE UNCHANGED <<data, said>>
  /\ toSay' = Tail(toSay)
  /\ UNCHANGED <<threaded, piped, echo, childEnds, heard, parentVars>>

ChildDies ==
  /\ ~Exited
  /\ childEnds' = {} /\ toSay' = <<>>
  /\ UNCHANGED <<threaded, piped, data, echo, said, heard, parentVars>>

-----------------------------------------------------------------------------
Parent == Poll \/ HandleInput \/ (\E s \in Outputs : HandleOutput(s)) \/ StartReaders \/ WriteLoop \/ GetOutputs
Child == ChildReads \/ ChildWrites
Next == Parent \/ (\E s \in Outputs : ReaderStep(s)) \/ Child \/ ChildDies

\* The threads run; the child does its work and ends when its input ends.
CommFairness ==
  /\ WF_commVars(Parent) /\ WF_commVars(Child)
  /\ \A s \in Outputs : WF_commVars(ReaderStep(s))

Spec == Init /\ [][Next]_commVars /\ CommFairness

-----------------------------------------------------------------------------
\* SpawnedProcess.cpp:1067-1216: what communicate() returns is all the child has said on
\* each stream, in order, and the child has ended both; all the while nothing is lost,
\* although the child can die with its last words still in the pipe.  The input arrives in
\* order, and all of it is written unless the child stops listening.
CommunicateComplete ==
  /\ \A s \in Outputs : outputs[s] \o data[s] = said[s]
  /\ heard \o data["stdin"] \o toWrite = Input
  /\ pc = "returned" =>
       /\ childEnds \cap Outputs = {} /\ outputs = said
       /\ toWrite = <<>> \/ "stdin" \notin childEnds
       /\ \A s \in Outputs : readers[s] # "reading"

\* SpawnedProcess.cpp:1067-1216, SpawnedProcess.h:297-304: with a callback that writes what fits into the
\* pipe, communicate() returns or throws; parent and child never wait for each other to
\* empty a pipe, whichever stream the child prefers.
CommunicateReturns == <>(pc \in {"returned", "threw"})
=============================================================================
