--------------------------- MODULE SpawnedProcess ---------------------------
(***************************************************************************)
(* eden/common/utils/SpawnedProcess.cpp: waiting for, signalling, moving   *)
(* and detaching a process.  The handle is used by one thread at a time;   *)
(* the process, other code that reaps children and the kernel that reuses  *)
(* process ids run beside it.                                              *)
(***************************************************************************)
EXTENDS Naturals

VARIABLES
  process,     \* "running", "zombie" or "reaped"
  exit,        \* how the process ended, NotYet before
  ours,        \* it is a child: fromExistingProcess() takes any pid
  reapedElsewhere, pidReused, strangerSignalled,
  handle,      \* the SpawnedProcess objects, see Empty
  call,        \* the call in progress: <<handle, stage>>, or Idle
  timer,       \* ProcessTimeout: "none", "scheduled" or "deleted"
  future       \* what future_wait() has answered, or NotYet

procVars == <<process, exit, ours, reapedElsewhere, pidReused, strangerSignalled, handle, call, timer, future>>

NotYet == "not yet"
Idle == <<"none", "idle">>
Handles == {"first", "second", "polled"}   \* the third is ProcessTimeout::subprocess_
Endings == {"exited 0", "exited 1", "killed"}

\* SpawnedProcess(): pid_ is 0 (hasPid is FALSE), waited_ is TRUE.
Empty == [hasPid |-> FALSE, waited |-> TRUE, status |-> NotYet, movedFrom |-> FALSE]

Init ==
  /\ process = "running" /\ exit = NotYet
  /\ ours \in BOOLEAN
  /\ reapedElsewhere = FALSE /\ pidReused = FALSE /\ strangerSignalled = FALSE
  /\ handle = [h \in Handles |-> IF h = "first" THEN [Empty EXCEPT !.hasPid = TRUE, !.waited = FALSE] ELSE Empty]
  /\ call = Idle /\ timer = "none" /\ future = NotYet

\* waitpid(pid_): the process is reaped, or errno is ECHILD, or it is still running.
CanReap == ours /\ process = "zombie"
Echild == ~ours \/ process = "reaped"
Answers == CanReap \/ Echild
Status == IF CanReap THEN exit ELSE "exited 0"

\* Mutant: the process is reaped, and the handle does not remember it.
Reap_Forgotten(h) ==
  /\ process' = IF CanReap THEN "reaped" ELSE process
  /\ UNCHANGED handle
Reap(h) ==
  /\ process' = IF CanReap THEN "reaped" ELSE process
  /\ handle' = [handle EXCEPT ![h].waited = TRUE, ![h].status = Status]

world == <<exit, ours, reapedElsewhere, pidReused>>

\* terminated() and one turn of the loop of waitTimeout().
Poll(h) == IF ~handle[h].waited /\ Answers THEN Reap(h) ELSE UNCHANGED <<process, handle>>

PollCall(h) ==
  /\ call = Idle /\ handle[h].hasPid
  /\ Poll(h)
  /\ UNCHANGED <<world, strangerSignalled, call, timer, future>>

\* wait(), terminateOrKill() and waitOrTerminateOrKill() start.
StartCall(h) ==
  /\ call = Idle /\ handle[h].hasPid /\ ~handle[h].waited
  /\ \E stage \in {"wait", "terminate", "poll"} : call' = <<h, stage>>
  /\ UNCHANGED <<world, process, handle, strangerSignalled, timer, future>>

\* sendSignal(): SIGTERM can be ignored, SIGKILL cannot.
CanSignal(h) == ~handle[h].waited
SendSignal(h, signal) ==
  IF CanSignal(h) /\ process = "running"
  THEN \/ process' = "zombie" /\ exit' = "killed" /\ UNCHANGED strangerSignalled
       \/ signal = "SIGTERM" /\ UNCHANGED <<process, exit, strangerSignalled>>
  ELSE /\ strangerSignalled' = (strangerSignalled \/ (CanSignal(h) /\ pidReused))
       /\ UNCHANGED <<process, exit>>

SignalCall(h) ==
  /\ call = Idle /\ handle[h].hasPid
  /\ SendSignal(h, "SIGTERM")
  /\ UNCHANGED <<ours, reapedElsewhere, pidReused, handle, call, timer, future>>

\* waitTimeout(): it answers when the process has ended, or when the time is over.
WaitTimeout(h, next) ==
  /\ Poll(h)
  /\ call' = IF handle[h].waited \/ Answers THEN Idle ELSE <<h, next>>
  /\ UNCHANGED <<world, strangerSignalled, timer, future>>

ContinueCall ==
  LET h == call[1] IN
  \/ call[2] = "poll" /\ WaitTimeout(h, "terminate")
  \/ /\ call[2] = "terminate" /\ SendSignal(h, "SIGTERM") /\ call' = <<h, "poll again">>
     /\ UNCHANGED <<ours, reapedElsewhere, pidReused, handle, timer, future>>
  \/ call[2] = "poll again" /\ WaitTimeout(h, "kill")
  \/ /\ call[2] = "kill" /\ SendSignal(h, "SIGKILL") /\ call' = <<h, "wait">>
     /\ UNCHANGED <<ours, reapedElsewhere, pidReused, handle, timer, future>>
  \/ /\ call[2] = "wait" /\ Answers /\ Reap(h) /\ call' = Idle
     /\ UNCHANGED <<world, strangerSignalled, timer, future>>

\* The move constructor and operator=, which checks that pid_ is 0.
Moved(from, to) ==
  [handle EXCEPT ![to] = [handle[from] EXCEPT !.movedFrom = FALSE],
                 ![from].waited = TRUE, ![from].movedFrom = TRUE]

Move(from, to) ==
  /\ call = Idle /\ handle[from].hasPid /\ ~handle[from].movedFrom /\ ~handle[to].hasPid
  /\ handle' = Moved(from, to)
  /\ UNCHANGED <<world, process, strangerSignalled, call, timer, future>>

\* future_wait() and detach(): the process moves into a ProcessTimeout.
FutureWait(h) ==
  /\ call = Idle /\ handle[h].hasPid /\ ~handle[h].movedFrom /\ timer = "none"
  /\ handle' = Moved(h, "polled") /\ timer' = "scheduled"
  /\ UNCHANGED <<world, process, strangerSignalled, call, future>>

\* ProcessTimeout::timeoutExpired(): it answers, or sets the timer again.
\* Mutant: the timer fires once.
Rescheduled_Not == "deleted"
Rescheduled == timer

TimeoutExpired ==
  LET polled == handle["polled"] IN
  /\ timer = "scheduled"
  /\ Poll("polled")
  /\ IF polled.waited \/ Answers
     THEN future' = (IF polled.waited THEN polled.status ELSE Status) /\ timer' = "deleted"
     ELSE timer' = Rescheduled /\ UNCHANGED future
  /\ UNCHANGED <<world, strangerSignalled, call>>

-----------------------------------------------------------------------------
\* The rest of the system.
ProcessEnds ==
  /\ process = "running"
  /\ process' = "zombie" /\ exit' \in Endings
  /\ UNCHANGED <<ours, reapedElsewhere, pidReused, strangerSignalled, handle, call, timer, future>>

\* Another waitpid(-1), or the real parent.
ReapElsewhere ==
  /\ process = "zombie"
  /\ process' = "reaped" /\ reapedElsewhere' = TRUE
  /\ UNCHANGED <<exit, ours, pidReused, strangerSignalled, handle, call, timer, future>>

ReusePid ==
  /\ process = "reaped"
  /\ pidReused' = TRUE
  /\ UNCHANGED <<process, exit, ours, reapedElsewhere, strangerSignalled, handle, call, timer, future>>

User == {"first", "second"}

Next ==
  \/ \E h \in User : PollCall(h) \/ StartCall(h) \/ SignalCall(h) \/ FutureWait(h)
  \/ ContinueCall \/ Move("first", "second")
  \/ TimeoutExpired
  \/ ProcessEnds \/ ReapElsewhere \/ ReusePid

\* The calling thread and the event base keep running.
ProcFairness == WF_procVars(ContinueCall) /\ WF_procVars(TimeoutExpired)

Spec == Init /\ [][Next]_procVars /\ ProcFairness

-----------------------------------------------------------------------------
\* SpawnedProcess.cpp:749-780, 885-936, 1043-1055: a handle that has waited tells how the process
\* ended, unless somebody else has reaped it or it was no child ("treat this as
\* successfully finished"); and no signal is ever sent to a process that got the id
\* after our process was reaped, whichever handle the process was moved to and
\* whichever call reaped it.
WaitedTruthfully ==
  /\ \A h \in Handles :
       handle[h].hasPid /\ handle[h].waited /\ ~handle[h].movedFrom =>
         \/ handle[h].status = exit /\ exit # NotYet
         \/ handle[h].status = "exited 0" /\ (~ours \/ reapedElsewhere)
  /\ strangerSignalled => reapedElsewhere
  /\ future # NotYet => future = handle["polled"].status

\* SpawnedProcess.cpp:992-1021, 837-875: terminateOrKill() returns whatever the process does with
\* SIGTERM, and future_wait() answers once the process has ended.
CallsReturn ==
  /\ (call[2] \in {"poll", "terminate", "poll again", "kill"}) ~> (call = Idle)
  /\ (timer # "none" /\ process # "running") ~> (future # NotYet)
=============================================================================
