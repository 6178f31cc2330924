--------------------------- MODULE ServicesProofs ---------------------------
(***************************************************************************)
(* What Services states, for every input, every capacity of the pipes and  *)
(* every size of the buffers.                                              *)
(***************************************************************************)
EXTENDS Services, SequenceTheorems, TLAPS

-----------------------------------------------------------------------------
(* SpawnedProcess *)

Statuses == Process!Endings \cup {Process!NotYet}
HandleType == [hasPid : BOOLEAN, waited : BOOLEAN, status : Statuses, movedFrom : BOOLEAN]

ProcessType ==
  /\ process \in {"running", "zombie", "reaped"} /\ exit \in Statuses
  /\ processHandle \in [Process!Handles -> HandleType]
  /\ call[1] \in Process!User \/ call = Process!Idle
  /\ timer \in {"none", "scheduled", "deleted"} /\ future \in Statuses

\* The object that stands for the process: it has the pid and was not moved from.
Live(h) == processHandle[h].hasPid /\ ~processHandle[h].movedFrom

\* What a handle that has waited may say.
Truthful(status) ==
  \/ status = exit /\ exit # Process!NotYet
  \/ status = "exited 0" /\ (~ours \/ reapedElsewhere)

\* One object stands for the process, and only that one waits for it.
OneHandle ==
  /\ \A h \in Process!Handles : ~processHandle[h].waited => Live(h)
  /\ \A g, h \in Process!Handles : Live(g) /\ Live(h) => g = h
  /\ \A h \in Process!Handles : Live(h) /\ processHandle[h].waited => Truthful(processHandle[h].status)
  /\ timer = "none" => ~processHandle["polled"].hasPid
  /\ call # Process!Idle => ~processHandle[call[1]].waited

\* Who has reaped the process, and what that allows.
Reaping ==
  /\ process = "running" <=> exit = Process!NotYet
  /\ pidReused => process = "reaped"
  /\ process = "reaped" /\ ~reapedElsewhere => \A h \in Process!Handles : processHandle[h].waited
  /\ strangerSignalled => reapedElsewhere
  /\ future # Process!NotYet =>
       timer = "deleted" /\ processHandle["polled"].waited /\ future = processHandle["polled"].status

ProcessInv == ProcessType /\ OneHandle /\ Reaping

\* What a step may do to the process without touching a handle.
LEMMA ProcessElsewhere ==
  ASSUME ProcessInv, UNCHANGED <<ours, processHandle, timer, future>>,
         process' \in {"running", "zombie", "reaped"}, exit' \in Statuses,
         (process' = "running") <=> (exit' = Process!NotYet),
         exit # Process!NotYet => exit' = exit,
         reapedElsewhere => reapedElsewhere',
         pidReused' => process' = "reaped",
         process' = "reaped" /\ ~reapedElsewhere' => process = "reaped",
         strangerSignalled' => reapedElsewhere',
         call' = Process!Idle \/ (call'[1] \in Process!User /\ ~processHandle[call'[1]].waited)
  PROVE  ProcessInv'
BY DEF ProcessInv, ProcessType, OneHandle, Reaping, Truthful, Live

\* reap: what waitpid() said is remembered by the handle that asked.
LEMMA ReapKeeps ==
  ASSUME ProcessInv, NEW h \in Process!Handles, ~processHandle[h].waited, Process!Answers,
         Process!Reap(h), UNCHANGED <<exit, ours, reapedElsewhere, pidReused, strangerSignalled>>,
         call' = Process!Idle \/ (call' = call /\ call[1] # h),
         \/ UNCHANGED <<timer, future>> /\ h # "polled"
         \/ h = "polled" /\ timer = "scheduled" /\ timer' = "deleted" /\ future' = Process!Status
  PROVE  ProcessInv'
<1>1. /\ process \in {"running", "zombie", "reaped"} /\ exit \in Statuses
      /\ processHandle[h] \in HandleType /\ "exited 0" \in Statuses
  BY DEF ProcessInv, ProcessType, Statuses, Process!Endings
<1>2. Process!Status \in Statuses
  BY <1>1 DEF Process!Status
<1>3. PICK st \in Statuses : st = Process!Status
  BY <1>2
<1>4. /\ DOMAIN processHandle' = Process!Handles
      /\ processHandle' \in [Process!Handles -> HandleType]
      /\ \A g \in Process!Handles : g # h => processHandle'[g] = processHandle[g]
      /\ processHandle'[h].waited = TRUE /\ processHandle'[h].status = st
      /\ processHandle'[h].hasPid = processHandle[h].hasPid
      /\ processHandle'[h].movedFrom = processHandle[h].movedFrom
  BY <1>1, <1>3 DEF ProcessInv, ProcessType, HandleType, Process!Reap
<1>5. /\ process' = IF Process!CanReap THEN "reaped" ELSE process
      /\ Process!CanReap => process = "zombie" /\ st = exit
      /\ ~Process!CanReap => st = "exited 0" /\ (~ours \/ process = "reaped")
  BY <1>3 DEF Process!Reap, Process!Answers, Process!Echild, Process!CanReap, Process!Status
<1>6. /\ process = "reaped" => reapedElsewhere
      /\ process = "running" <=> exit = Process!NotYet
      /\ pidReused => process = "reaped"
  BY DEF ProcessInv, Reaping
<1>7. Truthful(st)' /\ Live(h)
  <2>1. exit' = exit /\ (ours' <=> ours) /\ (reapedElsewhere' <=> reapedElsewhere)
    OBVIOUS
  <2>2. Process!CanReap => Truthful(st)'
    BY <2>1, <1>5, <1>6 DEF Truthful
  <2>3. ~Process!CanReap => Truthful(st)'
    BY <2>1, <1>5, <1>6 DEF Truthful
  <2>4. Live(h)
    BY DEF ProcessInv, OneHandle
  <2> QED
    BY <2>2, <2>3, <2>4
<1>8. /\ \A g \in Process!Handles : Live(g)' <=> Live(g)
      /\ \A s : Truthful(s) => Truthful(s)'
  BY <1>4 DEF Live, Truthful
<1>9. ProcessType'
  BY <1>1, <1>2, <1>4, <1>5 DEF ProcessInv, ProcessType
<1>10. OneHandle'
  <2>1. \A g \in Process!Handles : ~processHandle'[g].waited => Live(g)'
    BY <1>4, <1>8 DEF ProcessInv, OneHandle
  <2>2. \A g, k \in Process!Handles : Live(g)' /\ Live(k)' => g = k
    BY <1>8 DEF ProcessInv, OneHandle
  <2>3. ASSUME NEW g \in Process!Handles, Live(g)', processHandle'[g].waited
        PROVE  Truthful(processHandle[g].status)'
    <3>1. CASE g = h
      BY <3>1, <1>4, <1>7
    <3>2. CASE g # h
      BY <3>2, <2>3, <1>4, <1>8 DEF ProcessInv, OneHandle
    <3> QED
      BY <3>1, <3>2
  <2>4. timer' = "none" => ~processHandle'["polled"].hasPid
    BY <1>4 DEF ProcessInv, OneHandle, Process!Handles
  <2>5. call' # Process!Idle => ~processHandle'[call'[1]].waited
    BY <1>4 DEF ProcessInv, OneHandle, ProcessType, Process!Handles, Process!User
  <2> QED
    BY <2>1, <2>2, <2>3, <2>4, <2>5 DEF OneHandle
<1>11. Reaping'
  <2>1. \A g \in Process!Handles : processHandle'[g].waited
    BY <1>4, <1>7 DEF ProcessInv, OneHandle
  <2>2. /\ (process' = "running") <=> (exit' = Process!NotYet)
        /\ pidReused' => process' = "reaped"
    BY <1>5, <1>6
  <2>3. strangerSignalled' => reapedElsewhere'
    BY DEF ProcessInv, Reaping
  <2>4. future' # Process!NotYet => /\ timer' = "deleted" /\ processHandle'["polled"].waited
                                    /\ future' = processHandle'["polled"].status
    BY <1>3, <1>4 DEF ProcessInv, Reaping, Process!Handles
  <2> QED
    BY <2>1, <2>2, <2>3, <2>4 DEF Reaping
<1> QED
  BY <1>9, <1>10, <1>11 DEF ProcessInv

\* Moving: the process has one object that stands for it, before and after.
LEMMA MoveKeeps ==
  ASSUME ProcessInv, NEW from \in Process!Handles, NEW to \in Process!Handles, from # to,
         Live(from), ~processHandle[to].hasPid, processHandle' = Process!Moved(from, to),
         UNCHANGED <<process, exit, ours, reapedElsewhere, pidReused, strangerSignalled, future>>,
         call = Process!Idle, call' = Process!Idle,
         \/ UNCHANGED timer /\ to # "polled" /\ from # "polled"
         \/ timer = "none" /\ timer' = "scheduled" /\ to = "polled"
  PROVE  ProcessInv'
<1>1. /\ processHandle \in [Process!Handles -> HandleType]
      /\ processHandle[from] \in HandleType /\ processHandle[to] \in HandleType
  BY DEF ProcessInv, ProcessType
<1>2. /\ processHandle' \in [Process!Handles -> HandleType]
      /\ \A g \in Process!Handles : g # from /\ g # to => processHandle'[g] = processHandle[g]
      /\ processHandle'[to].waited = processHandle[from].waited
      /\ processHandle'[to].status = processHandle[from].status
      /\ processHandle'[to].hasPid = processHandle[from].hasPid
      /\ processHandle'[to].movedFrom = FALSE
      /\ processHandle'[from].waited = TRUE /\ processHandle'[from].movedFrom = TRUE
      /\ processHandle'[from].hasPid = processHandle[from].hasPid
  BY <1>1 DEF HandleType, Process!Moved
<1>3. /\ Live(to)' /\ ~Live(from)' /\ ~Live(to)
      /\ \A g \in Process!Handles : g # from /\ g # to => ~Live(g) /\ ~Live(g)'
      /\ \A s : Truthful(s) => Truthful(s)'
  BY <1>2 DEF Live, Truthful, ProcessInv, OneHandle
<1>4. ProcessType'
  BY <1>2 DEF ProcessInv, ProcessType
<1>5. OneHandle'
  <2>1. \A g \in Process!Handles : ~processHandle'[g].waited => Live(g)'
    BY <1>2, <1>3 DEF ProcessInv, OneHandle
  <2>2. \A g, k \in Process!Handles : Live(g)' /\ Live(k)' => g = k
    BY <1>3
  <2>3. \A g \in Process!Handles : Live(g)' /\ processHandle'[g].waited =>
                                     Truthful(processHandle[g].status)'
    BY <1>2, <1>3 DEF ProcessInv, OneHandle
  <2>4. timer' = "none" => ~processHandle'["polled"].hasPid
    BY <1>2 DEF ProcessInv, OneHandle, Process!Handles
  <2> QED
    BY <2>1, <2>2, <2>3, <2>4 DEF OneHandle
<1>6. Reaping'
  <2>1. process' = "reaped" /\ ~reapedElsewhere' => \A g \in Process!Handles : processHandle'[g].waited
    BY <1>2 DEF ProcessInv, Reaping
  <2>2. future' # Process!NotYet => /\ timer' = "deleted" /\ processHandle'["polled"].waited
                                    /\ future' = processHandle'["polled"].status
    BY <1>2 DEF ProcessInv, Reaping, Process!Handles
  <2> QED
    BY <2>1, <2>2 DEF ProcessInv, Reaping
<1> QED
  BY <1>4, <1>5, <1>6 DEF ProcessInv

\* A signal reaches the process, or a stranger when somebody else has reaped ours.
LEMMA SignalKeeps ==
  ASSUME ProcessInv, NEW h \in Process!Handles, NEW signal, Process!SendSignal(h, signal),
         UNCHANGED <<ours, reapedElsewhere, pidReused, processHandle, timer, future>>,
         call' = Process!Idle \/ (call'[1] \in Process!User /\ ~processHandle[call'[1]].waited)
  PROVE  ProcessInv'
<1>1. /\ process \in {"running", "zombie", "reaped"} /\ exit \in Statuses /\ "killed" \in Statuses
      /\ process = "running" <=> exit = Process!NotYet
      /\ pidReused => process = "reaped"
      /\ strangerSignalled => reapedElsewhere
      /\ process = "reaped" /\ ~reapedElsewhere => processHandle[h].waited
  BY DEF ProcessInv, ProcessType, Reaping, Statuses, Process!Endings
<1>2. CASE Process!CanSignal(h) /\ process = "running"
  <2>1. /\ process' \in {"running", "zombie", "reaped"} /\ exit' \in Statuses
        /\ (process' = "running") <=> (exit' = Process!NotYet)
        /\ exit # Process!NotYet => exit' = exit
        /\ pidReused' => process' = "reaped"
        /\ process' = "reaped" => process = "reaped"
        /\ strangerSignalled' => reapedElsewhere'
    BY <1>1, <1>2 DEF Process!SendSignal, Process!NotYet
  <2> QED
    BY <2>1, ProcessElsewhere
<1>3. CASE ~(Process!CanSignal(h) /\ process = "running")
  <2>1. /\ UNCHANGED <<process, exit>>
        /\ strangerSignalled' => reapedElsewhere'
    BY <1>1, <1>3 DEF Process!SendSignal, Process!CanSignal
  <2> QED
    BY <1>1, <2>1, ProcessElsewhere
<1> QED
  BY <1>2, <1>3

\* Every step of the process, its handles and the rest of the system preserves the invariant.
LEMMA ProcessStep == ProcessInv /\ [Process!Next]_(Process!procVars) => ProcessInv'
<1> SUFFICES ASSUME ProcessInv, [Process!Next]_(Process!procVars) PROVE ProcessInv'
  OBVIOUS
<1>0. /\ ProcessType /\ OneHandle /\ Reaping
      /\ Process!User \subseteq Process!Handles /\ "polled" \in Process!Handles
      /\ "polled" \notin Process!User
      /\ "first" \in Process!Handles /\ "second" \in Process!Handles
  BY DEF ProcessInv, Process!User, Process!Handles
<1>1. ASSUME NEW h \in Process!User, Process!PollCall(h) PROVE ProcessInv'
  <2>1. /\ call = Process!Idle /\ Process!Poll(h) /\ h \in Process!Handles /\ h # "polled"
        /\ UNCHANGED <<exit, ours, reapedElsewhere, pidReused, strangerSignalled, call, timer, future>>
    BY <1>0, <1>1 DEF Process!PollCall, Process!world
  <2>2. CASE ~processHandle[h].waited /\ Process!Answers
    BY <2>1, <2>2, ReapKeeps DEF Process!Poll
  <2>3. CASE ~(~processHandle[h].waited /\ Process!Answers)
    <3>1. UNCHANGED <<process, processHandle>>
      BY <2>1, <2>3 DEF Process!Poll
    <3> QED
      BY <1>0, <2>1, <3>1, ProcessElsewhere DEF ProcessType, Reaping
  <2> QED
    BY <2>2, <2>3
<1>2. ASSUME NEW h \in Process!User, Process!StartCall(h) PROVE ProcessInv'
  <2>1. /\ call'[1] = h /\ ~processHandle[h].waited
        /\ UNCHANGED <<process, exit, ours, reapedElsewhere, pidReused, strangerSignalled, processHandle, timer, future>>
    BY <1>2 DEF Process!StartCall, Process!world
  <2> QED
    BY <1>0, <2>1, ProcessElsewhere DEF ProcessType, Reaping
<1>3. ASSUME NEW h \in Process!User, Process!SignalCall(h) PROVE ProcessInv'
  BY <1>0, <1>3, SignalKeeps DEF Process!SignalCall
<1>4. ASSUME NEW h \in Process!User, Process!FutureWait(h) PROVE ProcessInv'
  <2>1. ~processHandle["polled"].hasPid /\ h # "polled" /\ h \in Process!Handles /\ Live(h)
    BY <1>0, <1>4 DEF Process!FutureWait, OneHandle, Live
  <2> QED
    BY <1>0, <1>4, <2>1, MoveKeeps DEF Process!FutureWait, Process!world
<1>5. ASSUME NEW next, Process!WaitTimeout(call[1], next), call # Process!Idle PROVE ProcessInv'
  <2>1. PICK h \in Process!User : h = call[1]
    BY <1>0, <1>5 DEF ProcessType
  <2>2. /\ Process!Poll(h) /\ h \in Process!Handles /\ h # "polled" /\ ~processHandle[h].waited
        /\ call' = IF Process!Answers THEN Process!Idle ELSE <<h, next>>
        /\ UNCHANGED <<exit, ours, reapedElsewhere, pidReused, strangerSignalled, timer, future>>
    BY <1>0, <1>5, <2>1 DEF Process!WaitTimeout, Process!world, OneHandle
  <2>3. CASE Process!Answers
    BY <2>2, <2>3, ReapKeeps DEF Process!Poll
  <2>4. CASE ~Process!Answers
    <3>1. UNCHANGED <<process, processHandle>> /\ call'[1] = h
      BY <2>2, <2>4 DEF Process!Poll
    <3> QED
      BY <1>0, <2>2, <3>1, ProcessElsewhere DEF ProcessType, Reaping
  <2> QED
    BY <2>3, <2>4
<1>6. CASE Process!ContinueCall
  <2>0. call # Process!Idle
    <3>1. call[2] \in {"poll", "terminate", "poll again", "kill", "wait"}
      BY <1>6 DEF Process!ContinueCall
    <3>2. Process!Idle[2] = "idle"
      BY DEF Process!Idle
    <3> QED
      BY <3>1, <3>2
  <2>1. PICK h \in Process!User : h = call[1]
    BY <1>0, <2>0 DEF ProcessType
  <2>2. h \in Process!Handles /\ h # "polled" /\ ~processHandle[h].waited
    BY <1>0, <2>0, <2>1 DEF OneHandle
  <2>3. ASSUME NEW signal, NEW next, Process!SendSignal(h, signal), call' = <<h, next>>,
               UNCHANGED <<ours, reapedElsewhere, pidReused, processHandle, timer, future>>
        PROVE  ProcessInv'
    BY <2>2, <2>3, SignalKeeps
  <2>4. ASSUME Process!Answers, Process!Reap(h), call' = Process!Idle,
               UNCHANGED <<exit, ours, reapedElsewhere, pidReused, strangerSignalled, timer, future>>
        PROVE  ProcessInv'
    BY <2>2, <2>4, ReapKeeps
  <2>5. CASE call[2] \in {"poll", "poll again"}
    BY <1>5, <1>6, <2>0, <2>5 DEF Process!ContinueCall
  <2>6. CASE call[2] \in {"terminate", "kill"}
    BY <1>6, <2>1, <2>3, <2>6 DEF Process!ContinueCall
  <2>7. CASE call[2] = "wait"
    BY <1>6, <2>1, <2>4, <2>7 DEF Process!ContinueCall, Process!world
  <2> QED
    BY <1>6, <2>5, <2>6, <2>7 DEF Process!ContinueCall
<1>7. CASE Process!Move("first", "second")
  <2>1. ~processHandle["second"].hasPid /\ Live("first")
    BY <1>7 DEF Process!Move, Live
  <2> QED
    BY <1>0, <1>7, <2>1, MoveKeeps DEF Process!Move, Process!world
<1>8. CASE Process!TimeoutExpired
  <2>1. /\ timer = "scheduled" /\ Process!Poll("polled")
        /\ UNCHANGED <<exit, ours, reapedElsewhere, pidReused, strangerSignalled, call>>
    BY <1>8 DEF Process!TimeoutExpired, Process!world
  <2>2. CASE ~processHandle["polled"].waited /\ Process!Answers
    <3>1. Process!Reap("polled") /\ timer' = "deleted" /\ future' = Process!Status
      BY <1>8, <2>1, <2>2 DEF Process!TimeoutExpired, Process!Poll
    <3>2. call = Process!Idle \/ call[1] # "polled"
      BY <1>0 DEF ProcessType
    <3> QED
      BY <1>0, <2>1, <2>2, <3>1, <3>2, ReapKeeps
  <2>3. CASE processHandle["polled"].waited
    <3>1. /\ UNCHANGED <<process, processHandle>> /\ timer' = "deleted"
          /\ future' = processHandle["polled"].status
      BY <1>8, <2>1, <2>3 DEF Process!TimeoutExpired, Process!Poll
    <3>2. processHandle["polled"] \in HandleType
      BY <1>0 DEF ProcessType
    <3>3. future' \in Statuses
      BY <3>1, <3>2 DEF HandleType
    <3> QED
      BY <1>0, <2>1, <2>3, <3>1, <3>3 DEF ProcessInv, ProcessType, OneHandle, Reaping, Truthful, Live
  <2>4. CASE ~processHandle["polled"].waited /\ ~Process!Answers
    <3>1. UNCHANGED <<process, processHandle, timer, future>>
      BY <1>8, <2>1, <2>4 DEF Process!TimeoutExpired, Process!Poll, Process!Rescheduled
    <3> QED
      BY <1>0, <2>1, <3>1, ProcessElsewhere DEF ProcessType, Reaping, OneHandle
  <2> QED
    BY <2>2, <2>3, <2>4
<1>9. CASE Process!ProcessEnds
  BY <1>0, <1>9, ProcessElsewhere DEF Process!ProcessEnds, ProcessType, Reaping, OneHandle, Statuses,
                                      Process!Endings, Process!NotYet
<1>10. CASE Process!ReapElsewhere
  BY <1>0, <1>10, ProcessElsewhere DEF Process!ReapElsewhere, ProcessType, Reaping, OneHandle
<1>11. CASE Process!ReusePid
  BY <1>0, <1>11, ProcessElsewhere DEF Process!ReusePid, ProcessType, Reaping, OneHandle
<1>12. CASE UNCHANGED Process!procVars
  BY <1>0, <1>12, ProcessElsewhere DEF Process!procVars, ProcessType, Reaping, OneHandle
<1> QED
  BY <1>1, <1>2, <1>3, <1>4, <1>6, <1>7, <1>8, <1>9, <1>10, <1>11, <1>12 DEF Process!Next

\* A handle that has waited tells how the process ended, unless somebody else has reaped
\* it or it was no child; and no stranger gets its signals (SpawnedProcess.cpp:749-780,
\* 885-936, 1043-1055).
THEOREM ProcessWaited == Process!Spec => []WaitedTruthfully
<1>1. Process!Init => ProcessInv
  <2> SUFFICES ASSUME Process!Init PROVE ProcessInv
    OBVIOUS
  <2>1. /\ processHandle["first"] = [hasPid |-> TRUE, waited |-> FALSE, status |-> Process!NotYet, movedFrom |-> FALSE]
        /\ \A h \in Process!Handles : h # "first" => processHandle[h] = Process!Empty
        /\ DOMAIN processHandle = Process!Handles
        /\ processHandle = [h \in Process!Handles |-> processHandle[h]]
    BY DEF Process!Init, Process!Empty, Process!Handles
  <2>2. /\ processHandle["first"] \in HandleType
        /\ \A h \in Process!Handles : h # "first" => processHandle[h] \in HandleType
    <3>1. Process!NotYet \in Statuses
      BY DEF Statuses
    <3>2. Process!Empty \in HandleType
      BY <3>1 DEF HandleType, Process!Empty
    <3> QED
      BY <2>1, <3>1, <3>2 DEF HandleType
  <2>3. \A h \in Process!Handles : (Live(h) <=> h = "first") /\ (processHandle[h].waited <=> h # "first")
    BY <2>1 DEF Live, Process!Empty
  <2>4. ~processHandle["polled"].hasPid
    BY <2>1 DEF Process!Empty, Process!Handles
  <2>5. ProcessType
    BY <2>1, <2>2 DEF Process!Init, ProcessType, Statuses
  <2>6. OneHandle
    BY <2>3, <2>4 DEF Process!Init, OneHandle
  <2>7. Reaping
    BY DEF Process!Init, Reaping
  <2> QED
    BY <2>5, <2>6, <2>7 DEF ProcessInv
<1>2. ProcessInv => WaitedTruthfully
  BY DEF ProcessInv, OneHandle, Reaping, Truthful, Live, WaitedTruthfully, Process!WaitedTruthfully
<1> QED
  BY <1>1, <1>2, ProcessStep, PTL DEF Process!Spec

-----------------------------------------------------------------------------
(* Communicate: sequences that are taken from one end and put at another *)

\* What is read off the front of a pipe goes to the end of what was collected.
LEMMA CutKeeps ==
  ASSUME NEW S, NEW o \in Seq(S), NEW d \in Seq(S), NEW n \in 0 .. Len(d)
  PROVE  /\ SubSeq(d, 1, n) \in Seq(S) /\ SubSeq(d, n + 1, Len(d)) \in Seq(S)
         /\ (o \o SubSeq(d, 1, n)) \o SubSeq(d, n + 1, Len(d)) = o \o d
<1>1. Len(d) \in Nat /\ n \in Nat /\ n <= Len(d)
  OBVIOUS
<1>2. SubSeq(d, 1, n) \in Seq(S) /\ SubSeq(d, n + 1, Len(d)) \in Seq(S)
  BY ONLY <1>1, d \in Seq(S), SubSeqProperties, LenProperties
<1>3. SubSeq(d, 1, n) \o SubSeq(d, n + 1, Len(d)) = SubSeq(d, 1, Len(d))
  <2>1. 1 \in 1 .. (Len(d) + 1) /\ n \in (1 - 1) .. Len(d) /\ Len(d) \in n .. Len(d)
    BY <1>1
  <2> QED
    BY <2>1, ConcatAdjacentSubSeq
<1>4. SubSeq(d, 1, Len(d)) = d
  BY SubSeqFull
<1>5. PICK a \in Seq(S), b \in Seq(S) :
        a = SubSeq(d, 1, n) /\ b = SubSeq(d, n + 1, Len(d)) /\ a \o b = d
  BY ONLY <1>2, <1>3, <1>4, Zenon
<1>6. (o \o a) \o b = o \o (a \o b)
  BY ConcatAssociative
<1> QED
  BY ONLY <1>2, <1>5, <1>6, Zenon

\* The same for one chunk at a time.
LEMMA HeadKeeps ==
  ASSUME NEW S, NEW o \in Seq(S), NEW d \in Seq(S), d # <<>>
  PROVE  /\ Head(d) \in S /\ Tail(d) \in Seq(S) /\ Append(o, Head(d)) \in Seq(S)
         /\ Append(o, Head(d)) \o Tail(d) = o \o d
<1>1. Head(d) \in S /\ Tail(d) \in Seq(S) /\ Append(o, Head(d)) \in Seq(S)
  BY HeadTailProperties
<1>2. Append(o, Head(d)) = o \o <<Head(d)>> /\ <<Head(d)>> \in Seq(S)
  BY <1>1, AppendIsConcat
<1>3. <<Head(d)>> \o Tail(d) = d
  OBVIOUS
<1> QED
  BY <1>1, <1>2, <1>3, ConcatAssociative

\* What is put into a pipe is put at the end of all that ever was.
LEMMA AppendKeeps ==
  ASSUME NEW S, NEW o \in Seq(S), NEW d \in Seq(S), NEW x \in S
  PROVE  /\ Append(d, x) \in Seq(S)
         /\ o \o Append(d, x) = Append(o \o d, x)
<1>1. Append(d, x) \in Seq(S) /\ <<x>> \in Seq(S) /\ o \o d \in Seq(S)
  OBVIOUS
<1>2. Append(d, x) = d \o <<x>> /\ Append(o \o d, x) = (o \o d) \o <<x>>
  BY <1>1, AppendIsConcat
<1> QED
  BY <1>1, <1>2, ConcatAssociative

-----------------------------------------------------------------------------
(* Communicate *)

Chunk == {Input[i] : i \in 1 .. Len(Input)} \cup Nat
Event == {"POLLIN", "POLLOUT", "POLLHUP", "POLLERR"}

CommType ==
  /\ piped \subseteq Comm!Streams /\ piped # {} /\ pipes \subseteq piped /\ threaded \in BOOLEAN
  /\ data \in [Comm!Streams -> Seq(Chunk)] /\ heard \in Seq(Chunk) /\ toWrite \in Seq(Chunk)
  /\ outputs \in [Comm!Outputs -> Seq(Chunk)] /\ said \in [Comm!Outputs -> Seq(Chunk)]
  /\ echo \in Seq(Comm!Outputs) /\ toSay \in Seq(Comm!Outputs \X Chunk)
  /\ revents \in [Comm!Streams -> SUBSET Event]
  /\ readers \in [Comm!Outputs -> {"none", "reading", "done"}]

\* Everything that was said and everything that is to be heard is somewhere, in order.
NothingLost ==
  /\ \A s \in Comm!Outputs : outputs[s] \o data[s] = said[s]
  /\ heard \o data["stdin"] \o toWrite = Input

\* The child has ended stream s, and the parent has all it said there.
Ended(s) == s \notin childEnds /\ data[s] = <<>>

\* A child that is gone writes no more; a stream is given up when it has ended.
Ends ==
  /\ childEnds = piped \/ (childEnds = {} /\ toSay = <<>>)
  /\ \A s \in Comm!Outputs : s \notin pipes \/ readers[s] = "done" => Ended(s)
  /\ "stdin" \notin pipes => toWrite = <<>> \/ "stdin" \notin childEnds

\* What poll() has reported stays true until it is handled: only the handler takes
\* chunks out of a pipe, and an end that is closed stays closed.
Reports ==
  /\ \A s \in Comm!Outputs : revents[s] # {} => data[s] # <<>> \/ s \notin childEnds
  /\ {"POLLHUP", "POLLERR"} \cap revents["stdin"] # {} => "stdin" \notin childEnds

\* The two ways of communicating do not mix.
Modes ==
  /\ threaded => (\A s \in Comm!Streams : revents[s] = {}) /\ commPc \notin {"poll", "handle"}
  /\ ~threaded => (\A s \in Comm!Outputs : readers[s] = "none") /\ commPc \notin {"start", "write", "get"}
  /\ commPc = "get" => "stdin" \notin pipes
  /\ commPc = "returned" =>
       "stdin" \notin pipes /\ \A s \in Comm!Outputs : Ended(s) /\ readers[s] # "reading"

CommInv == CommType /\ NothingLost /\ Ends /\ Reports /\ Modes

LEMMA StreamNames ==
  /\ "stdin" \in Comm!Streams /\ "stdin" \notin Comm!Outputs /\ Comm!Outputs \subseteq Comm!Streams
  /\ Comm!Streams = Comm!Outputs \cup {"stdin"}
BY DEF Comm!Streams, Comm!Outputs

\* poll() reports of every stream what is the case.
LEMMA PollKeeps == ASSUME CommInv, Comm!Poll PROVE CommInv'
<1>1. /\ CommType /\ NothingLost /\ Ends /\ Reports /\ Modes
      /\ UNCHANGED <<threaded, piped, data, echo, childEnds, toSay, said, heard, pipes, toWrite, outputs, readers>>
      /\ commPc = "poll" /\ ~threaded
  BY DEF CommInv, Comm!Poll, Comm!childVars, Modes
<1>2. NothingLost' /\ Ends'
  BY <1>1 DEF NothingLost, Ends, Ended
<1>3. CASE pipes = {}
  <2>1. commPc' = "returned" /\ revents' = revents
    BY <1>3 DEF Comm!Poll
  <2>2. CommType' /\ Reports'
    BY <1>1, <2>1 DEF CommType, Reports
  <2>3. Modes'
    BY <1>1, <1>3, <2>1 DEF Modes, Ends, Ended
  <2> QED
    BY <1>2, <2>2, <2>3 DEF CommInv
<1>4. CASE pipes # {}
  <2>1. PICK nobodyReads \in {"POLLERR", "POLLHUP"} :
          revents' = [s \in Comm!Streams |-> Comm!Reported(s, nobodyReads)] /\ commPc' = "handle"
    BY <1>4 DEF Comm!Poll
  <2>2. ASSUME NEW s \in Comm!Streams
        PROVE  /\ Comm!Reported(s, nobodyReads) \in SUBSET Event
               /\ s # "stdin" /\ Comm!Reported(s, nobodyReads) # {} => data[s] # <<>> \/ s \notin childEnds
               /\ s = "stdin" /\ {"POLLHUP", "POLLERR"} \cap Comm!Reported(s, nobodyReads) # {} => s \notin childEnds
    BY DEF Comm!Reported, Event
  <2>3. CommType'
    BY <1>1, <2>1, <2>2 DEF CommType
  <2>4. Reports'
    BY <1>1, <2>1, <2>2, StreamNames DEF Reports
  <2>5. Modes'
    BY <1>1, <2>1 DEF Modes
  <2> QED
    BY <1>2, <2>3, <2>4, <2>5 DEF CommInv
<1> QED
  BY <1>3, <1>4

\* Taking chunks from a pipe loses none.
LEMMA CollectKeeps ==
  ASSUME CommType, NothingLost, NEW s \in Comm!Outputs, NEW o \in Seq(Chunk), NEW d \in Seq(Chunk),
         o \o d = outputs[s] \o data[s],
         outputs' = [outputs EXCEPT ![s] = o], data' = [data EXCEPT ![s] = d],
         UNCHANGED <<said, heard, toWrite>>
  PROVE  /\ outputs' \in [Comm!Outputs -> Seq(Chunk)] /\ data' \in [Comm!Streams -> Seq(Chunk)]
         /\ NothingLost'
         /\ \A r \in Comm!Streams : r # s => data'[r] = data[r]
<1>1. /\ outputs \in [Comm!Outputs -> Seq(Chunk)] /\ data \in [Comm!Streams -> Seq(Chunk)]
      /\ s \in Comm!Streams /\ s # "stdin" /\ "stdin" \in Comm!Streams
  BY StreamNames DEF CommType
<1>2. outputs' \in [Comm!Outputs -> Seq(Chunk)] /\ data' \in [Comm!Streams -> Seq(Chunk)]
  BY <1>1
<1>3. /\ outputs'[s] = o /\ data'[s] = d
      /\ \A r \in Comm!Outputs : r # s => outputs'[r] = outputs[r]
      /\ \A r \in Comm!Streams : r # s => data'[r] = data[r]
  BY <1>1
<1>4. NothingLost'
  <2>1. ASSUME NEW r \in Comm!Outputs PROVE outputs'[r] \o data'[r] = said[r]
    <3>1. CASE r = s
      BY <3>1, <1>3 DEF NothingLost
    <3>2. CASE r # s
      BY <3>2, <1>3, StreamNames DEF NothingLost
    <3> QED
      BY <3>1, <3>2
  <2>2. data'["stdin"] = data["stdin"]
    BY <1>1, <1>3
  <2> QED
    BY <2>1, <2>2 DEF NothingLost
<1> QED
  BY <1>2, <1>3, <1>4

\* The event of a stream is handled, and the loop goes on.
LEMMA HandleFacts ==
  ASSUME CommInv, NEW s \in Comm!Streams, Comm!Handle(s)
  PROVE  /\ ~threaded /\ \A r \in Comm!Outputs : readers[r] = "none"
         /\ revents' \in [Comm!Streams -> SUBSET Event] /\ revents'[s] = {}
         /\ \A r \in Comm!Streams : r # s => revents'[r] = revents[r]
<1>1. commPc = "handle" /\ revents' = [revents EXCEPT ![s] = {}] /\ revents \in [Comm!Streams -> SUBSET Event]
  BY DEF Comm!Handle, CommInv, CommType
<1> QED
  BY <1>1 DEF CommInv, Modes

\* pollingCommunicate() reads from a stream, or sees its end.
LEMMA HandleOutputKeeps == ASSUME CommInv, NEW s \in Comm!Outputs, Comm!HandleOutput(s) PROVE CommInv'
<1>1. CommType /\ NothingLost /\ Ends /\ Reports /\ Modes
  BY DEF CommInv
<1>2. /\ s \in Comm!Streams /\ s # "stdin" /\ Comm!Handle(s) /\ commPc' \in {"poll", "handle"}
      /\ UNCHANGED <<threaded, piped, echo, childEnds, toSay, said, heard, toWrite, readers>>
  BY StreamNames DEF Comm!HandleOutput, Comm!Continue, Comm!childVars
<1>3. /\ ~threaded /\ revents' \in [Comm!Streams -> SUBSET Event] /\ revents'[s] = {} /\ revents[s] # {}
      /\ \A r \in Comm!Outputs : readers[r] = "none"
      /\ \A r \in Comm!Streams : r # s => revents'[r] = revents[r]
  BY <1>2, HandleFacts DEF Comm!Handle
<1>4. Modes'
  BY <1>2, <1>3 DEF Modes
<1>5. ASSUME UNCHANGED <<data, outputs>>, pipes' \subseteq pipes,
             \A r \in pipes : r \notin pipes' => r = s /\ data[s] = <<>>
      PROVE  CommInv'
  <2>1. CommType' /\ NothingLost'
    BY <1>1, <1>2, <1>3, <1>5 DEF CommType, NothingLost
  <2>2. Reports'
    BY <1>1, <1>2, <1>3, <1>5, StreamNames DEF Reports
  <2>3. Ends'
    <3>1. \A r \in Comm!Outputs : r \notin pipes' => Ended(r)'
      BY <1>1, <1>2, <1>3, <1>5 DEF Ends, Ended, Reports
    <3>2. \A r \in Comm!Outputs : readers'[r] # "done"
      BY <1>2, <1>3
    <3>3. "stdin" \notin pipes' => toWrite' = <<>> \/ "stdin" \notin childEnds'
      BY <1>1, <1>2, <1>5 DEF Ends
    <3> QED
      BY <1>1, <1>2, <3>1, <3>2, <3>3 DEF Ends
  <2> QED
    BY <1>4, <2>1, <2>2, <2>3 DEF CommInv
<1>6. CASE Comm!EndOfStream(s) /\ pipes' = pipes \ {s} /\ UNCHANGED <<data, outputs>>
  BY <1>5, <1>6 DEF Comm!EndOfStream
<1>7. CASE UNCHANGED <<data, pipes, outputs>>
  BY <1>5, <1>7
<1>8. ASSUME NEW n, n = IF Len(data[s]) < BufSize THEN Len(data[s]) ELSE BufSize,
             data[s] # <<>>, UNCHANGED pipes,
             outputs' = [outputs EXCEPT ![s] = @ \o SubSeq(data[s], 1, n)],
             data' = [data EXCEPT ![s] = SubSeq(@, n + 1, Len(@))]
      PROVE  CommInv'
  <2>1. data[s] \in Seq(Chunk) /\ outputs[s] \in Seq(Chunk) /\ Len(data[s]) \in Nat
    BY <1>1, <1>2 DEF CommType
  <2>2. n \in 0 .. Len(data[s])
    BY <1>8, <2>1, BufSizeAssumption
  <2>3. PICK o \in Seq(Chunk), d \in Seq(Chunk) :
          /\ o = outputs[s] \o SubSeq(data[s], 1, n) /\ d = SubSeq(data[s], n + 1, Len(data[s]))
          /\ o \o d = outputs[s] \o data[s]
    <3>1. /\ SubSeq(data[s], 1, n) \in Seq(Chunk) /\ SubSeq(data[s], n + 1, Len(data[s])) \in Seq(Chunk)
          /\ (outputs[s] \o SubSeq(data[s], 1, n)) \o SubSeq(data[s], n + 1, Len(data[s])) = outputs[s] \o data[s]
      <4>1. PICK p \in Seq(Chunk), q \in Seq(Chunk) : p = outputs[s] /\ q = data[s]
        BY ONLY <2>1
      <4>2. n \in 0 .. Len(q)
        BY ONLY <2>2, <4>1
      <4>3. /\ SubSeq(q, 1, n) \in Seq(Chunk) /\ SubSeq(q, n + 1, Len(q)) \in Seq(Chunk)
            /\ (p \o SubSeq(q, 1, n)) \o SubSeq(q, n + 1, Len(q)) = p \o q
        BY ONLY p \in Seq(Chunk), q \in Seq(Chunk), <4>2, CutKeeps, ZenonT(30)
      <4> QED
        BY ONLY <4>1, <4>3, Zenon
    <3>2. outputs[s] \o SubSeq(data[s], 1, n) \in Seq(Chunk)
      BY ONLY <2>1, <3>1, ConcatProperties
    <3> QED
      BY ONLY <3>1, <3>2, Zenon
  <2>4. outputs' = [outputs EXCEPT ![s] = o] /\ data' = [data EXCEPT ![s] = d]
    BY <1>8, <2>3, Zenon
  <2>5. /\ outputs' \in [Comm!Outputs -> Seq(Chunk)] /\ data' \in [Comm!Streams -> Seq(Chunk)]
        /\ NothingLost'
        /\ \A r \in Comm!Streams : r # s => data'[r] = data[r]
    BY <1>1, <1>2, <2>3, <2>4, CollectKeeps
  <2>6. CommType'
    BY <1>1, <1>2, <1>3, <1>8, <2>5 DEF CommType
  <2>7. Reports'
    BY <1>1, <1>2, <1>3, <2>5, StreamNames DEF Reports
  <2>8. Ends'
    <3>1. s \in pipes
      BY <1>1, <1>8 DEF Ends, Ended
    <3> QED
      BY <1>1, <1>2, <1>3, <1>8, <2>5, <3>1, StreamNames DEF Ends, Ended
  <2> QED
    BY <1>4, <2>5, <2>6, <2>7, <2>8 DEF CommInv
<1> QED
  BY <1>6, <1>7, <1>8 DEF Comm!HandleOutput, Comm!EndOfStream

\* A thread of readPipe() takes a chunk, or sees the end.
LEMMA ReaderKeeps == ASSUME CommInv, NEW s \in Comm!Outputs, Comm!ReaderStep(s) PROVE CommInv'
<1>1. CommType /\ NothingLost /\ Ends /\ Reports /\ Modes
  BY DEF CommInv
<1>2. /\ s \in Comm!Streams /\ s # "stdin" /\ readers[s] = "reading" /\ threaded
      /\ UNCHANGED <<threaded, piped, echo, childEnds, toSay, said, heard, pipes, toWrite, revents, commPc>>
  BY <1>1, StreamNames DEF Comm!ReaderStep, Comm!childVars, Modes
<1>3. (\A r \in Comm!Streams : revents'[r] = {}) /\ commPc' # "returned"
  BY <1>1, <1>2 DEF Modes
<1>4. Reports'
  BY <1>3, StreamNames DEF Reports
<1>5. CASE data[s] = <<>> /\ s \notin childEnds /\ readers' = [readers EXCEPT ![s] = "done"] /\ UNCHANGED <<data, outputs>>
  <2>1. /\ readers' \in [Comm!Outputs -> {"none", "reading", "done"}]
        /\ \A r \in Comm!Outputs : r # s => readers'[r] = readers[r]
    BY <1>1, <1>5 DEF CommType
  <2>2. CommType' /\ NothingLost' /\ Modes'
    BY <1>1, <1>2, <1>3, <1>5, <2>1 DEF CommType, NothingLost, Modes
  <2>3. Ends'
    BY <1>1, <1>2, <1>5, <2>1 DEF Ends, Ended
  <2> QED
    BY <1>4, <2>2, <2>3 DEF CommInv
<1>6. CASE /\ data[s] # <<>> /\ UNCHANGED readers
           /\ outputs' = [outputs EXCEPT ![s] = Append(@, Head(data[s]))]
           /\ data' = [data EXCEPT ![s] = Tail(@)]
  <2>1. data[s] \in Seq(Chunk) /\ outputs[s] \in Seq(Chunk) /\ data[s] # <<>>
    BY <1>1, <1>2, <1>6 DEF CommType
  <2>2. PICK o \in Seq(Chunk), d \in Seq(Chunk) :
          /\ o = Append(outputs[s], Head(data[s])) /\ d = Tail(data[s])
          /\ o \o d = outputs[s] \o data[s]
    <3>1. PICK p \in Seq(Chunk), q \in Seq(Chunk) : p = outputs[s] /\ q = data[s] /\ q # <<>>
      BY ONLY <2>1
    <3>2. q # <<>>
      BY <3>1
    <3>3. /\ Head(q) \in Chunk /\ Tail(q) \in Seq(Chunk) /\ Append(p, Head(q)) \in Seq(Chunk)
          /\ Append(p, Head(q)) \o Tail(q) = p \o q
      BY ONLY <3>2, HeadKeeps
    <3> QED
      BY ONLY <3>1, <3>3, Zenon
  <2>3. outputs' = [outputs EXCEPT ![s] = o] /\ data' = [data EXCEPT ![s] = d]
    BY <1>6, <2>2, Zenon
  <2>4. /\ outputs' \in [Comm!Outputs -> Seq(Chunk)] /\ data' \in [Comm!Streams -> Seq(Chunk)]
        /\ NothingLost'
        /\ \A r \in Comm!Streams : r # s => data'[r] = data[r]
    BY <1>1, <1>2, <2>2, <2>3, CollectKeeps
  <2>5. CommType' /\ Modes'
    BY <1>1, <1>2, <1>3, <1>6, <2>4 DEF CommType, Modes
  <2>6. Ends'
    <3>1. s \in pipes
      BY <1>1, <1>6 DEF Ends, Ended
    <3> QED
      BY <1>1, <1>2, <1>6, <2>4, <3>1, StreamNames DEF Ends, Ended
  <2> QED
    BY <1>4, <2>4, <2>5, <2>6 DEF CommInv
<1> QED
  BY <1>5, <1>6 DEF Comm!ReaderStep

\* The callback writes a chunk: it moves from what is to be written into the pipe.
LEMMA WriteKeeps ==
  ASSUME CommType, NothingLost, Comm!CallbackWrites, UNCHANGED <<outputs, said, heard>>
  PROVE  /\ data' \in [Comm!Streams -> Seq(Chunk)] /\ toWrite' \in Seq(Chunk) /\ NothingLost'
         /\ \A r \in Comm!Outputs : data'[r] = data[r]
<1>1. /\ data \in [Comm!Streams -> Seq(Chunk)] /\ "stdin" \in Comm!Streams
      /\ data["stdin"] \in Seq(Chunk) /\ heard \in Seq(Chunk) /\ toWrite \in Seq(Chunk) /\ toWrite # <<>>
      /\ data' = [data EXCEPT !["stdin"] = Append(@, Head(toWrite))] /\ toWrite' = Tail(toWrite)
  BY StreamNames DEF CommType, Comm!CallbackWrites, Comm!CallbackDone
<1>2. PICK x \in Chunk, w \in Seq(Chunk), d \in Seq(Chunk), q \in Seq(Chunk) :
        x = Head(toWrite) /\ w = Tail(toWrite) /\ d = data["stdin"] /\ q = heard \o d
  BY <1>1, HeadTailProperties, ConcatProperties
<1>3. /\ Append(d, x) \in Seq(Chunk) /\ heard \o Append(d, x) = Append(q, x)
  BY <1>1, <1>2, AppendKeeps
<1>4. Append(q, x) \o w = q \o toWrite
  <2>1. Append(q, Head(toWrite)) \o Tail(toWrite) = q \o toWrite
    BY ONLY <1>1, q \in Seq(Chunk), HeadKeeps
  <2> QED
    BY ONLY <1>2, <2>1
<1>5. /\ data'["stdin"] = Append(d, x) /\ data' \in [Comm!Streams -> Seq(Chunk)]
      /\ \A r \in Comm!Outputs : data'[r] = data[r]
  BY <1>1, <1>2, <1>3, StreamNames
<1>6. NothingLost'
  <2>1. heard' \o data'["stdin"] \o toWrite' = Input
    BY <1>1, <1>2, <1>3, <1>4, <1>5 DEF NothingLost
  <2> QED
    BY <2>1, <1>5 DEF NothingLost
<1> QED
  BY <1>1, <1>2, <1>5, <1>6

\* The parent's side of the input: the end is closed when there is nothing left to write or
\* nobody who reads it, or a chunk is written.
LEMMA InputKeeps ==
  ASSUME CommInv, UNCHANGED <<threaded, piped, echo, childEnds, toSay, said, heard, outputs, readers>>,
         revents' \in [Comm!Streams -> SUBSET Event],
         \A r \in Comm!Streams : revents'[r] = revents[r] \/ revents'[r] = {},
         \/ /\ pipes' = pipes \/ (pipes' = pipes \ {"stdin"} /\ (toWrite = <<>> \/ "stdin" \notin childEnds))
            /\ UNCHANGED <<data, toWrite>>
         \/ Comm!CallbackWrites /\ UNCHANGED pipes /\ toWrite # <<>>,
         \/ ~threaded /\ commPc' \in {"poll", "handle", "threw"}
         \/ threaded /\ commPc' \in {"write", "threw"}
         \/ threaded /\ commPc' = "get" /\ "stdin" \notin pipes'
  PROVE  CommInv'
<1>1. CommType /\ NothingLost /\ Ends /\ Reports /\ Modes
  BY DEF CommInv
<1>2. /\ data' \in [Comm!Streams -> Seq(Chunk)] /\ toWrite' \in Seq(Chunk) /\ NothingLost'
      /\ \A r \in Comm!Outputs : data'[r] = data[r]
      /\ pipes' \subseteq pipes /\ \A r \in Comm!Outputs : r \in pipes => r \in pipes'
      /\ "stdin" \notin pipes' => toWrite' = <<>> \/ "stdin" \notin childEnds'
  <2>1. CASE Comm!CallbackWrites /\ UNCHANGED pipes /\ toWrite # <<>>
    <3>1. "stdin" \in childEnds
      BY <2>1 DEF Comm!CallbackWrites, Comm!CallbackDone
    <3>2. "stdin" \in pipes
      BY <1>1, <2>1, <3>1 DEF Ends
    <3> QED
      BY <1>1, <2>1, <3>2, WriteKeeps
  <2>2. CASE UNCHANGED <<data, toWrite, pipes>>
    BY <1>1, <2>2 DEF CommType, NothingLost, Ends
  <2>3. CASE /\ pipes' = pipes \ {"stdin"} /\ (toWrite = <<>> \/ "stdin" \notin childEnds)
             /\ UNCHANGED <<data, toWrite>>
    BY <1>1, <2>3, StreamNames DEF CommType, NothingLost
  <2> QED
    BY <2>1, <2>2, <2>3
<1>3. CommType'
  BY <1>1, <1>2 DEF CommType
<1>4. Ends'
  BY <1>1, <1>2 DEF Ends, Ended
<1>5. Reports'
  BY <1>1, <1>2, StreamNames DEF Reports
<1>6. Modes'
  BY <1>1 DEF Modes
<1> QED
  BY <1>2, <1>3, <1>4, <1>5, <1>6 DEF CommInv

LEMMA HandleInputKeeps == ASSUME CommInv, Comm!HandleInput PROVE CommInv'
<1>1. /\ UNCHANGED <<threaded, piped, echo, childEnds, toSay, said, heard, outputs, readers>>
      /\ Comm!Handle("stdin") /\ "stdin" \in Comm!Streams
  BY StreamNames DEF Comm!HandleInput, Comm!childVars
<1>2. /\ ~threaded /\ revents' \in [Comm!Streams -> SUBSET Event]
      /\ \A r \in Comm!Streams : revents'[r] = revents[r] \/ revents'[r] = {}
  BY <1>1, HandleFacts
<1>3. {"POLLHUP", "POLLERR"} \cap revents["stdin"] # {} => "stdin" \notin childEnds
  BY DEF CommInv, Reports
<1>4. /\ commPc' \in {"poll", "handle", "threw"}
      /\ \/ /\ pipes' = pipes \/ (pipes' = pipes \ {"stdin"} /\ (toWrite = <<>> \/ "stdin" \notin childEnds))
            /\ UNCHANGED <<data, toWrite>>
         \/ Comm!CallbackWrites /\ UNCHANGED pipes /\ toWrite # <<>>
  <2>1. CASE "POLLHUP" \in revents["stdin"]
    BY <2>1, <1>3 DEF Comm!HandleInput, Comm!CloseInput, Comm!Continue
  <2>2. CASE revents["stdin"] = {"POLLERR"}
    BY <2>2, <1>3 DEF Comm!HandleInput, Comm!CloseInput, Comm!Continue
  <2>3. CASE "POLLHUP" \notin revents["stdin"] /\ revents["stdin"] # {"POLLERR"}
    BY <2>3 DEF Comm!HandleInput, Comm!CloseInput, Comm!Continue, Comm!CallbackDone, Comm!CallbackWrites
  <2> QED
    BY <2>1, <2>2, <2>3
<1> QED
  BY <1>1, <1>2, <1>4, InputKeeps

LEMMA WriteLoopKeeps == ASSUME CommInv, Comm!WriteLoop PROVE CommInv'
<1>1. /\ UNCHANGED <<threaded, piped, echo, childEnds, toSay, said, heard, outputs, readers, revents>>
      /\ commPc = "write" /\ revents \in [Comm!Streams -> SUBSET Event] /\ threaded
  BY DEF Comm!WriteLoop, Comm!childVars, CommInv, CommType, Modes
<1>2. /\ \/ /\ pipes' = pipes \/ (pipes' = pipes \ {"stdin"} /\ (toWrite = <<>> \/ "stdin" \notin childEnds))
            /\ UNCHANGED <<data, toWrite>>
         \/ Comm!CallbackWrites /\ UNCHANGED pipes /\ toWrite # <<>>
      /\ commPc' \in {"write", "threw"} \/ (commPc' = "get" /\ "stdin" \notin pipes')
  BY <1>1 DEF Comm!WriteLoop, Comm!CloseInput, Comm!CallbackDone, Comm!CallbackWrites
<1> QED
  BY <1>1, <1>2, InputKeeps

LEMMA StartReadersKeeps == ASSUME CommInv, Comm!StartReaders PROVE CommInv'
<1>1. CommType /\ NothingLost /\ Ends /\ Reports /\ Modes
  BY DEF CommInv
<1>2. /\ UNCHANGED <<threaded, piped, data, echo, childEnds, toSay, said, heard, pipes, toWrite, outputs, revents>>
      /\ readers' = [s \in Comm!Outputs |-> IF s \in pipes THEN "reading" ELSE "done"]
      /\ threaded /\ commPc' = IF "stdin" \in pipes THEN "write" ELSE "get"
  BY <1>1 DEF Comm!StartReaders, Comm!ReadersStarted, Comm!childVars, Modes
<1>3. CommType' /\ NothingLost' /\ Reports'
  BY <1>1, <1>2 DEF CommType, NothingLost, Reports
<1>4. Ends' /\ Modes'
  BY <1>1, <1>2 DEF Ends, Ended, Modes
<1> QED
  BY <1>3, <1>4 DEF CommInv

LEMMA GetOutputsKeeps == ASSUME CommInv, Comm!GetOutputs PROVE CommInv'
<1>1. CommType /\ NothingLost /\ Ends /\ Reports /\ Modes
  BY DEF CommInv
<1>2. /\ UNCHANGED <<threaded, piped, data, echo, childEnds, toSay, said, heard, pipes, toWrite, outputs, revents, readers>>
      /\ commPc = "get" /\ commPc' = "returned" /\ \A s \in Comm!Outputs : readers[s] = "done"
  BY DEF Comm!GetOutputs, Comm!childVars
<1>3. CommType' /\ NothingLost' /\ Reports' /\ Ends'
  BY <1>1, <1>2 DEF CommType, NothingLost, Reports, Ends, Ended
<1>4. Modes'
  BY <1>1, <1>2 DEF Ends, Ended, Modes
<1> QED
  BY <1>3, <1>4 DEF CommInv

\* The child dies or exits.
LEMMA ChildGoneKeeps ==
  ASSUME CommInv, childEnds' = {}, toSay' = <<>>,
         UNCHANGED <<threaded, piped, data, echo, said, heard, pipes, toWrite, outputs, revents, readers, commPc>>
  PROVE  CommInv'
<1>1. CommType /\ NothingLost /\ Ends /\ Reports /\ Modes
  BY DEF CommInv
<1>2. CommType' /\ NothingLost' /\ Reports'
  BY <1>1 DEF CommType, NothingLost, Reports
<1>3. Ends' /\ Modes'
  BY <1>1 DEF Ends, Ended, Modes
<1> QED
  BY <1>2, <1>3 DEF CommInv

\* The child reads a chunk and will repeat it.
LEMMA ChildReadsKeeps == ASSUME CommInv, Comm!ChildReads PROVE CommInv'
<1>1. CommType /\ NothingLost /\ Ends /\ Reports /\ Modes
  BY DEF CommInv
<1>2. /\ UNCHANGED <<threaded, piped, echo, said, pipes, toWrite, outputs, revents, readers, commPc>>
      /\ toSay = <<>> /\ childEnds # {}
  BY DEF Comm!ChildReads, Comm!parentVars, Comm!Exited
<1>3. CASE childEnds' = {} /\ UNCHANGED <<data, toSay, heard>>
  BY <1>2, <1>3, ChildGoneKeeps
<1>4. CASE /\ data["stdin"] # <<>> /\ UNCHANGED childEnds
           /\ heard' = Append(heard, Head(data["stdin"]))
           /\ toSay' = [i \in 1 .. Len(echo) |-> <<echo[i], Head(data["stdin"])>>]
           /\ data' = [data EXCEPT !["stdin"] = Tail(@)]
  <2>1. /\ data \in [Comm!Streams -> Seq(Chunk)] /\ "stdin" \in Comm!Streams
        /\ data["stdin"] \in Seq(Chunk) /\ heard \in Seq(Chunk) /\ echo \in Seq(Comm!Outputs)
        /\ toWrite \in Seq(Chunk) /\ data["stdin"] # <<>>
    BY <1>1, <1>4, StreamNames DEF CommType
  <2>2. PICK x \in Chunk, d \in Seq(Chunk), h \in Seq(Chunk) :
          /\ x = Head(data["stdin"]) /\ d = Tail(data["stdin"]) /\ h = Append(heard, x)
          /\ h \o d = heard \o data["stdin"]
    <3>1. /\ Head(data["stdin"]) \in Chunk /\ Tail(data["stdin"]) \in Seq(Chunk)
          /\ Append(heard, Head(data["stdin"])) \in Seq(Chunk)
          /\ Append(heard, Head(data["stdin"])) \o Tail(data["stdin"]) = heard \o data["stdin"]
      BY ONLY <2>1, HeadKeeps
    <3> QED
      BY ONLY <3>1, Zenon
  <2>3. heard' = h /\ data' = [data EXCEPT !["stdin"] = d] /\ toSay' = [i \in 1 .. Len(echo) |-> <<echo[i], x>>]
    BY <1>4, <2>2, Zenon
  <2>4. /\ data' \in [Comm!Streams -> Seq(Chunk)] /\ data'["stdin"] = d
        /\ \A r \in Comm!Outputs : data'[r] = data[r]
    BY <2>1, <2>3, StreamNames
  <2>5. toSay' \in Seq(Comm!Outputs \X Chunk)
    <3>1. Len(echo) \in Nat /\ \A i \in 1 .. Len(echo) : echo[i] \in Comm!Outputs
      BY <2>1
    <3>2. \A i \in 1 .. Len(echo) : <<echo[i], x>> \in Comm!Outputs \X Chunk
      BY <3>1
    <3> QED
      BY <2>3, <3>1, <3>2
  <2>6. CommType'
    BY <1>1, <1>2, <2>3, <2>4, <2>5 DEF CommType
  <2>7. NothingLost'
    BY <1>1, <1>2, <2>2, <2>3, <2>4 DEF NothingLost
  <2>8. Reports' /\ Modes'
    BY <1>1, <1>2, <1>4, <2>4 DEF Reports, Modes, Ended
  <2>9. Ends'
    BY <1>1, <1>2, <1>4, <2>4 DEF Ends, Ended
  <2> QED
    BY <2>6, <2>7, <2>8, <2>9 DEF CommInv
<1> QED
  BY <1>3, <1>4 DEF Comm!ChildReads

\* The child says a chunk.
LEMMA ChildWritesKeeps == ASSUME CommInv, Comm!ChildWrites PROVE CommInv'
<1>1. CommType /\ NothingLost /\ Ends /\ Reports /\ Modes
  BY DEF CommInv
<1>2. /\ UNCHANGED <<threaded, piped, echo, childEnds, heard, pipes, toWrite, outputs, revents, readers, commPc>>
      /\ toSay # <<>> /\ toSay' = Tail(toSay) /\ childEnds = piped
  BY <1>1 DEF Comm!ChildWrites, Comm!parentVars, Ends
<1>3. toSay \in Seq(Comm!Outputs \X Chunk) /\ toSay' \in Seq(Comm!Outputs \X Chunk)
      /\ Head(toSay) \in Comm!Outputs \X Chunk
  BY <1>1, <1>2, HeadTailProperties DEF CommType
<1>4. PICK s \in Comm!Outputs, x \in Chunk : Head(toSay)[1] = s /\ Head(toSay)[2] = x
  BY <1>3
<1>5. CASE s \notin piped
  <2>1. UNCHANGED <<data, said>>
    BY <1>4, <1>5 DEF Comm!ChildWrites
  <2>2. CommType' /\ NothingLost' /\ Reports'
    BY <1>1, <1>2, <1>3, <2>1 DEF CommType, NothingLost, Reports
  <2>3. Ends' /\ Modes'
    BY <1>1, <1>2, <2>1 DEF Ends, Ended, Modes
  <2> QED
    BY <2>2, <2>3 DEF CommInv
<1>6. CASE s \in piped
  <2>1. /\ data' = [data EXCEPT ![s] = Append(@, x)] /\ said' = [said EXCEPT ![s] = Append(@, x)]
    BY <1>4, <1>6 DEF Comm!ChildWrites
  <2>2. /\ data \in [Comm!Streams -> Seq(Chunk)] /\ said \in [Comm!Outputs -> Seq(Chunk)]
        /\ s \in Comm!Streams /\ data[s] \in Seq(Chunk) /\ outputs[s] \in Seq(Chunk)
        /\ said[s] \in Seq(Chunk) /\ s # "stdin" /\ "stdin" \in Comm!Streams
    BY <1>1, StreamNames DEF CommType
  <2>3. Append(data[s], x) \in Seq(Chunk) /\ outputs[s] \o Append(data[s], x) = Append(outputs[s] \o data[s], x)
    <3>1. PICK o \in Seq(Chunk), d \in Seq(Chunk) : o = outputs[s] /\ d = data[s]
      BY <2>2
    <3>2. Append(d, x) \in Seq(Chunk) /\ o \o Append(d, x) = Append(o \o d, x)
      BY AppendKeeps
    <3> QED
      BY ONLY <3>1, <3>2, Zenon
  <2>4. PICK d \in Seq(Chunk), a \in Seq(Chunk) :
          d = Append(data[s], x) /\ a = Append(said[s], x) /\ d # <<>> /\ outputs[s] \o d = a
    <3>1. outputs[s] \o data[s] = said[s]
      BY <1>1 DEF NothingLost
    <3>2. Append(data[s], x) # <<>> /\ Append(said[s], x) \in Seq(Chunk)
      BY ONLY <2>2, x \in Chunk, AppendProperties
    <3> QED
      BY ONLY <2>3, <3>1, <3>2, Zenon
  <2>5. data' = [data EXCEPT ![s] = d] /\ said' = [said EXCEPT ![s] = a]
    BY <2>1, <2>4, Zenon
  <2>6. /\ data' \in [Comm!Streams -> Seq(Chunk)] /\ said' \in [Comm!Outputs -> Seq(Chunk)]
        /\ data'[s] = d /\ said'[s] = a
        /\ \A r \in Comm!Streams : r # s => data'[r] = data[r]
        /\ \A r \in Comm!Outputs : r # s => said'[r] = said[r]
    BY <2>2, <2>5
  <2>7. CommType'
    BY <1>1, <1>2, <1>3, <2>6 DEF CommType
  <2>8. NothingLost'
    <3>1. ASSUME NEW r \in Comm!Outputs PROVE outputs'[r] \o data'[r] = said'[r]
      <4>1. CASE r = s
        BY <4>1, <1>2, <2>4, <2>6
      <4>2. CASE r # s
        BY <4>2, <1>1, <1>2, <2>6, StreamNames DEF NothingLost
      <4> QED
        BY <4>1, <4>2
    <3>2. heard' \o data'["stdin"] \o toWrite' = Input
      BY <1>1, <1>2, <2>2, <2>6 DEF NothingLost
    <3> QED
      BY <3>1, <3>2 DEF NothingLost
  <2>9. Reports'
    BY <1>1, <1>2, <2>4, <2>6, StreamNames DEF Reports
  <2>10. s \in pipes /\ readers[s] # "done" /\ commPc # "returned"
    BY <1>1, <1>2, <1>6 DEF Ends, Ended, Modes
  <2>11. Ends' /\ Modes'
    BY <1>1, <1>2, <2>6, <2>10, StreamNames DEF Ends, Ended, Modes
  <2> QED
    BY <2>7, <2>8, <2>9, <2>11 DEF CommInv
<1> QED
  BY <1>5, <1>6

\* communicate() returns all that the child has said, in order, and the input arrives in
\* order, whichever of the two ways is used, for every input, every capacity of the pipes
\* and every size of the buffer (SpawnedProcess.cpp:1067-1216).
THEOREM Communicated == Comm!Spec => []CommunicateComplete
<1>1. Comm!Init => CommInv
  <2> SUFFICES ASSUME Comm!Init PROVE CommInv
    OBVIOUS
  <2>1. Input \in Seq(Chunk)
    BY InputAssumption DEF Chunk
  <2>2. /\ piped \in {Comm!Streams, Comm!Outputs, Comm!Streams \ {"stderr"}} /\ pipes = piped /\ childEnds = piped
        /\ data = [s \in Comm!Streams |-> <<>>] /\ threaded \in BOOLEAN
        /\ said = [s \in Comm!Outputs |-> <<>>] /\ heard = <<>> /\ outputs = [s \in Comm!Outputs |-> <<>>]
        /\ toWrite = Input /\ revents = [s \in Comm!Streams |-> {}] /\ readers = [s \in Comm!Outputs |-> "none"]
        /\ commPc = IF threaded THEN "start" ELSE "poll"
    BY DEF Comm!Init, Comm!Nothing, Comm!NoEvents
  <2>3. echo \in Seq(Comm!Outputs) /\ toSay \in Seq(Comm!Outputs \X Chunk)
    <3>1. CASE echo \in {<<"stdout">>, <<"stdout", "stderr">>} /\ toSay = <<>>
      <4>1. "stdout" \in Comm!Outputs /\ "stderr" \in Comm!Outputs
        BY DEF Comm!Outputs
      <4>2. <<"stdout">> \in Seq(Comm!Outputs) /\ <<"stdout", "stderr">> \in Seq(Comm!Outputs)
        BY <4>1
      <4>3. toSay \in Seq(Comm!Outputs \X Chunk)
        BY <3>1
      <4> QED
        BY <3>1, <4>2, <4>3
    <3>2. ASSUME NEW a \in Comm!Outputs, NEW b \in Comm!Outputs, echo = <<>>,
                 toSay = [k \in 1 .. (2 * Noise) |-> <<IF k % 2 = 1 THEN a ELSE b, k>>]
          PROVE  echo \in Seq(Comm!Outputs) /\ toSay \in Seq(Comm!Outputs \X Chunk)
      <4>1. 2 * Noise \in Nat
        BY NoiseAssumption
      <4>2. ASSUME NEW k \in 1 .. (2 * Noise) PROVE <<IF k % 2 = 1 THEN a ELSE b, k>> \in Comm!Outputs \X Chunk
        BY <4>1 DEF Chunk
      <4> QED
        BY <3>2, <4>1, <4>2
    <3> QED
      BY <3>1, <3>2 DEF Comm!Init
  <2>4. piped \subseteq Comm!Streams /\ piped # {}
    <3>1. "stdout" \in Comm!Streams \ {"stderr"} /\ "stdout" \in Comm!Outputs
      BY DEF Comm!Streams, Comm!Outputs
    <3>2. piped \subseteq Comm!Streams
      BY <2>2, StreamNames
    <3>3. "stdout" \in piped
      BY <2>2, <3>1
    <3> QED
      BY <3>2, <3>3
  <2>5. CommType
    BY <2>1, <2>2, <2>3, <2>4 DEF CommType
  <2>6. NothingLost
    <3>1. \A s \in Comm!Outputs : outputs[s] = <<>> /\ data[s] = <<>> /\ said[s] = <<>>
      BY <2>2, StreamNames
    <3>2. heard = <<>> /\ data["stdin"] = <<>> /\ toWrite = Input
      BY <2>2, StreamNames
    <3>3. <<>> \o <<>> = <<>> /\ <<>> \o Input = Input
      BY <2>1
    <3> QED
      BY <3>1, <3>2, <3>3 DEF NothingLost
  <2>7. Ends
    BY <2>2, StreamNames DEF Ends, Ended
  <2>8. Reports
    BY <2>2, StreamNames DEF Reports
  <2>9. Modes
    BY <2>2 DEF Modes
  <2> QED
    BY <2>5, <2>6, <2>7, <2>8, <2>9 DEF CommInv
<1>2. CommInv /\ [Comm!Next]_(Comm!commVars) => CommInv'
  <2> SUFFICES ASSUME CommInv, [Comm!Next]_(Comm!commVars) PROVE CommInv'
    OBVIOUS
  <2>1. CASE Comm!Parent
    BY <2>1, PollKeeps, HandleInputKeeps, HandleOutputKeeps, StartReadersKeeps, WriteLoopKeeps, GetOutputsKeeps
       DEF Comm!Parent
  <2>2. CASE \E s \in Comm!Outputs : Comm!ReaderStep(s)
    BY <2>2, ReaderKeeps
  <2>3. CASE Comm!Child
    BY <2>3, ChildReadsKeeps, ChildWritesKeeps DEF Comm!Child
  <2>4. CASE Comm!ChildDies
    BY <2>4, ChildGoneKeeps DEF Comm!ChildDies, Comm!parentVars
  <2>5. CASE UNCHANGED Comm!commVars
    <3>1. UNCHANGED <<threaded, piped, data, echo, said, heard, pipes, toWrite, outputs, revents, readers, commPc,
                      childEnds, toSay>>
      BY <2>5 DEF Comm!commVars, Comm!parentVars, Comm!childVars
    <3> QED
      BY <3>1 DEF CommInv, CommType, NothingLost, Ends, Ended, Reports, Modes
  <2> QED
    BY <2>1, <2>2, <2>3, <2>4, <2>5 DEF Comm!Next
<1>3. CommInv => CommunicateComplete
  <2> SUFFICES ASSUME CommInv PROVE CommunicateComplete
    OBVIOUS
  <2>1. CommType /\ NothingLost /\ Ends /\ Modes
    BY DEF CommInv
  <2>2. ASSUME commPc = "returned" PROVE outputs = said
    <3>1. \A s \in Comm!Outputs : data[s] = <<>> /\ outputs[s] \o data[s] = said[s] /\ outputs[s] \in Seq(Chunk)
      BY <2>1, <2>2 DEF Modes, Ended, NothingLost, CommType
    <3>2. \A s \in Comm!Outputs : outputs[s] = said[s]
      BY <3>1, ConcatEmptySeq
    <3> QED
      BY <2>1, <3>2 DEF CommType
  <2>3. ASSUME commPc = "returned"
        PROVE  /\ childEnds \cap Comm!Outputs = {}
               /\ toWrite = <<>> \/ "stdin" \notin childEnds
               /\ \A s \in Comm!Outputs : readers[s] # "reading"
    BY <2>1, <2>3 DEF Modes, Ended, Ends
  <2> QED
    BY <2>1, <2>2, <2>3 DEF NothingLost, CommunicateComplete, Comm!CommunicateComplete
<1> QED
  BY <1>1, <1>2, <1>3, PTL DEF Comm!Spec
=============================================================================
