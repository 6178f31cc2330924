----------------------- MODULE SubprocessScribeLogger -----------------------
(***************************************************************************)
(* eden/common/telemetry/SubprocessScribeLogger.{h,cpp}: log messages are  *)
(* queued under a byte limit and a writer thread forwards them to a        *)
(* process through a pipe.  The destructor lets the writer flush for a     *)
(* while, then closes the process down (SpawnedProcess::                   *)
(* waitOrTerminateOrKill) and joins the writer.                            *)
(*                                                                         *)
(* A message is the number under which it was accepted; ends[i] is the     *)
(* total size of the messages up to the i-th, so that Size(i) is that of   *)
(* the i-th.  The pipe holds whole messages.  The process may read, stop   *)
(* reading or die at any moment.                                           *)
(***************************************************************************)
EXTENDS Integers, Sequences

CONSTANTS
  Loggers,       \* threads that call log()
  Sizes,         \* possible message sizes
  Limit,         \* kQueueLimitBytes
  PipeCapacity,  \* messages the pipe holds before a write blocks
  MaxMessages    \* bound on the number of accepted messages

ASSUME SizeAssumption ==
  /\ Sizes \subseteq Nat
  /\ Limit \in Nat /\ PipeCapacity \in Nat \ {0} /\ MaxMessages \in Nat

VARIABLES
  shouldStop, didStop, totalBytes, messages,   \* struct State
  loggerPc,
  writerPc, current, fd,    \* fd: who holds the write end of the pipe
  dtorPc,
  process, pipe, childRead,  \* the child, what is in its stdin, what it has read
  ends,                     \* history: see above
  startedLate               \* history: the writer found its descriptor gone

stateVars  == <<shouldStop, didStop, totalBytes, messages>>
writerVars == <<writerPc, current, fd>>
childVars  == <<process, pipe, childRead>>
histVars   == <<ends, startedLate>>
loggerVars == <<stateVars, loggerPc, writerVars, dtorPc, childVars, histVars>>

LoggerTypeOK ==
  /\ shouldStop \in BOOLEAN /\ didStop \in BOOLEAN
  /\ totalBytes \in Nat
  /\ messages \in Seq(Nat \ {0})
  /\ loggerPc \in [Loggers -> {"idle", "notify"}]
  /\ writerPc \in {"unstarted", "start", "wait", "sleeping", "write", "giveUp", "notify",
                   "return", "exited", "never"}
  /\ current \in Nat
  /\ fd \in {"process", "writer", "closed"}
  /\ dtorPc \in {"alive", "notify", "flush", "flushing", "close", "waitExit", "waitTerm",
                 "waitKill", "join", "destroyed"}
  /\ process \in {"running", "dead"}
  /\ pipe \in Seq(Nat \ {0}) /\ childRead \in Seq(Nat \ {0})
  /\ ends \in Seq(Nat)
  /\ startedLate \in BOOLEAN

\* The process has been spawned with a pipe as its stdin.
LoggerInit ==
  /\ shouldStop = FALSE /\ didStop = FALSE
  /\ totalBytes = 0
  /\ messages = <<>>
  /\ loggerPc = [l \in Loggers |-> "idle"]
  /\ writerPc = "unstarted"
  /\ current = 0
  /\ fd = "process"
  /\ dtorPc = "alive"
  /\ process = "running"
  /\ pipe = <<>> /\ childRead = <<>>
  /\ ends = <<>>
  /\ startedLate = FALSE

Accepted == IF ends = <<>> THEN 0 ELSE ends[Len(ends)]
Size(i) == IF i = 1 THEN ends[1] ELSE ends[i] - ends[i - 1]

-----------------------------------------------------------------------------
(* The constructor: std::thread starts, or throws and SCOPE_FAIL closes the   *)
(* process                                                                   *)

StartThread ==
  /\ writerPc = "unstarted"
  /\ writerPc' = "start"
  /\ UNCHANGED <<stateVars, loggerPc, current, fd, dtorPc, childVars, histVars>>

StartThreadFails ==
  /\ writerPc = "unstarted"
  /\ writerPc' = "never"
  /\ dtorPc' = "close"
  /\ UNCHANGED <<stateVars, loggerPc, current, fd, childVars, histVars>>

-----------------------------------------------------------------------------
(* log() *)

\* newMessageOrStop_.notify_one(): only the writer ever waits on it.
NotifyWriter == writerPc' = IF writerPc = "sleeping" THEN "wait" ELSE writerPc

\* log() during destruction is undefined behaviour, so nobody calls it then.
MayLog(l) == loggerPc[l] = "idle" /\ dtorPc = "alive" /\ writerPc \notin {"unstarted", "never"}

Fits(size) == totalBytes + size <= Limit

\* Mutant of Enqueue: at the wrong end.
Enqueue_Front(i) == messages' = <<i>> \o messages
Enqueue(i) == messages' = Append(messages, i)

Log(l, size) ==
  /\ MayLog(l)
  /\ Len(ends) < MaxMessages
  /\ ~didStop
  /\ Fits(size)
  /\ ends' = Append(ends, Accepted + size)
  /\ Enqueue(Len(ends) + 1)
  /\ totalBytes' = totalBytes + size
  /\ loggerPc' = [loggerPc EXCEPT ![l] = "notify"]
  /\ UNCHANGED <<shouldStop, didStop, writerVars, dtorPc, childVars, startedLate>>

\* After the writer has stopped, or when the queue is full.
LogDrop(l, size) ==
  /\ MayLog(l)
  /\ didStop \/ ~Fits(size)
  /\ UNCHANGED loggerVars

LogNotify(l) ==
  /\ loggerPc[l] = "notify"
  /\ loggerPc' = [loggerPc EXCEPT ![l] = "idle"]
  /\ NotifyWriter
  /\ UNCHANGED <<stateVars, current, fd, dtorPc, childVars, histVars>>

-----------------------------------------------------------------------------
(* writerThread() *)

\* process_.stdinFd() moves the descriptor out of the process.
WriterStart ==
  /\ writerPc = "start"
  /\ writerPc' = "wait"
  /\ fd' = IF fd = "process" THEN "writer" ELSE fd
  /\ startedLate' = (fd # "process")
  /\ UNCHANGED <<stateVars, loggerPc, current, dtorPc, childVars, ends>>

StopOrder == shouldStop /\ messages = <<>>

\* The critical section: a message, the end, or sleep.
WriterTop ==
  /\ writerPc = "wait"
  /\ \/ /\ ~StopOrder
        /\ messages # <<>>
        /\ current' = Head(messages)
        /\ messages' = Tail(messages)
        /\ totalBytes' = totalBytes - Size(Head(messages))
        /\ writerPc' = "write"
        /\ UNCHANGED didStop
     \/ /\ StopOrder
        /\ didStop' = TRUE
        /\ writerPc' = "notify"
        /\ UNCHANGED <<current, messages, totalBytes>>
     \/ /\ ~shouldStop
        /\ messages = <<>>
        /\ writerPc' = "sleeping"
        /\ UNCHANGED <<current, messages, totalBytes, didStop>>
  /\ UNCHANGED <<shouldStop, loggerPc, fd, dtorPc, childVars, histVars>>

\* writevFull() blocks while the pipe is full.
WriterWrite ==
  /\ writerPc = "write"
  /\ fd = "writer" /\ process = "running" /\ Len(pipe) < PipeCapacity
  /\ pipe' = Append(pipe, current)
  /\ current' = 0
  /\ writerPc' = "wait"
  /\ UNCHANGED <<stateVars, loggerPc, fd, dtorPc, process, childRead, histVars>>

\* It fails without a reader, or without a descriptor.
WriterWriteFails ==
  /\ writerPc = "write"
  /\ fd # "writer" \/ process = "dead"
  /\ current' = 0
  /\ writerPc' = "giveUp"
  /\ UNCHANGED <<stateVars, loggerPc, fd, dtorPc, childVars, histVars>>

Abandon == messages' = <<>> /\ totalBytes' = 0

WriterGiveUp ==
  /\ writerPc = "giveUp"
  /\ didStop' = TRUE
  /\ Abandon
  /\ writerPc' = "notify"
  /\ UNCHANGED <<shouldStop, loggerPc, current, fd, dtorPc, childVars, histVars>>

\* allMessagesWritten_.notify_one()
WriterNotify ==
  /\ writerPc = "notify"
  /\ dtorPc' = IF dtorPc = "flushing" THEN "flush" ELSE dtorPc
  /\ writerPc' = "return"
  /\ UNCHANGED <<stateVars, loggerPc, current, fd, childVars, histVars>>

\* The local FileDescriptor is closed when the thread function returns.
WriterReturn ==
  /\ writerPc = "return"
  /\ writerPc' = "exited"
  /\ fd' = "closed"
  /\ UNCHANGED <<stateVars, loggerPc, current, dtorPc, childVars, histVars>>

WriterStep ==
  \/ StartThread \/ WriterStart \/ WriterTop \/ WriterWrite \/ WriterWriteFails
  \/ WriterGiveUp \/ WriterNotify \/ WriterReturn

-----------------------------------------------------------------------------
(* ~SubprocessScribeLogger() and closeProcess() *)

DestroyBegin ==
  /\ dtorPc = "alive"
  /\ writerPc # "unstarted"
  /\ \A l \in Loggers : loggerPc[l] = "idle"
  /\ shouldStop' = TRUE
  /\ dtorPc' = "notify"
  /\ UNCHANGED <<didStop, totalBytes, messages, loggerPc, writerVars, childVars, histVars>>

StopNotify == NotifyWriter

DestroyNotify ==
  /\ dtorPc = "notify"
  /\ StopNotify
  /\ dtorPc' = "flush"
  /\ UNCHANGED <<stateVars, loggerPc, current, fd, childVars, histVars>>

\* allMessagesWritten_.wait_until(..., didStop)
DestroyFlush ==
  /\ dtorPc = "flush"
  /\ dtorPc' = IF didStop THEN "close" ELSE "flushing"
  /\ UNCHANGED <<stateVars, loggerPc, writerVars, childVars, histVars>>

FlushTimeout == dtorPc = "flushing" /\ dtorPc' = "close"

DestroyFlushTimeout ==
  /\ FlushTimeout
  /\ UNCHANGED <<stateVars, loggerPc, writerVars, childVars, histVars>>

\* closeParentFd() closes a descriptor that the writer has not taken.
CloseParentFd ==
  /\ dtorPc = "close"
  /\ fd' = IF fd = "process" THEN "closed" ELSE fd
  /\ dtorPc' = "waitExit"
  /\ UNCHANGED <<stateVars, loggerPc, writerPc, current, childVars, histVars>>

\* waitTimeout() sees the exit, or times out and the next signal is sent.
Waited == dtorPc \in {"waitExit", "waitTerm", "waitKill"} /\ process = "dead"

ProcessExited ==
  /\ Waited
  /\ dtorPc' = IF writerPc = "never" THEN "destroyed" ELSE "join"
  /\ UNCHANGED <<stateVars, loggerPc, writerVars, childVars, histVars>>

\* SIGTERM may be ignored; if it is not, the process dies.
WaitExitTimeout ==
  /\ dtorPc = "waitExit"
  /\ process = "running"
  /\ dtorPc' = "waitTerm"
  /\ UNCHANGED <<stateVars, loggerPc, writerVars, childVars, histVars>>

Die == process' = "dead" /\ pipe' = <<>>

\* Mutant of Kill: the second signal may be ignored as well.
Kill_Ignored == UNCHANGED <<process, pipe>>
Kill == Die

WaitTermTimeout ==
  /\ dtorPc = "waitTerm"
  /\ process = "running"
  /\ Kill
  /\ dtorPc' = "waitKill"
  /\ UNCHANGED <<stateVars, loggerPc, writerVars, childRead, histVars>>

DestroyJoin ==
  /\ dtorPc = "join"
  /\ writerPc = "exited"
  /\ dtorPc' = "destroyed"
  /\ UNCHANGED <<stateVars, loggerPc, writerVars, childVars, histVars>>

DtorStep ==
  \/ DestroyNotify \/ DestroyFlush \/ DestroyFlushTimeout \/ CloseParentFd \/ ProcessExited
  \/ WaitExitTimeout \/ WaitTermTimeout \/ DestroyJoin

-----------------------------------------------------------------------------
(* The environment *)

ProcessRead ==
  /\ process = "running"
  /\ pipe # <<>>
  /\ childRead' = Append(childRead, Head(pipe))
  /\ pipe' = Tail(pipe)
  /\ UNCHANGED <<stateVars, loggerPc, writerVars, dtorPc, process, histVars>>

\* It exits at the end of its input, crashes, or obeys a signal.
ProcessDies ==
  /\ process = "running"
  /\ Die
  /\ UNCHANGED <<stateVars, loggerPc, writerVars, dtorPc, childRead, histVars>>

SpuriousWakeup ==
  /\ \/ NotifyWriter /\ writerPc = "sleeping" /\ UNCHANGED dtorPc
     \/ dtorPc = "flushing" /\ dtorPc' = "flush" /\ UNCHANGED writerPc
  /\ UNCHANGED <<stateVars, loggerPc, current, fd, childVars, histVars>>

LoggerTerminated == dtorPc = "destroyed" /\ UNCHANGED loggerVars

LoggerNext ==
  \/ \E l \in Loggers : LogNotify(l) \/ \E size \in Sizes : Log(l, size) \/ LogDrop(l, size)
  \/ WriterStep
  \/ StartThreadFails
  \/ DestroyBegin \/ DtorStep
  \/ ProcessRead \/ ProcessDies
  \/ SpuriousWakeup
  \/ LoggerTerminated

\* The scheduler runs every thread that can run and time passes; nothing is
\* assumed of the process.
LoggerFairness ==
  /\ WF_loggerVars(WriterStep)
  /\ WF_loggerVars(DestroyNotify) /\ WF_loggerVars(DestroyJoin) /\ WF_loggerVars(ProcessExited)
  /\ WF_loggerVars(CloseParentFd) /\ WF_loggerVars(DestroyFlush)
  /\ SF_loggerVars(DestroyFlushTimeout)
  /\ WF_loggerVars(WaitExitTimeout) /\ WF_loggerVars(WaitTermTimeout)
  /\ \A l \in Loggers : WF_loggerVars(LogNotify(l))

LoggerSpec == LoggerInit /\ [][LoggerNext]_loggerVars
LoggerFairSpec == LoggerSpec /\ LoggerFairness

-----------------------------------------------------------------------------
(* What the logger promises *)

\* "totalSize accounting fell out of sync!" (cpp:137, 147) cannot be reported:
\* totalBytes is the size of what is queued, and within the limit.  "Invariant:
\* empty if didStop is true" (h:64): nothing is queued for a writer that is gone.
Accounting ==
  /\ LoggerTypeOK
  /\ totalBytes <= Limit
  /\ totalBytes = IF messages = <<>> THEN 0
                  ELSE Accepted - (IF Head(messages) = 1 THEN 0 ELSE ends[Head(messages) - 1])
  /\ didStop => messages = <<>>

\* As long as the process lives, every accepted message is in exactly one place
\* on its way from the queue through the writer and the pipe, in order: nothing
\* is lost, doubled or overtaken, up to and including the flush on destruction.
InOrder ==
  process = "running" /\ ~startedLate =>
    childRead \o pipe \o (IF current = 0 THEN <<>> ELSE <<current>>) \o messages
      = [i \in 1 .. Len(ends) |-> i]

\* The writer never sleeps on a message or on the order to stop, unless a notify
\* is still to come.
NoLostWakeup ==
  writerPc = "sleeping" /\ (messages # <<>> \/ shouldStop) =>
    dtorPc = "notify" \/ \E l \in Loggers : loggerPc[l] = "notify"

\* h:40: "Either way, this destructor will completed within a bounded amount of
\* time", however the process behaves.
DestructorReturns == (dtorPc = "notify") ~> (dtorPc = "destroyed")

\* Whatever log() accepted reaches a process that keeps reading as long as it
\* lives, unless the destructor cuts the flush short.
LoggedIsReceived ==
  WF_loggerVars(ProcessRead) =>
    \A k \in 1 .. MaxMessages :
      (Len(ends) >= k) ~> (Len(childRead) >= k \/ process = "dead" \/ dtorPc = "close")

\* SubprocessScribeLogger.cpp:103-175: nothing is lost, doubled or overtaken, the byte count is
\* that of the queue, and the writer does not sleep on work.
MessagesKept == InOrder /\ Accounting /\ NoLostWakeup

\* SubprocessScribeLogger.cpp:76-101, 125-175: what was accepted arrives, and the destructor
\* returns.
LoggerProgress == DestructorReturns /\ LoggedIsReceived
=============================================================================
