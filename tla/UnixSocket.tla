----------------------------- MODULE UnixSocket -----------------------------
(***************************************************************************)
(* eden/common/utils/UnixSocket.{h,cpp}: a message socket driven by an     *)
(* event loop.  Everything runs on one thread, so what makes it hard is    *)
(* not preemption but re-entrance: every callback is user code that may    *)
(* call send(), close(), closeNow(), destroy() and the like on the socket  *)
(* whose method is still running further down the C++ stack.               *)
(*                                                                         *)
(* The C++ stack is explicit: a frame is a point where a method is to      *)
(* continue, "user" is a running callback, the head is on top.  An action  *)
(* runs the top method up to its next callback or return.  What the kernel *)
(* does with one sendmsg() or recvmsg() is reduced to whether the message  *)
(* is finished, still incomplete, or the call failed.                      *)
(***************************************************************************)
EXTENDS Naturals, Sequences

CONSTANTS
  MaxAtOnce,   \* MAX_MSGS_AT_ONCE, maxMessagesAtOnce
  MaxSends     \* bound on the calls of send()

ASSUME BoundAssumption == MaxAtOnce \in Nat \ {0} /\ MaxSends \in Nat

VARIABLES
  \* the members of UnixSocket
  socket,               \* whether socket_ holds a descriptor
  registeredIOEvents, closeStarted, receiveCallback,
  sendQueue,            \* sends are numbered in the order of the calls
  isScheduled,          \* of the AsyncTimeout
  \* DelayedDestruction: who may call destroy(), and how far it got
  owner, destroyed,
  stack,
  connecting,           \* the static connect() and its Connector
  \* sends with a null callback; calls of send(); the answers given so far
  silent, attempts, answers,
  \* history: the socket was closed hard or failed; an XDCHECK did not hold;
  \* the kernel has really connected the descriptor
  hard, assertFailed, connected

memberVars == <<socket, registeredIOEvents, closeStarted, receiveCallback, isScheduled>>
sendVars   == <<sendQueue, silent, attempts, answers>>
histVars   == <<hard, assertFailed>>
connVars   == <<connecting, connected>>
vars == <<memberVars, sendVars, owner, destroyed, stack, histVars, connVars>>

Frame(where) == [at |-> where, n |-> 0]
User == Frame("user")

Labels == {"user", "trySend", "sendCatch", "tryReceive", "handlerEnd", "closeNow",
           "closeNowFail", "closeShutdown", "socketError", "errorFail", "destroyEnd"}

TypeOK ==
  /\ socket \in {"open", "closed"}
  /\ registeredIOEvents \subseteq {"READ", "WRITE"}
  /\ closeStarted \in BOOLEAN /\ receiveCallback \in BOOLEAN /\ isScheduled \in BOOLEAN
  /\ sendQueue \in Seq(1 .. MaxSends)
  /\ owner \in BOOLEAN /\ destroyed \in {"no", "pending", "done"}
  /\ stack \in Seq([at : Labels, n : 0 .. MaxAtOnce])
  /\ connecting \in {"idle", "waiting", "done", "failed"}
  /\ silent \subseteq 1 .. MaxSends
  /\ attempts \in 0 .. MaxSends
  /\ answers \in Seq([id : 1 .. MaxSends, result : {"success", "error", "rejected"}])
  /\ hard \in BOOLEAN /\ assertFailed \in BOOLEAN /\ connected \in BOOLEAN

Init ==
  /\ socket = "open"
  /\ registeredIOEvents = {}
  /\ closeStarted = FALSE /\ receiveCallback = FALSE /\ isScheduled = FALSE
  /\ sendQueue = <<>>
  /\ owner = TRUE /\ destroyed = "no"
  /\ stack = <<>>
  /\ connecting = "idle"
  /\ silent = {} /\ attempts = 0 /\ answers = <<>>
  /\ hard = FALSE /\ assertFailed = FALSE /\ connected = FALSE

-----------------------------------------------------------------------------
(* The stack *)

Top(where) == stack # <<>> /\ Head(stack).at = where
Rest == Tail(stack)

\* Frames whose method holds a DestructorGuard.
Guards == {"sendCatch", "handlerEnd", "closeNowFail", "errorFail"}
Guarded(st) == \E i \in DOMAIN st : st[i].at \in Guards

\* Go on with st; a delayed destruction happens when the last guard is gone.
Resume(st) ==
  /\ stack' = st
  /\ destroyed' = IF destroyed = "pending" /\ ~Guarded(st) THEN "done" ELSE destroyed

\* User code runs in a callback or, on the event loop's thread, by itself.
MayCall ==
  /\ connecting = "done"
  /\ destroyed # "done"
  /\ Top("user") \/ (stack = <<>> /\ owner)

UserReturn ==
  /\ Top("user")
  /\ Resume(Rest)
  /\ UNCHANGED <<memberVars, sendVars, owner, histVars, connVars>>

\* The end of send() and of handlerReady(), behind their try blocks.
CatchEnd ==
  /\ Top("sendCatch") \/ Top("handlerEnd")
  /\ Resume(Rest)
  /\ UNCHANGED <<memberVars, sendVars, owner, histVars, connVars>>

\* The callback of send `id`, unless it is null.
Notify(id, st) == IF id \in silent THEN st ELSE <<User>> \o st
Answer(id, result) == answers' = Append(answers, [id |-> id, result |-> result])

-----------------------------------------------------------------------------
(* Sending *)

Enqueue(id) == sendQueue' = Append(sendQueue, id)

\* A send on an open socket is queued, and tried at once if it is the only one.
Send(null) ==
  /\ MayCall
  /\ ~closeStarted
  /\ attempts < MaxSends
  /\ attempts' = attempts + 1
  /\ silent' = IF null THEN silent \union {attempts + 1} ELSE silent
  /\ Enqueue(attempts + 1)
  /\ Resume(IF sendQueue = <<>> THEN <<Frame("trySend"), Frame("sendCatch")>> \o stack
            ELSE stack)
  /\ UNCHANGED <<memberVars, answers, owner, histVars, connVars>>

\* The socket is closed, or there is no memory for the queue entry.
SendRejected ==
  /\ MayCall
  /\ attempts < MaxSends
  /\ attempts' = attempts + 1
  /\ Answer(attempts + 1, "rejected")
  /\ Resume(<<User>> \o stack)
  /\ UNCHANGED <<memberVars, sendQueue, silent, owner, histVars, connVars>>

Trying == Top("trySend") /\ sendQueue # <<>> /\ Head(stack).n < MaxAtOnce

\* trySendMessage() returns true: pop the entry, then call back.
SendComplete ==
  /\ Trying
  /\ sendQueue' = Tail(sendQueue)
  /\ Answer(Head(sendQueue), "success")
  /\ Resume(Notify(Head(sendQueue), <<[Head(stack) EXCEPT !.n = @ + 1]>> \o Rest))
  /\ UNCHANGED <<memberVars, silent, attempts, owner, histVars, connVars>>

\* The tail of trySend(), with something left to send ...
AwaitWritable ==
  /\ isScheduled' = TRUE
  /\ registeredIOEvents' = registeredIOEvents \union {"WRITE"}
  /\ Resume(Rest)

\* trySendMessage() returns false.
SendBlocked ==
  /\ Trying
  /\ AwaitWritable
  /\ UNCHANGED <<socket, closeStarted, receiveCallback, sendVars, owner, histVars, connVars>>

\* ... and without: the rest of a graceful close.
Drained ==
  /\ isScheduled' = FALSE
  /\ registeredIOEvents' = registeredIOEvents \ {"WRITE"}
  /\ Resume(IF closeStarted THEN <<Frame("closeNow")>> \o Rest ELSE Rest)

TrySendEnd ==
  /\ Top("trySend")
  /\ ~Trying
  /\ IF sendQueue = <<>> THEN Drained ELSE AwaitWritable
  /\ UNCHANGED <<socket, closeStarted, receiveCallback, sendVars, owner, histVars, connVars>>

\* sendmsg() fails: caught by send() or handlerReady(), the frame below.
SendThrows ==
  /\ Trying
  /\ Resume(<<Frame("socketError")>> \o Rest)
  /\ UNCHANGED <<memberVars, sendVars, owner, histVars, connVars>>

-----------------------------------------------------------------------------
(* Receiving, and the event loop *)

SetReceiveCallback ==
  /\ MayCall
  /\ ~receiveCallback /\ ~closeStarted
  /\ receiveCallback' = TRUE
  /\ registeredIOEvents' = registeredIOEvents \union {"READ"}
  /\ UNCHANGED <<socket, closeStarted, isScheduled, sendVars, owner, destroyed, stack,
                 histVars, connVars>>

ClearReceiveCallback ==
  /\ MayCall
  /\ receiveCallback
  /\ receiveCallback' = FALSE
  /\ registeredIOEvents' = registeredIOEvents \ {"READ"}
  /\ UNCHANGED <<socket, closeStarted, isScheduled, sendVars, owner, destroyed, stack,
                 histVars, connVars>>

\* Mutant of Dispatch: WRITE has to wait while there is something to read.
Dispatch_ReadFirst(events) ==
  IF "READ" \in events THEN <<Frame("tryReceive")>> ELSE <<Frame("trySend")>>

\* READ is handled before WRITE.
Dispatch(events) ==
  (IF "READ" \in events THEN <<Frame("tryReceive")>> ELSE <<>>)
  \o (IF "WRITE" \in events THEN <<Frame("trySend")>> ELSE <<>>)

HandlerReady(events) ==
  /\ stack = <<>>
  /\ connecting = "done"
  /\ events # {} /\ events \subseteq registeredIOEvents
  /\ Resume(Dispatch(events) \o <<Frame("handlerEnd")>>)
  /\ UNCHANGED <<memberVars, sendVars, owner, histVars, connVars>>

Receiving == Top("tryReceive") /\ receiveCallback /\ Head(stack).n < MaxAtOnce

ReceiveMessage ==
  /\ Receiving
  /\ Resume(<<User, [Head(stack) EXCEPT !.n = @ + 1]>> \o Rest)
  /\ UNCHANGED <<memberVars, sendVars, owner, histVars, connVars>>

\* End of file is reported, and the receive loop left.
ReceiveEof ==
  /\ Receiving
  /\ Resume(<<User>> \o Rest)
  /\ UNCHANGED <<memberVars, sendVars, owner, histVars, connVars>>

\* The message is incomplete, the loop has run long enough, or the callback is
\* gone (which XDCHECK excludes at the start).
ReceiveEnd ==
  /\ Top("tryReceive")
  /\ Resume(Rest)
  /\ assertFailed' = (assertFailed \/ (Head(stack).n = 0 /\ ~receiveCallback))
  /\ UNCHANGED <<memberVars, sendVars, owner, hard, connVars>>

\* recvmsg() fails, or the stream is not what it should be: unwind to
\* handlerReady(), which is at the bottom of the stack.
ReceiveThrows ==
  /\ Receiving
  /\ Resume(<<Frame("socketError"), Frame("handlerEnd")>>)
  /\ UNCHANGED <<memberVars, sendVars, owner, histVars, connVars>>

TimeoutExpired ==
  /\ stack = <<>>
  /\ isScheduled
  /\ isScheduled' = FALSE
  /\ Resume(<<Frame("socketError")>>)
  /\ UNCHANGED <<socket, registeredIOEvents, closeStarted, receiveCallback, sendVars,
                 owner, histVars, connVars>>

-----------------------------------------------------------------------------
(* Closing *)

\* What close() and closeNow() call when a receive callback was installed.
SocketClosed(st) == (IF receiveCallback THEN <<User>> ELSE <<>>) \o st

NothingPending == sendQueue = <<>>

\* Without pending sends close() is closeNow(); with them it closes the receive
\* side only, and shutdown() follows the callback.
Close ==
  /\ MayCall
  /\ ~closeStarted
  /\ \/ /\ NothingPending
        /\ Resume(<<Frame("closeNow")>> \o stack)
        /\ UNCHANGED memberVars
     \/ /\ ~NothingPending
        /\ closeStarted' = TRUE
        /\ receiveCallback' = FALSE
        /\ registeredIOEvents' = registeredIOEvents \ {"READ"}
        /\ Resume(SocketClosed(<<Frame("closeShutdown")>> \o stack))
        /\ UNCHANGED <<socket, isScheduled>>
  /\ UNCHANGED <<sendVars, owner, histVars, connVars>>

\* shutdown(), which fails and makes close() throw if the callback has closed
\* the socket.
CloseShutdown ==
  /\ Top("closeShutdown")
  /\ Resume(Rest)
  /\ UNCHANGED <<memberVars, sendVars, owner, histVars, connVars>>

\* closeNow() called by the user.
CallCloseNow ==
  /\ MayCall
  /\ hard' = TRUE
  /\ Resume(<<Frame("closeNow")>> \o stack)
  /\ UNCHANGED <<memberVars, sendVars, owner, assertFailed, connVars>>

\* What both closeNow() and socketError() assert of a closed socket.
ClosedAsserts ==
  registeredIOEvents = {} /\ ~isScheduled /\ ~receiveCallback /\ sendQueue = <<>>

\* Unregister from the event loop and take the receive callback out.
Disarm ==
  /\ closeStarted' = TRUE
  /\ registeredIOEvents' = {}
  /\ isScheduled' = FALSE
  /\ receiveCallback' = FALSE

CloseNow ==
  /\ Top("closeNow")
  /\ \/ /\ socket = "closed"
        /\ assertFailed' = (assertFailed \/ ~ClosedAsserts \/ ~closeStarted)
        /\ Resume(Rest)
        /\ UNCHANGED memberVars
     \/ /\ socket = "open"
        /\ Disarm
        /\ Resume(SocketClosed(<<Frame("closeNowFail")>> \o Rest))
        /\ UNCHANGED <<socket, assertFailed>>
  /\ UNCHANGED <<sendVars, owner, hard, connVars>>

\* socketError() closes the descriptor before it calls anybody.
SocketError ==
  /\ Top("socketError")
  /\ \/ /\ socket = "closed"
        /\ assertFailed' = (assertFailed \/ ~ClosedAsserts)
        /\ Resume(Rest)
        /\ UNCHANGED <<memberVars, hard>>
     \/ /\ socket = "open"
        /\ Disarm
        /\ socket' = "closed"
        /\ hard' = TRUE
        /\ Resume(SocketClosed(<<Frame("errorFail")>> \o Rest))
        /\ UNCHANGED assertFailed
  /\ UNCHANGED <<sendVars, owner, connVars>>

\* Mutant of PopFailed: the entry is removed only after its callback.
PopFailed_After == UNCHANGED sendQueue
PopFailed == sendQueue' = Tail(sendQueue)

\* failAllSends(): one entry ...
FailSend ==
  /\ Top("closeNowFail") \/ Top("errorFail")
  /\ sendQueue # <<>>
  /\ PopFailed
  /\ Answer(Head(sendQueue), "error")
  /\ Resume(Notify(Head(sendQueue), stack))
  /\ UNCHANGED <<memberVars, silent, attempts, owner, histVars, connVars>>

\* ... and the end of its caller, which is where closeNow() closes the
\* descriptor.
FailDone ==
  /\ Top("closeNowFail") \/ Top("errorFail")
  /\ sendQueue = <<>>
  /\ socket' = "closed"
  /\ Resume(Rest)
  /\ UNCHANGED <<registeredIOEvents, closeStarted, receiveCallback, isScheduled, sendVars,
                 owner, histVars, connVars>>

-----------------------------------------------------------------------------
(* destroy() *)

Destroy ==
  /\ MayCall
  /\ owner
  /\ owner' = FALSE
  /\ hard' = TRUE
  /\ Resume(<<Frame("closeNow"), Frame("destroyEnd")>> \o stack)
  /\ UNCHANGED <<memberVars, sendVars, assertFailed, connVars>>

\* Mutant of DelayedDestroy: the object dies at once.
DelayedDestroy_AtOnce == destroyed' = "done"
\* DelayedDestruction::destroy()
DelayedDestroy == destroyed' = IF Guarded(Rest) THEN "pending" ELSE "done"

DestroyEnd ==
  /\ Top("destroyEnd")
  /\ stack' = Rest
  /\ DelayedDestroy
  /\ UNCHANGED <<memberVars, sendVars, owner, histVars, connVars>>

-----------------------------------------------------------------------------
(* connect() *)

\* A socket made from a descriptor that is connected already.
Adopt ==
  /\ connecting = "idle"
  /\ connecting' = "done"
  /\ connected' = TRUE
  /\ UNCHANGED <<memberVars, sendVars, owner, destroyed, stack, histVars>>

\* connectSuccess() hands out the new socket.
ConnectSuccess(really) ==
  /\ connecting' = "done"
  /\ connected' = really
  /\ stack' = <<User>>
  /\ UNCHANGED <<memberVars, sendVars, owner, destroyed, histVars>>

ConnectError ==
  /\ connecting' = "failed"
  /\ UNCHANGED <<memberVars, sendVars, owner, destroyed, stack, histVars, connected>>

\* connect(2) answers at once, or with EAGAIN, and a Connector waits.
Connect ==
  /\ connecting = "idle"
  /\ \/ ConnectSuccess(TRUE)
     \/ ConnectError
     \/ /\ connecting' = "waiting"
        /\ UNCHANGED <<memberVars, sendVars, owner, destroyed, stack, histVars, connected>>

\* Connector::handlerReady() asks getsockopt() for the error of the connection,
\* and looks whether the question was answered.
ConnectorReady ==
  /\ connecting = "waiting"
  /\ \/ \E error \in BOOLEAN : ConnectSuccess(~error)
     \/ ConnectError

ConnectorTimeout ==
  /\ connecting = "waiting"
  /\ ConnectError

-----------------------------------------------------------------------------
Terminated ==
  /\ stack = <<>>
  /\ connecting = "failed" \/ destroyed = "done"
  /\ UNCHANGED vars

UserCall ==
  \/ (\E null \in BOOLEAN : Send(null)) \/ SendRejected
  \/ SetReceiveCallback \/ ClearReceiveCallback
  \/ Close \/ CallCloseNow \/ Destroy

\* The socket's own code goes on, or a callback returns.
Continue ==
  \/ UserReturn \/ CatchEnd
  \/ SendComplete \/ SendBlocked \/ TrySendEnd \/ SendThrows
  \/ ReceiveMessage \/ ReceiveEof \/ ReceiveEnd \/ ReceiveThrows
  \/ CloseNow \/ SocketError \/ FailSend \/ FailDone \/ CloseShutdown \/ DestroyEnd

Next ==
  \/ UserCall
  \/ Continue
  \/ \E events \in SUBSET {"READ", "WRITE"} : HandlerReady(events)
  \/ TimeoutExpired
  \/ Adopt \/ Connect \/ ConnectorReady \/ ConnectorTimeout
  \/ Terminated

Spec == Init /\ [][Next]_vars

\* Methods run on and callbacks return, whatever they call before; the event loop
\* does not ignore a socket that is ready to write for ever; and a kernel that
\* reports it ready again and again takes the message in the end.
Fairness ==
  /\ WF_vars(Continue) /\ SF_vars(UserReturn)
  /\ SF_vars(TimeoutExpired \/ \E events \in SUBSET {"READ", "WRITE"} :
                                 "WRITE" \in events /\ HandlerReady(events))
  /\ SF_vars(SendComplete)

FairSpec == Spec /\ Fairness

-----------------------------------------------------------------------------
(* What the socket promises *)

Waiting == {sendQueue[i] : i \in DOMAIN sendQueue}

\* However callbacks re-enter the socket while it sends, closes or fails its
\* queue, every send() is waiting or was answered, once.
AnsweredOnce ==
  /\ TypeOK
  /\ Len(sendQueue) + Len(answers) = attempts
  /\ Waiting \union {answers[i].id : i \in DOMAIN answers} = 1 .. attempts

\* Answers come in the order of the sends, and after a failure there is no
\* success any more (UnixSocket.h:83-84).  Rejected sends were never queued.
InOrder ==
  \A i, j \in DOMAIN answers :
    i < j /\ answers[i].result # "rejected" /\ answers[j].result # "rejected" =>
      /\ answers[i].id < answers[j].id
      /\ answers[i].result = "error" => answers[j].result = "error"

\* Whenever control is back in the event loop, the socket is registered for
\* exactly what it waits for: reads for its receive callback, writes and the
\* timeout for its send queue.
Settled ==
  stack = <<>> =>
    /\ ("READ" \in registeredIOEvents) = receiveCallback
    /\ ("WRITE" \in registeredIOEvents) = (sendQueue # <<>>)
    /\ isScheduled = (sendQueue # <<>>)

\* A closed socket gets no event, no timeout and no receive callback any more,
\* even while callbacks of the closing method still run, and nothing is sent on
\* a closed descriptor.
ClosedIsQuiet ==
  socket = "closed" =>
    /\ registeredIOEvents = {} /\ ~isScheduled /\ ~receiveCallback
    /\ ~Trying

\* close() "waits until we have finished send those messages" (UnixSocket.h:205):
\* a send that was accepted fails only after closeNow(), destroy() or an error.
GracefulClose == (\E i \in DOMAIN answers : answers[i].result = "error") => hard

\* A callback may destroy the socket: no method continues on an object that is
\* gone.  The exception is close(), which holds no DestructorGuard while it calls
\* socketClosed() and uses socket_ afterwards.
DestroyedIsUnused ==
  destroyed = "done" =>
    \A i \in DOMAIN stack : stack[i].at \in {"user", "closeShutdown"}

\* The socket answers every send.
SendAnswered == \A id \in 1 .. MaxSends : (id \in Waiting) ~> (id \notin Waiting)

\* A graceful close is completed.
CloseCompletes == closeStarted ~> (socket = "closed")

\* The XDCHECKs of closeNow() (cpp:242-247), socketError() (cpp:983-987) and
\* tryReceive() (cpp:701) fail in one situation only: a callback that
\* socketError() runs calls closeNow() or destroy() while sends are left to be
\* failed.  (cpp:991-992 provides for such a destroy().)
AssertsFailOnlyInErrors ==
  [][assertFailed' # assertFailed =>
       sendQueue # <<>> /\ \E i \in DOMAIN stack : stack[i].at = "errorFail"]_vars

\* UnixSocket.cpp:342-394, 500-527, 978-1030: every send() has one answer, in order, and a
\* graceful close fails none.
SendsAnsweredOnce == AnsweredOnce /\ InOrder /\ GracefulClose

\* UnixSocket.cpp:183-272, 944-1054: between two events the socket waits for exactly what it
\* needs; closed it waits for nothing; destroyed it is not used.
QuietWhenDone == Settled /\ ClosedIsQuiet /\ DestroyedIsUnused

\* UnixSocket.cpp:183-272, 500-527, 978-1030: every send is answered and a graceful close comes to
\* its end.
SocketProgress == SendAnswered /\ CloseCompletes

\* connectSuccess() "will be called with the connected UnixSocket when the connect
\* operation succeeds" (UnixSocket.h:135-136).
SuccessIsConnected == connecting = "done" => connected
=============================================================================
