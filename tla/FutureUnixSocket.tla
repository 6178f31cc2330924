-------------------------- MODULE FutureUnixSocket --------------------------
(***************************************************************************)
(* eden/common/utils/FutureUnixSocket.{h,cpp} on top of the receiving end  *)
(* of a UnixSocketStream: receive() queues a promise with a timeout of its *)
(* own, messages fulfil the promises in order, and every way to lose the   *)
(* socket fails them all.  A promise runs its continuation at once, and    *)
(* the continuation may call any method again: failReceiveQueue() is one   *)
(* step per promise, with its local queue in `failing`.                    *)
(***************************************************************************)
EXTENDS UnixSocketStream

CONSTANTS
  MaxReceives,    \* bound on the calls of receive()
  MaxConnections  \* bound on the connections of one FutureUnixSocket

ASSUME BoundAssumption == MaxReceives \in Nat /\ MaxConnections \in Nat \ {0}

VARIABLES
  socket,       \* whether socket_ is set
  recvQueue,    \* receives without an answer; a receive is its number
  failing,      \* the queues of running failReceiveQueue() calls, innermost first
  answers,      \* history: the answers, in the order they were given
  receives,     \* history: the connection on which each receive was queued, or 0
  connections   \* history: number of connections so far

futureVars == <<socket, recvQueue, failing, answers, receives, connections>>
vars == <<streamVars, futureVars>>

\* UnixSocket::receiveCallback_ is this object.
ReceiveCallbackSet == recvQueue # <<>>

Init ==
  /\ StreamInit
  /\ socket = TRUE /\ connections = 1
  /\ recvQueue = <<>> /\ failing = <<>>
  /\ answers = <<>> /\ receives = <<>>

Answer(id, result) == [id |-> id, result |-> result, connection |-> connections]

-----------------------------------------------------------------------------
(* The sending end *)

\* FutureUnixSocket::send(), on the other end of the connection. Called on a closed
\* socket it returns a failed future and changes nothing; the future of a message that
\* was queued is SendCallback's, whose answers UnixSocket.SendsAnsweredOnce is about.
Send(kind) ==
  /\ EnqueueMessage(kind)
  /\ UNCHANGED <<wire, peerClosed, recv, received, split, futureVars>>

\* UnixSocket::trySend() of the sending end, as far as the kernel takes the message.
SendStep(n) ==
  /\ TrySendMessage(n)
  /\ UNCHANGED <<peerClosed, recv, received, split, futureVars>>

PeerCloses ==
  /\ ClosePeer
  /\ UNCHANGED <<wire, recv, received, split, futureVars>>

-----------------------------------------------------------------------------
(* Receiving *)

Receive ==
  /\ socket
  /\ Len(receives) < MaxReceives
  /\ receives' = Append(receives, connections)
  /\ recvQueue' = Append(recvQueue, Len(receives) + 1)
  /\ UNCHANGED <<streamVars, socket, failing, answers, connections>>

ReceiveOnClosed ==
  /\ ~socket
  /\ Len(receives) < MaxReceives
  /\ receives' = Append(receives, 0)
  /\ answers' = Append(answers, Answer(Len(receives) + 1, "closedSocket"))
  /\ UNCHANGED <<streamVars, socket, recvQueue, failing, connections>>

\* The event loop runs when no method of the socket does.
MayHandle == socket /\ failing = <<>>

\* failAllPromises(), up to the first setException().
FailAllPromises(reason) ==
  /\ failing' = [i \in DOMAIN recvQueue |-> Answer(recvQueue[i], reason)] \o failing
  /\ recvQueue' = <<>>

\* One turn of failReceiveQueue().
FailOne ==
  /\ failing # <<>>
  /\ failing' = Tail(failing)
  /\ answers' = Append(answers, Head(failing))
  /\ UNCHANGED <<streamVars, socket, recvQueue, receives, connections>>

\* socket_.reset(): the UnixSocket closes, and calls socketClosed() if a receive
\* callback is installed.  Bytes that were not read are lost.
CloseSocket ==
  /\ socket' = FALSE
  /\ FailAllPromises("closedLocally")
  /\ UNCHANGED <<streamVars, answers, receives, connections>>

\* messageReceived(): the oldest receive; without another the callback is cleared.
FulfilFirst ==
  /\ recvQueue' = Tail(recvQueue)
  /\ answers' = Append(answers, Answer(Head(recvQueue), "message"))

\* tryReceive(), one recvmsg(): the message is incomplete ...
ReceiveMore(n) ==
  /\ MayHandle /\ ReceiveCallbackSet
  /\ ReceivePart(n)
  /\ Outcome(Take(n)) = "more"
  /\ recv' = Take(n)
  /\ UNCHANGED <<senderVars, peerClosed, received, futureVars>>

\* ... complete ...
ReceiveMessage(n) ==
  /\ MayHandle /\ ReceiveCallbackSet
  /\ ReceivePart(n)
  /\ Outcome(Take(n)) = "message"
  /\ received' = Append(received, Message(Take(n)))
  /\ AfterMessage(Take(n))
  /\ FulfilFirst
  /\ UNCHANGED <<senderVars, peerClosed, socket, failing, receives, connections>>

\* ... or wrong, which ends in receiveError().
ReceiveBad(n) ==
  /\ MayHandle /\ ReceiveCallbackSet
  /\ ReceivePart(n)
  /\ Outcome(Take(n)) = "error"
  /\ socket' = FALSE
  /\ FailAllPromises("error")
  /\ UNCHANGED <<senderVars, peerClosed, recv, received, answers, receives, connections>>

\* End of file between two messages or within one.  eofReceived() closes the socket
\* first, and the promises are failed by the socketClosed() that this calls.
ReceiveEof ==
  /\ MayHandle /\ ReceiveCallbackSet /\ AtEof
  /\ socket' = FALSE
  /\ FailAllPromises(IF recv.header = <<>> THEN "closedLocally" ELSE "error")
  /\ UNCHANGED <<streamVars, answers, receives, connections>>

\* recvmsg() fails.
ReceiveFails ==
  /\ MayHandle /\ ReceiveCallbackSet
  /\ socket' = FALSE
  /\ FailAllPromises("error")
  /\ UNCHANGED <<streamVars, answers, receives, connections>>

\* Mutant of ReceiveTimeout: the socket stays open.
ReceiveTimeout_KeepSocket ==
  /\ MayHandle /\ ReceiveCallbackSet
  /\ FailAllPromises("timeout")
  /\ UNCHANGED <<streamVars, socket, answers, receives, connections>>

\* Mutant of ReceiveTimeout: the first message cancels the timeouts of all receives.
ReceiveTimeout_Cancelled ==
  /\ MayHandle /\ ReceiveCallbackSet /\ received = <<>>
  /\ socket' = FALSE
  /\ FailAllPromises("timeout")
  /\ UNCHANGED <<streamVars, answers, receives, connections>>

\* The timeout of one of the receives, not always the oldest: receiveTimeout()
\* takes the whole queue before it destroys the socket.
ReceiveTimeout ==
  /\ MayHandle /\ ReceiveCallbackSet
  /\ socket' = FALSE
  /\ FailAllPromises("timeout")
  /\ UNCHANGED <<streamVars, answers, receives, connections>>

\* closeNow(), or the destructor.
CloseNow ==
  /\ socket
  /\ CloseSocket

\* connectSuccess() assigns a new FutureUnixSocket to this one.  socket_ holds the
\* new connection when the old one is destroyed; if a receive is pending, the old
\* one calls socketClosed(), and that resets socket_ once more.
Connect ==
  /\ connections < MaxConnections
  /\ connections' = connections + 1
  /\ socket' = ~ReceiveCallbackSet
  /\ FailAllPromises("closedLocally")
  /\ sendQueue' = <<>> /\ wire' = <<>> /\ peerClosed' = FALSE
  /\ recv' = NothingReceived
  /\ sent' = <<>> /\ received' = <<>>
  /\ UNCHANGED <<split, answers, receives>>

Terminated ==
  /\ ~socket /\ failing = <<>>
  /\ connections = MaxConnections /\ Len(receives) = MaxReceives
  /\ UNCHANGED vars

Bytes == 1 .. WireCapacity

Handle ==
  \/ \E n \in Bytes : ReceiveMore(n) \/ ReceiveMessage(n) \/ ReceiveBad(n)
  \/ ReceiveEof \/ ReceiveFails \/ ReceiveTimeout

Next ==
  \/ \E kind \in Kinds : Send(kind)
  \/ \E n \in Bytes : SendStep(n)
  \/ PeerCloses
  \/ Receive \/ ReceiveOnClosed
  \/ FailOne \/ Handle
  \/ CloseNow \/ Connect
  \/ Terminated

\* The event loop runs the handlers and timeouts of a socket, and a
\* failReceiveQueue() that has begun goes on.
Spec == Init /\ [][Next]_vars /\ WF_vars(FailOne) /\ WF_vars(ReceiveTimeout)

-----------------------------------------------------------------------------
(* What is promised *)

TypeOK ==
  /\ socket \in BOOLEAN /\ peerClosed \in BOOLEAN /\ split \in BOOLEAN
  /\ Len(sent) <= MaxSends /\ Len(wire) <= WireCapacity
  /\ connections \in 1 .. MaxConnections
  /\ recvQueue \in Seq(1 .. MaxReceives)
  /\ Len(recv.header) <= kHeaderLength

\* UnixSocket.cpp:486-942: however the kernel cuts the stream, each message arrives complete,
\* with its own data and its own files, in the order of the sends, until one is sent
\* whose size the 32-bit header cannot hold.
DeliveredAsSent ==
  /\ TypeOK
  /\ \A n \in DOMAIN received :
       (\A i \in 1 .. n : i \in DOMAIN sent /\ sent[i].data < SizeModulus) =>
         received[n] = SentMessage(n)

\* The j-th answer is a message of connection c.
MessageOf(c, j) == answers[j].result = "message" /\ answers[j].connection = c

\* FutureUnixSocket.h:131-136: "The first receive() call will receive the first
\* message received on the socket, the second receive() call will receive the second
\* message, etc."  So a receive gets a message of the connection it was made on, after all
\* earlier receives on that connection got theirs, and as many messages are given as
\* arrived; each receive is waiting or has one answer; one that has timed out or
\* failed leaves no message behind for a later one; and the destructor's
\* XCHECK(!recvQueue_) holds.
AnsweredInOrder ==
  /\ \A j \in DOMAIN answers : \A c \in 1 .. connections : MessageOf(c, j) =>
       /\ receives[answers[j].id] = c
       /\ \A id \in 1 .. (answers[j].id - 1) : receives[id] = c =>
            \E h \in 1 .. (j - 1) : answers[h].id = id /\ MessageOf(c, h)
  /\ Cardinality({j \in DOMAIN answers : MessageOf(connections, j)}) = Len(received)
  /\ \A j, h \in DOMAIN answers : answers[j].id = answers[h].id => j = h
  /\ Len(recvQueue) + Len(failing) + Len(answers) = Len(receives)
  /\ socket \/ recvQueue = <<>>

\* FutureUnixSocket.cpp:184-271: every receive is answered, with a message, with an error or by
\* its timeout. (There are MaxReceives of them, so that to be all answered again and again is
\* to be answered each.)
ReceiveProgress == []<>(Len(answers) = Len(receives))
=============================================================================
