-------------------------- MODULE UnixSocketStream --------------------------
(***************************************************************************)
(* eden/common/utils/UnixSocket.cpp, the wire format: how messages of data *)
(* and file descriptors are cut into sendmsg() calls by trySendMessage()   *)
(* and put together again by tryReceiveOne().  One direction of one        *)
(* connection.  The kernel takes and gives any number of bytes; files      *)
(* travel with the first byte of the sendmsg() they were given to, and a   *)
(* recvmsg() never returns the files of two sendmsg() calls.               *)
(*                                                                         *)
(* A byte is a record that remembers where it comes from, and a file is    *)
(* <<message, number>>, so that a receiver that mixes things up is seen to *)
(* do so.  Message n is the n-th of the connection.                        *)
(***************************************************************************)
EXTENDS Naturals, Sequences, SequencesExt, FiniteSetsExt

CONSTANTS
  kHeaderLength, kMaxFDs,
  maxDataLength, maxFiles,
  SizeModulus,    \* 2^32, of the header's dataSize
  Kinds,          \* the messages that may be sent, as [data : Nat, files : Nat]
  WireCapacity,   \* bytes that the kernel buffers
  MaxSends        \* bound on the messages of one connection

ASSUME StreamAssumption ==
  /\ kHeaderLength \in Nat \ {0} /\ kMaxFDs \in Nat \ {0} /\ SizeModulus \in Nat \ {0}
  /\ maxDataLength \in Nat /\ maxFiles \in Nat /\ WireCapacity \in Nat /\ MaxSends \in Nat
  /\ \A kind \in Kinds : kind \in [data : Nat, files : Nat]

VARIABLES
  sendQueue,   \* SendQueueEntry: the message, and how much of it was sent
  wire,        \* bytes in the kernel
  peerClosed,  \* the sending end is closed
  recv,        \* recvHeaderBuffer_, recvMessage_.data, recvMessage_.files
  sent,        \* history: the messages given to send()
  received,    \* history: the messages given to messageReceived()
  split        \* history: tryReceiveOne() was entered with its XDCHECKs false

senderVars == <<sendQueue, sent>>
streamVars == <<senderVars, wire, peerClosed, recv, received, split>>

NothingReceived == [header |-> <<>>, data |-> <<>>, files |-> <<>>]

\* A new connection.
StreamInit ==
  /\ sendQueue = <<>> /\ wire = <<>> /\ peerClosed = FALSE
  /\ recv = NothingReceived
  /\ sent = <<>> /\ received = <<>> /\ split = FALSE

-----------------------------------------------------------------------------
(* The sender *)

Files(n, from, to) == [i \in 1 .. (to - from) |-> <<n, from + i>>]

\* The iovecs of an entry: the header, then the data.
Iov(n, kind) ==
  [i \in 1 .. (kHeaderLength + kind.data) |->
     IF i <= kHeaderLength THEN [part |-> "header", of |-> n, at |-> i, files |-> <<>>]
     ELSE [part |-> "data", of |-> n, at |-> i - kHeaderLength, files |-> <<>>]]

SendQueueEntry(n, kind) == [of |-> n, iov |-> Iov(n, kind), first |-> TRUE, filesSent |-> 0]

\* send() puts the message into the queue.
EnqueueMessage(kind) ==
  /\ ~peerClosed
  /\ Len(sent) < MaxSends
  /\ sent' = Append(sent, kind)
  /\ sendQueue' = Append(sendQueue, SendQueueEntry(Len(sent) + 1, kind))

\* The number of files that go with the next sendmsg(): none with the rest of a
\* message whose first byte is on its way.
FirstControlMsg(entry) ==
  IF entry.first THEN Min({kMaxFDs, sent[entry.of].files}) ELSE 0

AdditionalControlMsg(entry) == Min({kMaxFDs, sent[entry.of].files - entry.filesSent})

\* Mutant of FilesToSend: the files go with every sendmsg() of the data.
FilesToSend_Again(entry) == Min({kMaxFDs, sent[entry.of].files})
FilesToSend(entry) ==
  IF entry.iov # <<>> THEN FirstControlMsg(entry) ELSE AdditionalControlMsg(entry)

\* Files left over when the data is sent need a byte each to travel with.
ToSend(entry) ==
  IF entry.iov # <<>> THEN entry.iov
  ELSE <<[part |-> "pad", of |-> entry.of, at |-> entry.filesSent, files |-> <<>>]>>

\* sendmsg() takes n bytes, and the entry is advanced past them.
TrySendMessage(n) ==
  LET entry == Head(sendQueue)
      count == FilesToSend(entry)
      upto  == entry.filesSent + count
      next  == [entry EXCEPT !.iov = IF @ # <<>> THEN SubSeq(@, n + 1, Len(@)) ELSE @,
                             !.first = FALSE, !.filesSent = upto]
      done  == next.iov = <<>> /\ next.filesSent = sent[entry.of].files
  IN /\ sendQueue # <<>>
     /\ ~peerClosed
     /\ n <= Len(ToSend(entry)) /\ Len(wire) + n <= WireCapacity
     /\ wire' = wire \o [SubSeq(ToSend(entry), 1, n) EXCEPT
                           ![1].files = Files(entry.of, entry.filesSent, upto)]
     /\ sendQueue' = (IF done THEN <<>> ELSE <<next>>) \o Tail(sendQueue)
     /\ UNCHANGED sent

\* The sending end is closed or dies, with or without messages in its queue.
ClosePeer ==
  /\ ~peerClosed
  /\ peerClosed' = TRUE
  /\ sendQueue' = <<>>
  /\ UNCHANGED sent

-----------------------------------------------------------------------------
(* The receiver *)

\* serializeHeader() takes the size as a uint32_t.
SerializedSize(kind) == kind.data % SizeModulus

\* Whether the bytes in the buffer are a header, in one piece.
ValidHeader(buffer) ==
  \A i \in 1 .. kHeaderLength :
    buffer[i].part = "header" /\ buffer[i].at = i /\ buffer[i].of = buffer[1].of

DeserializeHeader(buffer) ==
  LET kind == sent[buffer[1].of] IN [dataSize |-> SerializedSize(kind), numFiles |-> kind.files]

HeaderComplete(r) == Len(r.header) = kHeaderLength

\* The buffer that tryReceiveHeader(), tryReceiveData() or tryReceiveFiles()
\* passes to recvmsg(): the rest of the header, the rest of the data, one byte.
BufferSize(r) ==
  IF ~HeaderComplete(r) THEN kHeaderLength - Len(r.header)
  ELSE LET left == DeserializeHeader(r.header).dataSize - Len(r.data)
       IN IF left > 0 THEN left ELSE 1

\* The files that a recvmsg() of n bytes returns.
WithFiles(n) == {i \in 1 .. n : wire[i].files # <<>>}

RecvMsg(n) ==
  /\ n \in 1 .. Min({BufferSize(recv), Len(wire)})
  /\ Cardinality(WithFiles(n)) <= 1

ReceivedFiles(n) == IF WithFiles(n) = {} THEN <<>> ELSE wire[Max(WithFiles(n))].files

\* recv after a recvmsg() of n bytes.
Take(n) ==
  LET r == [recv EXCEPT !.files = @ \o ReceivedFiles(n)]
      bytes == SubSeq(wire, 1, n)
  IN IF ~HeaderComplete(recv) THEN [r EXCEPT !.header = @ \o bytes]
     ELSE IF Len(recv.data) < DeserializeHeader(recv.header).dataSize
     THEN [r EXCEPT !.data = @ \o bytes]
     ELSE r

\* The header is checked when it is complete.
BadHeader(r) ==
  \/ ~ValidHeader(r.header)
  \/ DeserializeHeader(r.header).dataSize > maxDataLength
  \/ DeserializeHeader(r.header).numFiles > maxFiles

\* The number of files is checked by tryReceiveFiles() only.
TooManyFiles(r) ==
  /\ HeaderComplete(recv) /\ Len(r.data) = Len(recv.data)
  /\ Len(r.files) > DeserializeHeader(r.header).numFiles

\* What tryReceiveOne() makes of the bytes it got.
Outcome(r) ==
  IF ~HeaderComplete(r) THEN "more"
  ELSE IF BadHeader(r) \/ TooManyFiles(r) THEN "error"
  ELSE IF Len(r.data) < DeserializeHeader(r.header).dataSize
          \/ Len(r.files) < DeserializeHeader(r.header).numFiles
  THEN "more"
  ELSE "message"

\* The message as the receiver sees it, and as it was sent.
Message(r) == [data |-> r.data, files |-> r.files]
SentMessage(n) ==
  [data  |-> SubSeq(Iov(n, sent[n]), kHeaderLength + 1, kHeaderLength + sent[n].data),
   files |-> Files(n, 0, sent[n].files)]

\* The message is moved out before messageReceived() is called.
AfterMessage(r) == recv' = NothingReceived

\* tryReceiveOne() up to its next recvmsg(); `split` records that its XDCHECKs
\* found files although the header is incomplete.
ReceivePart(n) ==
  /\ RecvMsg(n)
  /\ wire' = SubSeq(wire, n + 1, Len(wire))
  /\ split' = (split \/ (~HeaderComplete(recv) /\ recv.files # <<>>))

\* The next recvmsg() returns 0.
AtEof == peerClosed /\ wire = <<>>
=============================================================================
