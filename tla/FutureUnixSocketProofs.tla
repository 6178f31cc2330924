----------------------- MODULE FutureUnixSocketProofs -----------------------
(***************************************************************************)
(* Messages arrive as they were sent, and receives are answered in order:  *)
(* for any messages, any sizes of the header and of the kernel's buffers,  *)
(* and any number of receives and connections.                             *)
(*                                                                         *)
(* The argument about the stream gives every byte a place (Key) and every  *)
(* place a successor (Succ): the bytes in the kernel follow each other,    *)
(* the sender's next byte follows the last of them, and the receiver waits *)
(* for the first.  The argument about receives is that the queue holds the *)
(* newest receives of the connection in order, and all older ones have     *)
(* their message.                                                          *)
(***************************************************************************)
EXTENDS FutureUnixSocket, FiniteSetTheorems, NaturalsInduction,
        WellFoundedInduction, TLAPS

-----------------------------------------------------------------------------
(* The inductive invariant: the stream *)

Kind == [data : Nat, files : Nat]
File == Nat \X Nat
Byte == [part : {"header", "data", "pad"}, of : Nat, at : Nat, files : Seq(File)]
Entry == [of : Nat, iov : Seq(Byte), first : BOOLEAN, filesSent : Nat]

Buffers == [header : Seq(Byte), data : Seq(Byte), files : Seq(File)]
Contained == [data : Seq(Byte), files : Seq(File)]

StreamType ==
  /\ sent \in Seq(Kind) /\ Len(sent) <= MaxSends
  /\ sendQueue \in Seq(Entry)
  /\ wire \in Seq(Byte) /\ Len(wire) <= WireCapacity
  /\ recv \in Buffers
  /\ Len(recv.header) <= kHeaderLength
  /\ received \in Seq(Contained)
  /\ peerClosed \in BOOLEAN /\ split \in BOOLEAN

\* The length of a message, the files that its first byte carries, and those that
\* travel with a byte of their own when f were sent before.
Total(kind) == kHeaderLength + kind.data
Initially(kind) == Min({kMaxFDs, kind.files})
Chunk(kind, f) == Min({kMaxFDs, kind.files - f})

\* The places of the stream, and the place after one in message n of this kind.
Place(part, n, i) == [part |-> part, of |-> n, at |-> i]
Key(b) == Place(b.part, b.of, b.at)
PadFrom(kind, n, f) == IF f < kind.files THEN Place("pad", n, f) ELSE Place("header", n + 1, 1)
DataFrom(kind, n, i) ==
  IF i <= kind.data THEN Place("data", n, i) ELSE PadFrom(kind, n, Initially(kind))
Succ(kind, b) ==
  IF b.part = "header"
  THEN IF b.at < kHeaderLength THEN Place("header", b.of, b.at + 1) ELSE DataFrom(kind, b.of, 1)
  ELSE IF b.part = "data" THEN DataFrom(kind, b.of, b.at + 1)
  ELSE PadFrom(kind, b.of, b.at + Chunk(kind, b.at))

\* A byte on its way is one of a message, and carries the files of its place.
ByteOK(kind, b) ==
  /\ b.part = "header" =>
       /\ b.at \in 1 .. kHeaderLength
       /\ b.files = IF b.at = 1 THEN Files(b.of, 0, Initially(kind)) ELSE <<>>
  /\ b.part = "data" => b.at \in 1 .. kind.data /\ b.files = <<>>
  /\ b.part = "pad" =>
       /\ Initially(kind) <= b.at /\ b.at < kind.files
       /\ b.files = Files(b.of, b.at, b.at + Chunk(kind, b.at))

\* The sender: the queue is the end of what was sent, and of its first entry some
\* bytes, and the files that go with them, are gone.
HeadOK(kind, e) ==
  /\ Len(e.iov) <= Total(kind)
  /\ \A i \in 1 .. Len(e.iov) : e.iov[i] = Iov(e.of, kind)[Total(kind) - Len(e.iov) + i]
  /\ e.first <=> Len(e.iov) = Total(kind)
  /\ e.first => e.filesSent = 0
  /\ ~e.first /\ e.iov # <<>> => e.filesSent = Initially(kind)
  /\ e.iov = <<>> => Initially(kind) <= e.filesSent /\ e.filesSent < kind.files

Sender ==
  /\ Len(sendQueue) <= Len(sent)
  /\ \A k \in DOMAIN sendQueue : sendQueue[k].of = Len(sent) - Len(sendQueue) + k
  /\ \A k \in DOMAIN sendQueue : k > 1 =>
       sendQueue[k] = SendQueueEntry(sendQueue[k].of, sent[sendQueue[k].of])
  /\ sendQueue # <<>> => HeadOK(sent[sendQueue[1].of], sendQueue[1])
  /\ peerClosed => sendQueue = <<>>

EntryPlace(e) == IF e.iov # <<>> THEN Key(e.iov[1]) ELSE Place("pad", e.of, e.filesSent)
NextSent ==
  IF sendQueue = <<>> THEN Place("header", Len(sent) + 1, 1) ELSE EntryPlace(sendQueue[1])

\* The kernel's bytes follow each other.
After(s, b) == Succ(s[b.of], Key(b))
SuccInWire(i) == After(sent, wire[i])
Wire ==
  /\ \A i \in DOMAIN wire : wire[i].of \in DOMAIN sent /\ ByteOK(sent[wire[i].of], wire[i])
  /\ \A i \in 1 .. (Len(wire) - 1) : Key(wire[i + 1]) = SuccInWire(i)
  /\ wire # <<>> /\ ~peerClosed => NextSent = SuccInWire(Len(wire))

\* What is in the header buffer was sent.
Header == \A i \in DOMAIN recv.header : recv.header[i].of \in DOMAIN sent

\* No size up to that of message n is too large for the header.
Fits(s, n) == \A i \in 1 .. n : i \in DOMAIN s => s[i].data < SizeModulus

\* The receiver has the beginning of message n, and the place after it is `next`.
Contents(r, n) ==
  /\ \A i \in DOMAIN r.header : Key(r.header[i]) = Place("header", n, i)
  /\ \A i \in DOMAIN r.data : r.data[i] = [part |-> "data", of |-> n, at |-> i, files |-> <<>>]
  /\ r.files = Files(n, 0, Len(r.files))

Begun(kind, r, n, next) ==
  /\ Contents(r, n) /\ r.header # <<>> /\ Len(r.data) <= kind.data
  /\ Len(r.header) < kHeaderLength =>
       r.data = <<>> /\ next = Place("header", n, Len(r.header) + 1)
  /\ Len(r.header) = kHeaderLength /\ Len(r.data) < kind.data =>
       next = Place("data", n, Len(r.data) + 1)
  /\ Len(r.header) < kHeaderLength \/ Len(r.data) < kind.data =>
       Len(r.files) = Initially(kind)
  /\ Len(r.header) = kHeaderLength /\ Len(r.data) = kind.data =>
       /\ Initially(kind) <= Len(r.files) /\ Len(r.files) <= kind.files
       /\ next = PadFrom(kind, n, Len(r.files))

\* It waits for the first byte in the kernel or, if there is none, the next to be sent.
Waits(s, r, n, next) ==
  \/ r = NothingReceived /\ next = Place("header", n, 1)
  \/ n \in DOMAIN s /\ Begun(s[n], r, n, next) /\ next # Place("header", n + 1, 1)

Current == Len(received) + 1
Following == IF wire # <<>> THEN Key(wire[1]) ELSE NextSent
Receiver == socket /\ Fits(sent, Current) /\ ~AtEof => Waits(sent, recv, Current, Following)

Delivered ==
  \A n \in DOMAIN received : Fits(sent, n) => n \in DOMAIN sent /\ received[n] = SentMessage(n)

StreamInv == StreamType /\ Sender /\ Wire /\ Header /\ Receiver /\ Delivered

-----------------------------------------------------------------------------
(* The inductive invariant: the receives *)

Failures == {"closedSocket", "closedLocally", "error", "timeout"}
AnswerSet ==
  [id : 1 .. MaxReceives, result : Failures \union {"message"}, connection : 1 .. MaxConnections]

FutureType ==
  /\ socket \in BOOLEAN /\ connections \in 1 .. MaxConnections
  /\ receives \in Seq(0 .. MaxConnections) /\ Len(receives) <= MaxReceives
  /\ recvQueue \in Seq(1 .. MaxReceives)
  /\ failing \in Seq(AnswerSet) /\ answers \in Seq(AnswerSet)

\* A receive is in one place.
OnePlace ==
  /\ \A i \in DOMAIN recvQueue : recvQueue[i] \in DOMAIN receives
  /\ \A i, k \in DOMAIN recvQueue : i < k => recvQueue[i] < recvQueue[k]
  /\ \A j \in DOMAIN failing : failing[j].id \in DOMAIN receives
  /\ \A j, h \in DOMAIN failing : failing[j].id = failing[h].id => j = h
  /\ \A j \in DOMAIN answers : answers[j].id \in DOMAIN receives
  /\ \A j, h \in DOMAIN answers : answers[j].id = answers[h].id => j = h
  /\ \A i \in DOMAIN recvQueue, j \in DOMAIN failing : recvQueue[i] # failing[j].id
  /\ \A i \in DOMAIN recvQueue, j \in DOMAIN answers : recvQueue[i] # answers[j].id
  /\ \A j \in DOMAIN failing, h \in DOMAIN answers : failing[j].id # answers[h].id
  /\ Len(recvQueue) + Len(failing) + Len(answers) = Len(receives)

\* The past of an answer, and that a promise fails without a message.
Past ==
  /\ \A i \in DOMAIN receives : receives[i] <= connections
  /\ \A j \in DOMAIN answers : answers[j].connection <= connections
  /\ \A j \in DOMAIN failing :
       failing[j].result # "message" /\ failing[j].connection <= connections

\* The queue holds the receives of the connection that have no message yet.
Queue ==
  /\ \A i \in DOMAIN recvQueue : receives[recvQueue[i]] = connections
  /\ socket => \A id \in DOMAIN receives : receives[id] = connections =>
       \/ \E i \in DOMAIN recvQueue : recvQueue[i] = id
       \/ \E h \in DOMAIN answers : answers[h].id = id /\ MessageOf(connections, h)
  /\ socket \/ recvQueue = <<>>

\* The first two conjuncts of AnsweredInOrder.
InOrder(j) ==
  LET c == answers[j].connection IN
  /\ receives[answers[j].id] = c
  /\ \A id \in 1 .. (answers[j].id - 1) : receives[id] = c =>
       \E h \in 1 .. (j - 1) : answers[h].id = id /\ MessageOf(c, h)

Ordered == \A j \in DOMAIN answers : answers[j].result = "message" => InOrder(j)

Given == {j \in DOMAIN answers : MessageOf(connections, j)}
AsManyAsArrived == Cardinality(Given) = Len(received)

FutureInv ==
  FutureType /\ OnePlace /\ Past /\ Queue /\ Ordered /\ AsManyAsArrived

IInv == StreamInv /\ FutureInv

-----------------------------------------------------------------------------
(* The receives: one step at a time *)

LEMMA TailFacts ==
  ASSUME NEW S, NEW s \in Seq(S), s # <<>>
  PROVE  /\ Len(s) \in Nat \ {0} /\ DOMAIN s = 1 .. Len(s) /\ 1 \in DOMAIN s
         /\ Head(s) = s[1] /\ s[1] \in S
         /\ Tail(s) \in Seq(S) /\ Len(Tail(s)) = Len(s) - 1
         /\ DOMAIN Tail(s) = 1 .. (Len(s) - 1)
         /\ \A i \in 1 .. (Len(s) - 1) : Tail(s)[i] = s[i + 1] /\ i + 1 \in DOMAIN s
<1>1. Len(s) \in Nat \ {0} /\ DOMAIN s = 1 .. Len(s)
  OBVIOUS
<1>2. 1 \in DOMAIN s /\ Head(s) = s[1] /\ s[1] \in S
  BY <1>1
<1>3. Tail(s) \in Seq(S) /\ Len(Tail(s)) = Len(s) - 1
  OBVIOUS
<1>4. DOMAIN Tail(s) = 1 .. (Len(s) - 1)
  BY <1>3
<1>5. \A i \in 1 .. (Len(s) - 1) : Tail(s)[i] = s[i + 1]
  OBVIOUS
<1> QED
  BY <1>1, <1>2, <1>3, <1>4, <1>5

LEMMA ConcatFacts ==
  ASSUME NEW S, NEW s \in Seq(S), NEW t \in Seq(S)
  PROVE  /\ s \o t \in Seq(S) /\ Len(s \o t) = Len(s) + Len(t)
         /\ DOMAIN (s \o t) = 1 .. (Len(s) + Len(t))
         /\ \A i \in 1 .. Len(s) : (s \o t)[i] = s[i]
         /\ \A i \in (Len(s) + 1) .. (Len(s) + Len(t)) : (s \o t)[i] = t[i - Len(s)]
<1>1. s \o t \in Seq(S) /\ Len(s \o t) = Len(s) + Len(t)
  OBVIOUS
<1>2. DOMAIN (s \o t) = 1 .. (Len(s) + Len(t))
  BY <1>1
<1>3. \A i \in 1 .. Len(s) : (s \o t)[i] = s[i]
  OBVIOUS
<1>4. \A i \in (Len(s) + 1) .. (Len(s) + Len(t)) : (s \o t)[i] = t[i - Len(s)]
  OBVIOUS
<1> QED
  BY <1>1, <1>2, <1>3, <1>4

LEMMA ElementOf ==
  ASSUME NEW S, NEW s \in Seq(S)
  PROVE  \A i \in DOMAIN s : s[i] \in S
OBVIOUS

LEMMA Elements ==
  ASSUME FutureType
  PROVE  /\ connections \in 1 .. MaxConnections
         /\ \A i \in DOMAIN recvQueue : recvQueue[i] \in 1 .. MaxReceives
         /\ \A i \in DOMAIN receives : receives[i] \in 0 .. MaxConnections
         /\ \A j \in DOMAIN answers : answers[j] \in AnswerSet
<1>1. /\ recvQueue \in Seq(1 .. MaxReceives) /\ receives \in Seq(0 .. MaxConnections)
      /\ answers \in Seq(AnswerSet) /\ connections \in 1 .. MaxConnections
  BY DEF FutureType
<1>2. \A i \in DOMAIN recvQueue : recvQueue[i] \in 1 .. MaxReceives
  BY <1>1, ElementOf
<1>3. \A i \in DOMAIN receives : receives[i] \in 0 .. MaxConnections
  BY <1>1, ElementOf
<1>4. \A j \in DOMAIN answers : answers[j] \in AnswerSet
  BY <1>1, ElementOf
<1> QED
  BY <1>1, <1>2, <1>3, <1>4

Same == UNCHANGED <<futureVars, received>>

LEMMA FutureSame ==
  ASSUME FutureInv, Same
  PROVE  FutureInv'
<1>1. /\ socket' = socket /\ recvQueue' = recvQueue /\ failing' = failing
      /\ answers' = answers /\ receives' = receives /\ connections' = connections
      /\ received' = received
  BY DEF Same, futureVars
<1>2. FutureType' /\ OnePlace' /\ Past'
  BY <1>1 DEF FutureInv, FutureType, OnePlace, Past
<1>3. Queue' /\ Ordered'
  BY <1>1 DEF FutureInv, Queue, Ordered, InOrder, MessageOf
<1>4. AsManyAsArrived'
  BY <1>1 DEF FutureInv, AsManyAsArrived, Given, MessageOf
<1> QED
  BY <1>2, <1>3, <1>4 DEF FutureInv

\* A failed or refused receive adds an answer that is no message.
LEMMA GivenNoMore ==
  ASSUME FutureType, NEW a \in AnswerSet, a.result # "message",
         answers' = Append(answers, a), connections' = connections
  PROVE  Given' = Given
<1>1. DOMAIN answers' = DOMAIN answers \union {Len(answers) + 1}
  BY DEF FutureType
<1>2. \A j \in DOMAIN answers : answers'[j] = answers[j]
  BY DEF FutureType
<1>3. answers'[Len(answers) + 1] = a
  BY DEF FutureType
<1> QED
  BY <1>1, <1>2, <1>3 DEF Given, MessageOf

\* Older answers keep their order when another is added.
LEMMA OrderKept ==
  ASSUME FutureType, OnePlace, Ordered, NEW a \in AnswerSet,
         answers' = Append(answers, a),
         \A id \in DOMAIN receives : receives'[id] = receives[id]
  PROVE  \A j \in DOMAIN answers : answers'[j].result = "message" => InOrder(j)'
<1> SUFFICES ASSUME NEW j \in DOMAIN answers, answers'[j].result = "message"
             PROVE  InOrder(j)'
  OBVIOUS
<1>1. \A h \in DOMAIN answers : answers'[h] = answers[h]
  BY DEF FutureType
<1>2. InOrder(j) /\ answers[j].id \in DOMAIN receives /\ j \in 1 .. Len(answers)
  BY <1>1 DEF Ordered, OnePlace, FutureType
<1>3. answers[j].id \in 1 .. Len(receives) /\ DOMAIN receives = 1 .. Len(receives)
  BY <1>2 DEF FutureType
<1>4. \A id \in 1 .. (answers[j].id - 1) : id \in DOMAIN receives
  BY <1>3 DEF FutureType
<1>5. \A h \in 1 .. (j - 1) : h \in DOMAIN answers
  BY <1>2 DEF FutureType
<1> QED
  BY <1>1, <1>2, <1>4, <1>5 DEF InOrder, MessageOf

LEMMA FutureReceive ==
  ASSUME FutureInv, Receive
  PROVE  FutureInv'
<1>1. /\ socket' = socket /\ failing' = failing /\ answers' = answers
      /\ connections' = connections /\ received' = received
      /\ socket /\ Len(receives) < MaxReceives
      /\ receives' = Append(receives, connections)
      /\ recvQueue' = Append(recvQueue, Len(receives) + 1)
  BY DEF Receive, streamVars
<1>2. FutureType /\ OnePlace /\ Past /\ Queue /\ Ordered /\ AsManyAsArrived
  BY DEF FutureInv
<1>3. Len(receives) + 1 \in 1 .. MaxReceives /\ connections \in 0 .. MaxConnections
  BY <1>1, <1>2, BoundAssumption DEF FutureType
<1>4. FutureType'
  BY <1>1, <1>2, <1>3 DEF FutureType
<1>5. /\ DOMAIN receives = 1 .. Len(receives) /\ DOMAIN receives' = 1 .. (Len(receives) + 1)
      /\ \A id \in DOMAIN receives : receives'[id] = receives[id]
      /\ receives'[Len(receives) + 1] = connections
  BY <1>1, <1>2, <1>3 DEF FutureType
<1>6. /\ DOMAIN recvQueue = 1 .. Len(recvQueue)
      /\ DOMAIN recvQueue' = 1 .. (Len(recvQueue) + 1)
      /\ \A i \in DOMAIN recvQueue : recvQueue'[i] = recvQueue[i]
      /\ recvQueue'[Len(recvQueue) + 1] = Len(receives) + 1
      /\ Len(recvQueue') = Len(recvQueue) + 1
      /\ Len(recvQueue) \in Nat /\ Len(receives) \in Nat
  BY <1>1, <1>2, <1>3 DEF FutureType
<1>7. OnePlace'
  <2>1. /\ \A i \in DOMAIN recvQueue' : recvQueue'[i] \in DOMAIN receives'
        /\ \A i, k \in DOMAIN recvQueue' : i < k => recvQueue'[i] < recvQueue'[k]
    BY <1>2, <1>5, <1>6, SMTT(30) DEF OnePlace
  <2>2. /\ \A j \in DOMAIN failing : failing[j].id \in DOMAIN receives'
        /\ \A j \in DOMAIN answers : answers[j].id \in DOMAIN receives'
    BY <1>2, <1>5, <1>6 DEF OnePlace
  <2>3. /\ \A i \in DOMAIN recvQueue', j \in DOMAIN failing : recvQueue'[i] # failing[j].id
        /\ \A i \in DOMAIN recvQueue', j \in DOMAIN answers : recvQueue'[i] # answers[j].id
    BY <1>2, <1>5, <1>6 DEF OnePlace
  <2>4. Len(recvQueue') + Len(failing) + Len(answers) = Len(receives')
    BY <1>1, <1>2, <1>3, <1>6 DEF OnePlace, FutureType
  <2> QED
    BY <1>1, <1>2, <2>1, <2>2, <2>3, <2>4 DEF OnePlace
<1>8. Past'
  BY <1>1, <1>2, <1>5, <1>6 DEF Past, FutureType
<1>9. Queue'
  <2>1. \A i \in DOMAIN recvQueue' : receives'[recvQueue'[i]] = connections
    BY <1>2, <1>5, <1>6 DEF Queue, OnePlace
  <2>2. ASSUME NEW id \in DOMAIN receives', receives'[id] = connections
        PROVE  \/ \E i \in DOMAIN recvQueue' : recvQueue'[i] = id
               \/ \E h \in DOMAIN answers : answers[h].id = id /\ MessageOf(connections, h)
    <3>1. CASE id = Len(receives) + 1
      BY <3>1, <1>6
    <3>2. CASE id \in DOMAIN receives
      <4>1. receives[id] = connections
        BY <2>2, <3>2, <1>5
      <4>2. \/ \E i \in DOMAIN recvQueue : recvQueue[i] = id
            \/ \E h \in DOMAIN answers : answers[h].id = id /\ MessageOf(connections, h)
        BY <4>1, <3>2, <1>1, <1>2 DEF Queue
      <4> QED
        BY <4>2, <1>6
    <3> QED
      BY <3>1, <3>2, <2>2, <1>5, <1>6
  <2> QED
    BY <1>1, <2>1, <2>2 DEF Queue, MessageOf
<1>10. Ordered'
  <2> SUFFICES ASSUME NEW j \in DOMAIN answers, answers[j].result = "message"
               PROVE  InOrder(j)'
    BY <1>1 DEF Ordered
  <2>1. InOrder(j) /\ answers[j].id \in 1 .. Len(receives)
    BY <1>2, <1>5 DEF Ordered, OnePlace
  <2>2. \A id \in 1 .. (answers[j].id - 1) : id \in DOMAIN receives
    BY <2>1, <1>5, <1>6
  <2> QED
    BY <1>1, <1>5, <2>1, <2>2 DEF InOrder, MessageOf
<1>11. AsManyAsArrived'
  BY <1>1, <1>2 DEF AsManyAsArrived, Given, MessageOf
<1> QED
  BY <1>4, <1>7, <1>8, <1>9, <1>10, <1>11 DEF FutureInv

LEMMA FutureReceiveOnClosed ==
  ASSUME FutureInv, ReceiveOnClosed
  PROVE  FutureInv'
<1>1. /\ socket' = socket /\ failing' = failing /\ recvQueue' = recvQueue
      /\ connections' = connections /\ received' = received
      /\ ~socket /\ Len(receives) < MaxReceives
      /\ receives' = Append(receives, 0)
  BY DEF ReceiveOnClosed, streamVars
<1>2. FutureType /\ OnePlace /\ Past /\ Queue /\ Ordered /\ AsManyAsArrived
  BY DEF FutureInv
<1>3. Len(receives) + 1 \in 1 .. MaxReceives /\ 0 \in 0 .. MaxConnections
  BY <1>1, <1>2, BoundAssumption DEF FutureType
<1>4. PICK a \in AnswerSet :
        /\ a.id = Len(receives) + 1 /\ a.result = "closedSocket"
        /\ a.connection = connections /\ answers' = Append(answers, a)
  <2>1. [id |-> Len(receives) + 1, result |-> "closedSocket", connection |-> connections]
          \in AnswerSet
    BY <1>2, <1>3 DEF AnswerSet, Failures, FutureType
  <2>2. answers' = Append(answers,
          [id |-> Len(receives) + 1, result |-> "closedSocket", connection |-> connections])
    BY DEF ReceiveOnClosed, Answer
  <2> QED
    BY <2>1, <2>2
<1>5. FutureType'
  BY <1>1, <1>2, <1>3, <1>4 DEF FutureType
<1>6. /\ DOMAIN receives = 1 .. Len(receives) /\ DOMAIN receives' = 1 .. (Len(receives) + 1)
      /\ \A id \in DOMAIN receives : receives'[id] = receives[id]
      /\ receives'[Len(receives) + 1] = 0 /\ Len(receives) \in Nat
      /\ Len(receives') = Len(receives) + 1
  BY <1>1, <1>2, <1>3 DEF FutureType
<1>7. /\ DOMAIN answers = 1 .. Len(answers) /\ DOMAIN answers' = 1 .. (Len(answers) + 1)
      /\ \A j \in DOMAIN answers : answers'[j] = answers[j]
      /\ answers'[Len(answers) + 1] = a /\ Len(answers) \in Nat
      /\ Len(answers') = Len(answers) + 1
  BY <1>1, <1>2, <1>4 DEF FutureType
<1>8. OnePlace'
  <2>1. recvQueue = <<>>
    BY <1>1, <1>2 DEF Queue
  <2>2. /\ \A j \in DOMAIN failing : failing[j].id \in DOMAIN receives'
        /\ \A j \in DOMAIN answers' : answers'[j].id \in DOMAIN receives'
    BY <1>2, <1>4, <1>6, <1>7 DEF OnePlace
  <2>3. \A j, h \in DOMAIN answers' : answers'[j].id = answers'[h].id => j = h
    BY <1>2, <1>4, <1>6, <1>7 DEF OnePlace
  <2>4. \A j \in DOMAIN failing, h \in DOMAIN answers' : failing[j].id # answers'[h].id
    BY <1>2, <1>4, <1>6, <1>7 DEF OnePlace
  <2>5. Len(recvQueue) + Len(failing) + Len(answers') = Len(receives')
    <3>1. /\ Len(recvQueue) + Len(failing) + Len(answers) = Len(receives)
          /\ Len(recvQueue) \in Nat /\ Len(failing) \in Nat
      BY <1>2 DEF OnePlace, FutureType
    <3> QED
      BY <3>1, <1>6, <1>7
  <2> QED
    BY <1>1, <1>2, <2>1, <2>2, <2>3, <2>4, <2>5 DEF OnePlace
<1>9. Past'
  BY <1>1, <1>2, <1>4, <1>6, <1>7 DEF Past, FutureType
<1>10. Queue'
  BY <1>1, <1>2 DEF Queue
<1>11. Ordered'
  BY <1>2, <1>4, <1>1, <1>6, <1>7, OrderKept DEF Ordered
<1>12. AsManyAsArrived'
  BY <1>1, <1>2, <1>4, GivenNoMore DEF AsManyAsArrived
<1> QED
  BY <1>5, <1>8, <1>9, <1>10, <1>11, <1>12 DEF FutureInv

LEMMA FutureFailOne ==
  ASSUME FutureInv, FailOne
  PROVE  FutureInv'
<1>1. /\ socket' = socket /\ receives' = receives /\ recvQueue' = recvQueue
      /\ connections' = connections /\ received' = received
      /\ failing # <<>> /\ failing' = Tail(failing)
      /\ answers' = Append(answers, Head(failing))
  BY DEF FailOne, streamVars
<1>2. FutureType /\ OnePlace /\ Past /\ Queue /\ Ordered /\ AsManyAsArrived
  BY DEF FutureInv
<1> DEFINE a == failing[1]
<1>3. /\ a \in AnswerSet /\ 1 \in DOMAIN failing /\ Head(failing) = a
      /\ DOMAIN failing = 1 .. Len(failing) /\ Len(failing) \in Nat
      /\ DOMAIN failing' = 1 .. (Len(failing) - 1) /\ Len(failing') = Len(failing) - 1
      /\ \A j \in DOMAIN failing' : failing'[j] = failing[j + 1] /\ j + 1 \in DOMAIN failing
  BY <1>1, <1>2 DEF FutureType
<1>4. /\ a.id \in DOMAIN receives /\ a.result # "message"
      /\ \A i \in DOMAIN recvQueue : recvQueue[i] # a.id
      /\ \A h \in DOMAIN answers : a.id # answers[h].id
      /\ \A j \in DOMAIN failing : a.id = failing[j].id => j = 1
  BY <1>2, <1>3 DEF OnePlace, Past
<1> HIDE DEF a
<1>5. FutureType'
  BY <1>1, <1>2, <1>3 DEF FutureType
<1>6. /\ DOMAIN answers = 1 .. Len(answers) /\ DOMAIN answers' = 1 .. (Len(answers) + 1)
      /\ \A j \in DOMAIN answers : answers'[j] = answers[j]
      /\ answers'[Len(answers) + 1] = a /\ Len(answers) \in Nat
      /\ Len(answers') = Len(answers) + 1
  BY <1>1, <1>2, <1>3 DEF FutureType
<1>7. OnePlace'
  <2>1. /\ \A j \in DOMAIN failing' : failing'[j].id \in DOMAIN receives
        /\ \A j, h \in DOMAIN failing' : failing'[j].id = failing'[h].id => j = h
    BY <1>2, <1>3 DEF OnePlace
  <2>2. /\ \A j \in DOMAIN answers' : answers'[j].id \in DOMAIN receives
        /\ \A j, h \in DOMAIN answers' : answers'[j].id = answers'[h].id => j = h
    BY <1>2, <1>4, <1>6 DEF OnePlace
  <2>3. /\ \A i \in DOMAIN recvQueue, j \in DOMAIN failing' : recvQueue[i] # failing'[j].id
        /\ \A i \in DOMAIN recvQueue, j \in DOMAIN answers' : recvQueue[i] # answers'[j].id
    <3>1. /\ \A i \in DOMAIN recvQueue, j \in DOMAIN failing : recvQueue[i] # failing[j].id
          /\ \A i \in DOMAIN recvQueue, j \in DOMAIN answers : recvQueue[i] # answers[j].id
      BY <1>2 DEF OnePlace
    <3>2. \A i \in DOMAIN recvQueue, j \in DOMAIN failing' : recvQueue[i] # failing'[j].id
      BY ONLY <3>1, <1>3, SMTT(30)
    <3>3. ASSUME NEW i \in DOMAIN recvQueue, NEW j \in DOMAIN answers'
          PROVE  recvQueue[i] # answers'[j].id
      <4>1. j = Len(answers) + 1 \/ j \in DOMAIN answers
        BY ONLY <3>3, <1>6
      <4> QED
        BY ONLY <3>1, <3>3, <4>1, <1>4, <1>6
    <3> QED
      BY <3>2, <3>3
  <2>4. \A j \in DOMAIN failing', h \in DOMAIN answers' : failing'[j].id # answers'[h].id
    <3> SUFFICES ASSUME NEW j \in DOMAIN failing', NEW h \in DOMAIN answers'
                 PROVE  failing'[j].id # answers'[h].id
      OBVIOUS
    <3>1. failing'[j] = failing[j + 1] /\ j + 1 \in DOMAIN failing /\ j + 1 # 1
      BY <1>3
    <3>2. CASE h = Len(answers) + 1
      BY <3>1, <3>2, <1>4, <1>6
    <3>3. CASE h \in DOMAIN answers
      BY <3>1, <3>3, <1>2, <1>6 DEF OnePlace
    <3> QED
      BY <3>2, <3>3, <1>6
  <2>5. Len(recvQueue) + Len(failing') + Len(answers') = Len(receives)
    <3>1. /\ Len(recvQueue) + Len(failing) + Len(answers) = Len(receives)
          /\ Len(recvQueue) \in Nat
      BY <1>2 DEF OnePlace, FutureType
    <3> QED
      BY <3>1, <1>3, <1>6
  <2> QED
    BY <1>1, <1>2, <2>1, <2>2, <2>3, <2>4, <2>5 DEF OnePlace
<1>8. Past'
  <2>1. \A j \in DOMAIN failing' :
          failing'[j].result # "message" /\ failing'[j].connection <= connections
    BY <1>2, <1>3 DEF Past
  <2>2. a.connection <= connections
    <3> QED
      BY <1>2, <1>3 DEF Past, a
  <2> QED
    BY <1>1, <1>2, <1>6, <2>1, <2>2 DEF Past
<1>9. Queue'
  <2>1. ASSUME socket, NEW id \in DOMAIN receives, receives[id] = connections
        PROVE  \/ \E i \in DOMAIN recvQueue : recvQueue[i] = id
               \/ \E h \in DOMAIN answers' : answers'[h].id = id /\ MessageOf(connections, h)'
    <3>1. \/ \E i \in DOMAIN recvQueue : recvQueue[i] = id
          \/ \E h \in DOMAIN answers : answers[h].id = id /\ MessageOf(connections, h)
      BY <2>1, <1>2 DEF Queue
    <3>2. ASSUME NEW h \in DOMAIN answers, MessageOf(connections, h)
          PROVE  h \in DOMAIN answers' /\ answers'[h] = answers[h] /\ MessageOf(connections, h)'
      BY <3>2, <1>1, <1>6 DEF MessageOf
    <3> QED
      BY <3>1, <3>2
  <2> QED
    BY <1>1, <1>2, <2>1 DEF Queue
<1>10. Ordered'
  BY <1>2, <1>3, <1>4, <1>1, <1>6, OrderKept DEF Ordered
<1>11. AsManyAsArrived'
  BY <1>1, <1>2, <1>3, <1>4, GivenNoMore DEF AsManyAsArrived
<1> QED
  BY <1>5, <1>7, <1>8, <1>9, <1>10, <1>11 DEF FutureInv

\* A message is one more for the connection.
LEMMA GivenOneMore ==
  ASSUME FutureType, NEW a \in AnswerSet, a.result = "message", a.connection = connections,
         answers' = Append(answers, a), connections' = connections
  PROVE  Cardinality(Given') = Cardinality(Given) + 1
<1>1. DOMAIN answers' = DOMAIN answers \union {Len(answers) + 1}
  BY DEF FutureType
<1>2. \A j \in DOMAIN answers : answers'[j] = answers[j]
  BY DEF FutureType
<1>3. answers'[Len(answers) + 1] = a
  BY DEF FutureType
<1>4. Given' = Given \union {Len(answers) + 1}
  BY <1>1, <1>2, <1>3 DEF Given, MessageOf
<1>5. IsFiniteSet(Given)
  <2>1. IsFiniteSet(1 .. Len(answers))
    BY FS_Interval DEF FutureType
  <2>2. Given \in SUBSET (1 .. Len(answers))
    BY DEF Given, FutureType
  <2> QED
    BY <2>1, <2>2, FS_Subset
<1>6. Len(answers) + 1 \notin Given
  BY DEF Given, FutureType
<1> QED
  BY <1>4, <1>5, <1>6, FS_AddElement

\* A message for the oldest receive.
Fulfils ==
  /\ socket /\ failing = <<>> /\ recvQueue # <<>>
  /\ Len(received') = Len(received) + 1
  /\ FulfilFirst
  /\ UNCHANGED <<socket, failing, receives, connections>>

LEMMA FutureFulfils ==
  ASSUME FutureInv, Fulfils
  PROVE  FutureInv'
<1>1. /\ socket' = socket /\ receives' = receives /\ failing' = failing
      /\ connections' = connections /\ Len(received') = Len(received) + 1
      /\ socket /\ failing = <<>> /\ recvQueue # <<>> /\ recvQueue' = Tail(recvQueue)
  BY DEF Fulfils, FulfilFirst
<1>2. FutureType /\ OnePlace /\ Past /\ Queue /\ Ordered /\ AsManyAsArrived
  BY DEF FutureInv
<1>3. /\ 1 \in DOMAIN recvQueue /\ Head(recvQueue) = recvQueue[1]
      /\ recvQueue[1] \in 1 .. MaxReceives /\ DOMAIN recvQueue = 1 .. Len(recvQueue)
      /\ Len(recvQueue) \in Nat /\ Len(recvQueue') = Len(recvQueue) - 1
      /\ DOMAIN recvQueue' = 1 .. (Len(recvQueue) - 1)
      /\ \A i \in DOMAIN recvQueue' : recvQueue'[i] = recvQueue[i + 1] /\ i + 1 \in DOMAIN recvQueue
  <2>1. recvQueue \in Seq(1 .. MaxReceives) /\ recvQueue # <<>> /\ recvQueue' = Tail(recvQueue)
    BY <1>1, <1>2 DEF FutureType
  <2> QED
    BY <2>1, TailFacts
<1>4. PICK a \in AnswerSet :
        /\ a.id = recvQueue[1] /\ a.result = "message"
        /\ a.connection = connections /\ answers' = Append(answers, a)
  <2>1. [id |-> recvQueue[1], result |-> "message", connection |-> connections] \in AnswerSet
    BY <1>2, <1>3 DEF AnswerSet, FutureType
  <2>2. answers' = Append(answers,
          [id |-> recvQueue[1], result |-> "message", connection |-> connections])
    BY <1>3 DEF Fulfils, FulfilFirst, Answer
  <2> QED
    BY <2>1, <2>2
<1>0. PICK last \in Nat : last = Len(answers) + 1
  BY <1>2 DEF FutureType
<1>5. FutureType'
  <2>1. Tail(recvQueue) \in Seq(1 .. MaxReceives) /\ Append(answers, a) \in Seq(AnswerSet)
    BY <1>1, <1>2, <1>4 DEF FutureType
  <2> QED
    BY <1>1, <1>2, <1>4, <2>1 DEF FutureType
<1>6. /\ DOMAIN answers = 1 .. Len(answers) /\ DOMAIN answers' = 1 .. (Len(answers) + 1)
      /\ \A j \in DOMAIN answers : answers'[j] = answers[j]
      /\ answers'[Len(answers) + 1] = a /\ Len(answers) \in Nat
      /\ Len(answers') = Len(answers) + 1
  BY <1>1, <1>2, <1>4 DEF FutureType
<1>7. /\ a.id \in DOMAIN receives /\ receives[a.id] = connections
      /\ \A h \in DOMAIN answers : a.id # answers[h].id
      /\ \A i \in DOMAIN recvQueue : i # 1 => a.id < recvQueue[i]
      /\ \A i \in DOMAIN recvQueue : recvQueue[i] \in Nat
  BY <1>2, <1>3, <1>4 DEF OnePlace, Queue, FutureType
<1>8. OnePlace'
  <2>1. /\ \A i \in DOMAIN recvQueue' : recvQueue'[i] \in DOMAIN receives
        /\ \A i, k \in DOMAIN recvQueue' : i < k => recvQueue'[i] < recvQueue'[k]
    BY <1>2, <1>3 DEF OnePlace
  <2>2. /\ \A j \in DOMAIN answers' : answers'[j].id \in DOMAIN receives
        /\ \A j, h \in DOMAIN answers' : answers'[j].id = answers'[h].id => j = h
    BY <1>2, <1>7, <1>6, SMTT(30) DEF OnePlace
  <2>3. \A i \in DOMAIN recvQueue', j \in DOMAIN answers' : recvQueue'[i] # answers'[j].id
    <3> SUFFICES ASSUME NEW i \in DOMAIN recvQueue', NEW j \in DOMAIN answers'
                 PROVE  recvQueue'[i] # answers'[j].id
      OBVIOUS
    <3>1. recvQueue'[i] = recvQueue[i + 1] /\ i + 1 \in DOMAIN recvQueue /\ i + 1 # 1
      BY <1>3
    <3>2. CASE j = Len(answers) + 1
      <4>1. a.id < recvQueue[i + 1] /\ recvQueue[i + 1] \in Nat /\ a.id \in Nat
        BY <3>1, <1>7, <1>3, <1>4
      <4> QED
        BY <4>1, <3>1, <3>2, <1>6
    <3>3. CASE j \in DOMAIN answers
      BY <3>1, <3>3, <1>2, <1>6 DEF OnePlace
    <3> QED
      BY <3>2, <3>3, <1>6
  <2>4. Len(recvQueue') + Len(failing) + Len(answers') = Len(receives)
    <3>1. /\ Len(recvQueue) + Len(failing) + Len(answers) = Len(receives)
          /\ Len(failing) \in Nat
      BY <1>2 DEF OnePlace, FutureType
    <3> QED
      BY <3>1, <1>3, <1>6
  <2>5. DOMAIN failing = {}
    BY <1>1
  <2> QED
    BY <1>1, <1>2, <2>1, <2>2, <2>3, <2>4, <2>5 DEF OnePlace
<1>9. Past'
  BY <1>1, <1>2, <1>4, <1>6 DEF Past, FutureType
<1>10. ASSUME NEW id \in DOMAIN receives, receives[id] = connections
       PROVE  \/ \E i \in DOMAIN recvQueue' : recvQueue'[i] = id
              \/ id = a.id
              \/ \E h \in DOMAIN answers : answers[h].id = id /\ MessageOf(connections, h)
  <2>1. \/ \E i \in DOMAIN recvQueue : recvQueue[i] = id
        \/ \E h \in DOMAIN answers : answers[h].id = id /\ MessageOf(connections, h)
    BY <1>10, <1>1, <1>2 DEF Queue
  <2>2. ASSUME NEW i \in DOMAIN recvQueue, recvQueue[i] = id, i # 1
        PROVE  i - 1 \in DOMAIN recvQueue' /\ recvQueue'[i - 1] = id
    BY <2>2, <1>3
  <2> QED
    BY <2>1, <2>2, <1>4
<1>11. Queue'
  <2>1. \A i \in DOMAIN recvQueue' : receives[recvQueue'[i]] = connections
    BY <1>2, <1>3 DEF Queue
  <2>2. ASSUME NEW id \in DOMAIN receives, receives[id] = connections
        PROVE  \/ \E i \in DOMAIN recvQueue' : recvQueue'[i] = id
               \/ \E h \in DOMAIN answers' : answers'[h].id = id /\ MessageOf(connections, h)'
    <3>1. CASE id = a.id
      <4>1. last \in DOMAIN answers' /\ MessageOf(connections, last)'
        BY <1>0, <1>1, <1>4, <1>6 DEF MessageOf
      <4> QED
        BY <4>1, <3>1, <1>0, <1>6
    <3>2. ASSUME NEW h \in DOMAIN answers, MessageOf(connections, h)
          PROVE  h \in DOMAIN answers' /\ answers'[h] = answers[h] /\ MessageOf(connections, h)'
      BY <3>2, <1>1, <1>6 DEF MessageOf
    <3> QED
      BY <3>1, <3>2, <2>2, <1>10
  <2> QED
    BY <1>1, <2>1, <2>2 DEF Queue
<1>12. Ordered'
  <2>1. \A j \in DOMAIN answers : answers'[j].result = "message" => InOrder(j)'
    BY <1>2, <1>4, <1>1, OrderKept
  <2>2. InOrder(last)'
    <3>1. receives'[a.id] = connections
      BY <1>1, <1>7
    <3>2. ASSUME NEW id \in 1 .. (a.id - 1), receives[id] = connections
          PROVE  \E h \in DOMAIN answers : answers'[h].id = id /\ MessageOf(connections, h)'
      <4>1. id \in DOMAIN receives /\ id < a.id /\ a.id \in Nat /\ id \in Nat
        BY <1>7, <1>2 DEF FutureType
      <4>2. \A i \in DOMAIN recvQueue' : recvQueue'[i] # id
        BY <4>1, <1>3, <1>7
      <4>3. \E h \in DOMAIN answers : answers[h].id = id /\ MessageOf(connections, h)
        BY <4>1, <4>2, <3>2, <1>10
      <4> QED
        BY <4>3, <1>1, <1>6 DEF MessageOf
    <3> QED
      <4>1. answers'[last] = a /\ \A h \in DOMAIN answers : h \in 1 .. (last - 1)
        BY <1>0, <1>6
      <4>2. answers'[last].connection = connections /\ answers'[last].id = a.id
        BY <4>1, <1>4
      <4>3. connections' = connections /\ receives' = receives
        BY <1>1
      <4> QED
        BY <3>1, <3>2, <4>1, <4>2, <4>3 DEF InOrder, MessageOf
  <2> QED
    BY <2>1, <2>2, <1>0, <1>6 DEF Ordered
<1>13. AsManyAsArrived'
  BY <1>1, <1>2, <1>4, GivenOneMore DEF AsManyAsArrived
<1> QED
  BY <1>5, <1>8, <1>9, <1>11, <1>12, <1>13 DEF FutureInv

\* The queue when all its promises are to fail.
LEMMA FailAllFacts ==
  ASSUME FutureType, NEW reason \in Failures, FailAllPromises(reason)
  PROVE  /\ recvQueue' = <<>> /\ failing' \in Seq(AnswerSet)
         /\ Len(failing') = Len(recvQueue) + Len(failing)
         /\ \A j \in DOMAIN failing' :
              \/ /\ j \in DOMAIN recvQueue
                 /\ failing'[j].id = recvQueue[j] /\ failing'[j].result = reason
                 /\ failing'[j].connection = connections
              \/ /\ j - Len(recvQueue) \in DOMAIN failing /\ j \notin DOMAIN recvQueue
                 /\ failing'[j] = failing[j - Len(recvQueue)]
<1> DEFINE q == [i \in DOMAIN recvQueue |->
                   [id |-> recvQueue[i], result |-> reason, connection |-> connections]]
<1>1. recvQueue' = <<>> /\ failing' = q \o failing
  BY DEF FailAllPromises, Answer
<1>2. \A i \in DOMAIN recvQueue :
        [id |-> recvQueue[i], result |-> reason, connection |-> connections] \in AnswerSet
  <2>1. /\ connections \in 1 .. MaxConnections
        /\ \A i \in DOMAIN recvQueue : recvQueue[i] \in 1 .. MaxReceives
    BY Elements
  <2> QED
    BY <2>1 DEF AnswerSet
<1>3. /\ q \in Seq(AnswerSet) /\ Len(q) = Len(recvQueue) /\ DOMAIN q = 1 .. Len(recvQueue)
      /\ DOMAIN recvQueue = 1 .. Len(recvQueue) /\ Len(recvQueue) \in Nat
  BY <1>2 DEF FutureType
<1>4. \A i \in DOMAIN recvQueue :
        q[i].id = recvQueue[i] /\ q[i].result = reason /\ q[i].connection = connections
  OBVIOUS
<1> HIDE DEF q
<1>5. failing \in Seq(AnswerSet)
  BY DEF FutureType
<1>6. failing' \in Seq(AnswerSet) /\ Len(failing') = Len(recvQueue) + Len(failing)
  <2>1. Len(q) = Len(recvQueue) /\ q \in Seq(AnswerSet)
    BY <1>3
  <2> QED
    <3>1. q \in Seq(AnswerSet) /\ failing \in Seq(AnswerSet)
      BY <2>1, <1>5
    <3>2. q \o failing \in Seq(AnswerSet) /\ Len(q \o failing) = Len(q) + Len(failing)
      BY ONLY <3>1, ConcatFacts
    <3> QED
      BY ONLY <3>2, <1>1, <2>1
<1>7. ASSUME NEW j \in DOMAIN failing', j \in DOMAIN recvQueue
      PROVE  failing'[j] = q[j]
  BY <1>7, <1>1, <1>3, <1>5
<1>8. ASSUME NEW j \in DOMAIN failing', j \notin DOMAIN recvQueue
      PROVE  /\ j - Len(recvQueue) \in DOMAIN failing
             /\ failing'[j] = failing[j - Len(recvQueue)]
  <2>1. j \in 1 .. (Len(recvQueue) + Len(failing)) /\ j > Len(recvQueue)
    BY <1>3, <1>5, <1>6, <1>8
  <2> QED
    BY <2>1, <1>1, <1>3, <1>5
<1> QED
  BY <1>1, <1>4, <1>6, <1>7, <1>8

LEMMA FailAllInPlace ==
  ASSUME FutureInv, NEW reason \in Failures, FailAllPromises(reason),
         answers' = answers, receives' = receives
  PROVE  OnePlace' /\ \A j \in DOMAIN failing' : /\ failing'[j].result # "message"
                                                 /\ failing'[j].connection <= connections
<1>1. FutureType /\ OnePlace /\ Past
  BY DEF FutureInv
<1> DEFINE New(j) == /\ j \in DOMAIN recvQueue
                     /\ failing'[j].id = recvQueue[j] /\ failing'[j].result = reason
                     /\ failing'[j].connection = connections
           Old(j) == /\ j - Len(recvQueue) \in DOMAIN failing /\ j \notin DOMAIN recvQueue
                     /\ failing'[j] = failing[j - Len(recvQueue)]
<1>2. /\ recvQueue' = <<>> /\ failing' \in Seq(AnswerSet)
      /\ Len(failing') = Len(recvQueue) + Len(failing)
      /\ \A j \in DOMAIN failing' : New(j) \/ Old(j)
  BY <1>1, FailAllFacts
<1>3. /\ \A j \in DOMAIN failing' : j \in Nat
      /\ Len(recvQueue) \in Nat /\ Len(failing) \in Nat
      /\ \A i \in DOMAIN recvQueue : i \in Nat /\ recvQueue[i] \in Nat
  <2>1. Len(recvQueue) \in Nat /\ DOMAIN recvQueue = 1 .. Len(recvQueue) /\ Len(failing) \in Nat
    BY <1>1 DEF FutureType
  <2>2. \A i \in DOMAIN recvQueue : recvQueue[i] \in 1 .. MaxReceives
    BY <1>1, Elements
  <2>3. DOMAIN failing' = 1 .. Len(failing') /\ Len(failing') \in Nat
    BY <1>2
  <2> QED
    BY <2>1, <2>2, <2>3
<1>4. \A j \in DOMAIN failing' : failing'[j].id \in DOMAIN receives
  BY <1>1, <1>2 DEF OnePlace
<1>5. \A j, h \in DOMAIN failing' : failing'[j].id = failing'[h].id => j = h
  <2> SUFFICES ASSUME NEW j \in DOMAIN failing', NEW h \in DOMAIN failing',
                      failing'[j].id = failing'[h].id
               PROVE  j = h
    OBVIOUS
  <2>1. CASE New(j) /\ New(h)
    <3>1. recvQueue[j] = recvQueue[h] /\ recvQueue[j] \in Nat
      BY <2>1, <1>3
    <3>2. ~(j < h) /\ ~(h < j)
      BY <3>1, <2>1, <1>1 DEF OnePlace
    <3> QED
      BY <3>2, <1>3
  <2>2. CASE New(j) /\ Old(h)
    BY <2>2, <1>1 DEF OnePlace
  <2>3. CASE Old(j) /\ New(h)
    BY <2>3, <1>1 DEF OnePlace
  <2>4. CASE Old(j) /\ Old(h)
    <3>1. j - Len(recvQueue) = h - Len(recvQueue)
      BY <2>4, <1>1 DEF OnePlace
    <3> QED
      BY <3>1, <1>3
  <2> QED
    BY <2>1, <2>2, <2>3, <2>4, <1>2
<1>6. \A j \in DOMAIN failing', h \in DOMAIN answers : failing'[j].id # answers[h].id
  BY <1>1, <1>2 DEF OnePlace
<1>7. Len(recvQueue') + Len(failing') + Len(answers) = Len(receives)
  <2>1. /\ Len(recvQueue) + Len(failing) + Len(answers) = Len(receives)
        /\ Len(answers) \in Nat
    BY <1>1 DEF OnePlace, FutureType
  <2>2. Len(recvQueue') = 0
    BY <1>2
  <2> QED
    BY <2>1, <2>2, <1>2, <1>3
<1>8. OnePlace'
  <2>1. DOMAIN recvQueue' = {}
    BY <1>2
  <2> QED
    BY <2>1, <1>1, <1>4, <1>5, <1>6, <1>7 DEF OnePlace
<1>9. \A j \in DOMAIN failing' : /\ failing'[j].result # "message"
                                 /\ failing'[j].connection <= connections
  BY <1>1, <1>2 DEF Past, Failures, FutureType
<1> QED
  BY <1>8, <1>9

\* The socket is gone, and its promises are to fail.
Loses(reason) ==
  /\ FailAllPromises(reason) /\ socket' = FALSE
  /\ UNCHANGED <<received, answers, receives, connections>>

LEMMA FutureLoses ==
  ASSUME FutureInv, NEW reason \in Failures, Loses(reason)
  PROVE  FutureInv'
<1>1. /\ socket' = FALSE /\ received' = received /\ answers' = answers
      /\ receives' = receives /\ connections' = connections /\ FailAllPromises(reason)
  BY DEF Loses
<1>2. FutureType /\ OnePlace /\ Past /\ Queue /\ Ordered /\ AsManyAsArrived
  BY DEF FutureInv
<1>3. recvQueue' = <<>> /\ failing' \in Seq(AnswerSet)
  BY <1>1, <1>2, FailAllFacts
<1>4. FutureType'
  <2>1. <<>> \in Seq(1 .. MaxReceives)
    OBVIOUS
  <2> QED
    BY <1>1, <1>2, <1>3, <2>1 DEF FutureType
<1>5. OnePlace' /\ \A j \in DOMAIN failing' : /\ failing'[j].result # "message"
                                              /\ failing'[j].connection <= connections
  BY <1>1, FailAllInPlace
<1>6. Past'
  BY <1>1, <1>2, <1>5 DEF Past
<1>7. Queue'
  BY <1>1, <1>3 DEF Queue
<1>8. Ordered'
  BY <1>1, <1>2 DEF Ordered, InOrder, MessageOf
<1>9. AsManyAsArrived'
  BY <1>1, <1>2 DEF AsManyAsArrived, Given, MessageOf
<1> QED
  BY <1>4, <1>5, <1>6, <1>7, <1>8, <1>9 DEF FutureInv

LEMMA FutureConnect ==
  ASSUME FutureInv, Connect
  PROVE  FutureInv'
<1>1. /\ connections < MaxConnections /\ connections' = connections + 1
      /\ socket' = ~ReceiveCallbackSet /\ received' = <<>> /\ answers' = answers
      /\ receives' = receives /\ FailAllPromises("closedLocally")
  BY DEF Connect
<1>2. FutureType /\ OnePlace /\ Past /\ Queue /\ Ordered /\ AsManyAsArrived
  BY DEF FutureInv
<1>3. "closedLocally" \in Failures
  BY DEF Failures
<1>4. recvQueue' = <<>> /\ failing' \in Seq(AnswerSet)
  BY <1>1, <1>2, <1>3, FailAllFacts
<1>5. connections \in Nat /\ connections' \in 1 .. MaxConnections
  BY <1>1, <1>2, BoundAssumption DEF FutureType
<1>6. FutureType'
  BY <1>1, <1>2, <1>4, <1>5 DEF FutureType, ReceiveCallbackSet
<1>7. OnePlace' /\ \A j \in DOMAIN failing' : /\ failing'[j].result # "message"
                                              /\ failing'[j].connection <= connections
  BY <1>1, <1>3, FailAllInPlace
<1>8. \A j \in DOMAIN failing' : failing'[j].connection \in Nat
  <2>1. \A j \in DOMAIN failing' : failing'[j] \in AnswerSet
    BY <1>4
  <2> QED
    BY <2>1 DEF AnswerSet
<1>9. /\ \A j \in DOMAIN answers : answers[j].connection \in Nat
      /\ \A i \in DOMAIN receives : receives[i] \in Nat
  <2>1. /\ \A j \in DOMAIN answers : answers[j] \in AnswerSet
        /\ \A i \in DOMAIN receives : receives[i] \in 0 .. MaxConnections
    BY <1>2, Elements
  <2>2. \A j \in DOMAIN answers : answers[j].connection \in 1 .. MaxConnections
    BY <2>1 DEF AnswerSet
  <2> QED
    BY <2>1, <2>2
<1>10. /\ \A i \in DOMAIN receives : receives[i] <= connections
       /\ \A j \in DOMAIN answers : answers[j].connection <= connections
  BY <1>2 DEF Past
<1>11. /\ \A i \in DOMAIN receives : receives[i] < connections'
       /\ \A j \in DOMAIN answers : answers[j].connection < connections'
  BY <1>1, <1>5, <1>9, <1>10
<1>12. Past'
  BY <1>1, <1>5, <1>7, <1>8, <1>9, <1>10 DEF Past
<1>13. Queue'
  <2>1. DOMAIN recvQueue' = {}
    BY <1>4
  <2>2. \A i \in DOMAIN receives : receives[i] # connections'
    BY <1>11, <1>9, <1>5
  <2> QED
    BY <1>1, <1>4, <2>1, <2>2 DEF Queue
<1>14. Ordered'
  BY <1>1, <1>2 DEF Ordered, InOrder, MessageOf
<1>15. AsManyAsArrived'
  <2>1. \A j \in DOMAIN answers : answers[j].connection # connections'
    BY <1>11, <1>9, <1>5
  <2>2. Given' = {}
    BY <1>1, <2>1 DEF Given, MessageOf
  <2>3. Len(received') = 0
    BY <1>1
  <2> QED
    BY <2>2, <2>3, FS_EmptySet DEF AsManyAsArrived
<1> QED
  BY <1>6, <1>7, <1>12, <1>13, <1>14, <1>15 DEF FutureInv

-----------------------------------------------------------------------------
(* The stream: facts about its operators *)

LEMMA MinOfTwo ==
  ASSUME NEW a \in Int, NEW b \in Int
  PROVE  Min({a, b}) = IF a <= b THEN a ELSE b
<1>1. CASE a <= b
  <2>1. \A y \in {a, b} : a <= y
    BY <1>1
  <2>2. \A x \in {a, b} : (\A y \in {a, b} : x <= y) => x = a
    BY <1>1
  <2> QED
    BY <1>1, <2>1, <2>2 DEF Min
<1>2. CASE ~(a <= b)
  <2>1. \A y \in {a, b} : b <= y
    BY <1>2
  <2>2. \A x \in {a, b} : (\A y \in {a, b} : x <= y) => x = b
    BY <1>2
  <2> QED
    BY <1>2, <2>1, <2>2 DEF Min
<1> QED
  BY <1>1, <1>2

LEMMA MaxOfOne ==
  ASSUME NEW a \in Int
  PROVE  Max({a}) = a
<1>1. a >= a
  OBVIOUS
<1> QED
  BY <1>1 DEF Max

LEMMA InitiallyFacts ==
  ASSUME NEW kind \in Kind
  PROVE  /\ Initially(kind) \in Nat /\ Initially(kind) <= kind.files
         /\ Initially(kind) <= kMaxFDs
<1>1. kMaxFDs \in Int /\ kMaxFDs \in Nat /\ kind.files \in Nat /\ kind.files \in Int
  BY StreamAssumption DEF Kind
<1> QED
  BY <1>1, MinOfTwo DEF Initially

LEMMA ChunkFacts ==
  ASSUME NEW kind \in Kind, NEW f \in Nat, f <= kind.files
  PROVE  /\ Chunk(kind, f) \in Nat /\ f + Chunk(kind, f) <= kind.files
         /\ f < kind.files => Chunk(kind, f) > 0
<1>1. kMaxFDs \in Int /\ kMaxFDs \in Nat \ {0} /\ kind.files \in Nat /\ kind.files - f \in Int
  BY StreamAssumption DEF Kind
<1> QED
  BY <1>1, MinOfTwo DEF Chunk

LEMMA FilesFacts ==
  ASSUME NEW n \in Nat, NEW a \in Nat, NEW b \in Nat, a <= b
  PROVE  /\ Files(n, a, b) \in Seq(File) /\ Len(Files(n, a, b)) = b - a
         /\ DOMAIN Files(n, a, b) = 1 .. (b - a)
         /\ \A i \in 1 .. (b - a) : Files(n, a, b)[i] = <<n, a + i>>
<1>1. b - a \in Nat
  OBVIOUS
<1>2. \A i \in 1 .. (b - a) : <<n, a + i>> \in File
  BY DEF File
<1> QED
  BY <1>1, <1>2 DEF Files

LEMMA NoFiles ==
  ASSUME NEW n \in Nat, NEW a \in Nat
  PROVE  Files(n, a, a) = <<>>
<1>1. Files(n, a, a) \in Seq(File) /\ Len(Files(n, a, a)) = 0
  BY FilesFacts
<1> QED
  BY <1>1

LEMMA FilesFromFirst ==
  ASSUME NEW n \in Nat, NEW a \in Nat
  PROVE  /\ Files(n, 0, a) \in Seq(File) /\ Len(Files(n, 0, a)) = a
         /\ \A i \in 1 .. a : Files(n, 0, a)[i] = <<n, i>>
<1>1. 0 \in Nat /\ 0 <= a /\ a - 0 = a
  OBVIOUS
<1>2. /\ Files(n, 0, a) \in Seq(File) /\ Len(Files(n, 0, a)) = a - 0
      /\ \A i \in 1 .. (a - 0) : Files(n, 0, a)[i] = <<n, 0 + i>>
  BY ONLY <1>1, n \in Nat, a \in Nat, FilesFacts
<1>3. \A i \in 1 .. a : 0 + i = i
  OBVIOUS
<1> QED
  BY <1>1, <1>2, <1>3

LEMMA SameSequence ==
  ASSUME NEW S, NEW s \in Seq(S), NEW t \in Seq(S), Len(s) = Len(t),
         \A i \in 1 .. Len(s) : s[i] = t[i]
  PROVE  s = t
OBVIOUS

LEMMA FilesJoin ==
  ASSUME NEW n \in Nat, NEW a \in Nat, NEW b \in Nat, a <= b
  PROVE  Files(n, 0, a) \o Files(n, a, b) = Files(n, 0, b)
<1> DEFINE x == Files(n, 0, a)
           y == Files(n, a, b)
           z == Files(n, 0, b)
<1>1. x \in Seq(File) /\ Len(x) = a /\ \A i \in 1 .. a : x[i] = <<n, i>>
  BY FilesFromFirst
<1>2. y \in Seq(File) /\ Len(y) = b - a /\ \A i \in 1 .. (b - a) : y[i] = <<n, a + i>>
  BY FilesFacts
<1>3. z \in Seq(File) /\ Len(z) = b /\ \A i \in 1 .. b : z[i] = <<n, i>>
  BY FilesFromFirst
<1> HIDE DEF x, y, z
<1>4. /\ x \o y \in Seq(File) /\ Len(x \o y) = Len(x) + Len(y)
      /\ \A i \in 1 .. Len(x) : (x \o y)[i] = x[i]
      /\ \A i \in (Len(x) + 1) .. (Len(x) + Len(y)) : (x \o y)[i] = y[i - Len(x)]
  BY <1>1, <1>2, ConcatFacts
<1>5. Len(x \o y) = b
  BY <1>1, <1>2, <1>4
<1>6. \A i \in 1 .. b : (x \o y)[i] = z[i]
  <2> SUFFICES ASSUME NEW i \in 1 .. b
               PROVE  (x \o y)[i] = z[i]
    OBVIOUS
  <2>1. CASE i <= a
    <3>1. i \in 1 .. a /\ i \in 1 .. Len(x)
      BY <1>1, <2>1
    <3>2. (x \o y)[i] = <<n, i>>
      BY <1>1, <1>4, <3>1
    <3> QED
      BY <3>2, <1>3
  <2>2. CASE i > a
    <3>1. PICK j \in 1 .. (b - a) : j = i - a
      BY <2>2
    <3>2. i \in (Len(x) + 1) .. (Len(x) + Len(y)) /\ i - Len(x) = j /\ a + j = i
      BY <1>1, <1>2, <2>2, <3>1
    <3>3. (x \o y)[i] = y[j]
      BY <1>4, <3>2
    <3>4. y[j] = <<n, a + j>>
      BY <1>2
    <3> QED
      BY <3>2, <3>3, <3>4, <1>3
  <2>3. i <= a \/ i > a
    OBVIOUS
  <2> QED
    BY <2>1, <2>2, <2>3
<1>7. x \o y = z
  BY <1>3, <1>4, <1>5, <1>6, SameSequence
<1> QED
  BY <1>7 DEF x, y, z

LEMMA IovFacts ==
  ASSUME NEW n \in Nat, NEW kind \in Kind
  PROVE  /\ Iov(n, kind) \in Seq(Byte) /\ Len(Iov(n, kind)) = Total(kind)
         /\ Total(kind) \in Nat \ {0}
         /\ \A i \in 1 .. Total(kind) : Iov(n, kind)[i] =
              IF i <= kHeaderLength THEN [part |-> "header", of |-> n, at |-> i, files |-> <<>>]
              ELSE [part |-> "data", of |-> n, at |-> i - kHeaderLength, files |-> <<>>]
<1>1. Total(kind) \in Nat \ {0} /\ kind.data \in Nat /\ kHeaderLength \in Nat \ {0}
  BY StreamAssumption DEF Total, Kind
<1>2. <<>> \in Seq(File)
  OBVIOUS
<1>3. \A i \in 1 .. Total(kind) :
        /\ i <= kHeaderLength =>
             [part |-> "header", of |-> n, at |-> i, files |-> <<>>] \in Byte
        /\ ~(i <= kHeaderLength) =>
             [part |-> "data", of |-> n, at |-> i - kHeaderLength, files |-> <<>>] \in Byte
  BY <1>1, <1>2 DEF Byte
<1> DEFINE v(i) ==
      IF i <= kHeaderLength THEN [part |-> "header", of |-> n, at |-> i, files |-> <<>>]
      ELSE [part |-> "data", of |-> n, at |-> i - kHeaderLength, files |-> <<>>]
<1>4. \A i \in 1 .. Total(kind) : v(i) \in Byte
  BY <1>3
<1>5. Iov(n, kind) = [i \in 1 .. Total(kind) |-> v(i)]
  BY DEF Iov, Total
<1> HIDE DEF v
<1>6. Iov(n, kind) \in Seq(Byte) /\ Len(Iov(n, kind)) = Total(kind)
  BY <1>1, <1>4, <1>5
<1>7. \A i \in 1 .. Total(kind) : Iov(n, kind)[i] = v(i)
  BY <1>5
<1> QED
  BY <1>1, <1>6, <1>7 DEF v

LEMMA SubSeqFacts ==
  ASSUME NEW S, NEW s \in Seq(S), NEW k \in 0 .. Len(s)
  PROVE  /\ SubSeq(s, 1, k) \in Seq(S) /\ Len(SubSeq(s, 1, k)) = k
         /\ \A i \in 1 .. k : SubSeq(s, 1, k)[i] = s[i]
         /\ SubSeq(s, k + 1, Len(s)) \in Seq(S)
         /\ Len(SubSeq(s, k + 1, Len(s))) = Len(s) - k
         /\ \A i \in 1 .. (Len(s) - k) : SubSeq(s, k + 1, Len(s))[i] = s[k + i]
<1>1. Len(s) \in Nat /\ k \in Nat /\ k <= Len(s)
  OBVIOUS
<1>2. SubSeq(s, 1, k) \in Seq(S) /\ Len(SubSeq(s, 1, k)) = k
  BY <1>1
<1>3. \A i \in 1 .. k : SubSeq(s, 1, k)[i] = s[i]
  BY <1>1
<1>4. SubSeq(s, k + 1, Len(s)) \in Seq(S)
  BY <1>1
<1>5. Len(SubSeq(s, k + 1, Len(s))) = Len(s) - k
  BY <1>1
<1>6. \A i \in 1 .. (Len(s) - k) : SubSeq(s, k + 1, Len(s))[i] = s[k + i]
  BY <1>1
<1> QED
  BY <1>2, <1>3, <1>4, <1>5, <1>6

-----------------------------------------------------------------------------
(* The stream: the bytes that one recvmsg() takes *)

LEMMA StreamFacts ==
  ASSUME StreamType
  PROVE  /\ Len(sent) \in Nat /\ DOMAIN sent = 1 .. Len(sent)
         /\ \A n \in DOMAIN sent :
              n \in Nat /\ sent[n] \in Kind /\ sent[n].data \in Nat /\ sent[n].files \in Nat
         /\ Len(wire) \in Nat /\ DOMAIN wire = 1 .. Len(wire)
         /\ \A i \in DOMAIN wire : wire[i] \in Byte
         /\ Len(received) \in Nat /\ DOMAIN received = 1 .. Len(received)
         /\ Len(sendQueue) \in Nat /\ DOMAIN sendQueue = 1 .. Len(sendQueue)
         /\ \A k \in DOMAIN sendQueue : sendQueue[k] \in Entry
<1>1. /\ sent \in Seq(Kind) /\ wire \in Seq(Byte) /\ received \in Seq(Contained)
      /\ sendQueue \in Seq(Entry)
  BY DEF StreamType
<1>2. /\ Len(sent) \in Nat /\ DOMAIN sent = 1 .. Len(sent)
      /\ \A n \in DOMAIN sent : sent[n] \in Kind
  BY <1>1
<1>3. \A n \in DOMAIN sent : n \in Nat /\ sent[n].data \in Nat /\ sent[n].files \in Nat
  BY <1>2 DEF Kind
<1>4. /\ Len(wire) \in Nat /\ DOMAIN wire = 1 .. Len(wire)
      /\ \A i \in DOMAIN wire : wire[i] \in Byte
  BY <1>1
<1>5. Len(received) \in Nat /\ DOMAIN received = 1 .. Len(received)
  BY <1>1
<1>6. /\ Len(sendQueue) \in Nat /\ DOMAIN sendQueue = 1 .. Len(sendQueue)
      /\ \A k \in DOMAIN sendQueue : sendQueue[k] \in Entry
  BY <1>1
<1> QED
  BY <1>2, <1>3, <1>4, <1>5, <1>6

LEMMA SuccFacts ==
  ASSUME NEW kind, NEW n, NEW i
  PROVE  /\ Succ(kind, Place("header", n, i)) =
              IF i < kHeaderLength THEN Place("header", n, i + 1) ELSE DataFrom(kind, n, 1)
         /\ Succ(kind, Place("data", n, i)) = DataFrom(kind, n, i + 1)
         /\ Succ(kind, Place("pad", n, i)) = PadFrom(kind, n, i + Chunk(kind, i))
BY DEF Succ, Place

LEMMA PlaceFacts ==
  ASSUME NEW part, NEW n, NEW i
  PROVE  /\ Place(part, n, i).part = part /\ Place(part, n, i).of = n
         /\ Place(part, n, i).at = i
         /\ \A b : Key(b) = Place(part, n, i) => b.part = part /\ b.of = n /\ b.at = i
BY DEF Place, Key

LEMMA Least ==
  ASSUME NEW T, T \subseteq Nat, T # {}
  PROVE  \E m \in T : \A i \in T : m <= i
<1>1. PICK m \in T : \A y \in T : ~(<<y, m>> \in OpToRel(<, Nat))
  BY NatLessThanWellFounded, WFMin
<1>2. \A i \in T : ~(i < m)
  BY <1>1 DEF OpToRel
<1> QED
  BY <1>2

\* Bytes from a place in the header on are the header, as far as it goes ...
LEMMA HeaderRun ==
  ASSUME StreamType, Wire, NEW n \in Nat, NEW h \in Nat, NEW k \in 1 .. Len(wire),
         h + k <= kHeaderLength, Key(wire[1]) = Place("header", n, h + 1)
  PROVE  \A i \in 1 .. k : Key(wire[i]) = Place("header", n, h + i)
<1> DEFINE T == {i \in 1 .. k : Key(wire[i]) # Place("header", n, h + i)}
<1> SUFFICES ASSUME T # {}
             PROVE  FALSE
  OBVIOUS
<1>0. T \subseteq Nat
  OBVIOUS
<1> HIDE DEF T
<1>1. PICK m \in T : \A i \in T : m <= i
  BY <1>0, Least
<1> USE DEF T
<1>2. m \in 1 .. k /\ Key(wire[m]) # Place("header", n, h + m) /\ m # 1
  <2>1. m \in 1 .. k /\ Key(wire[m]) # Place("header", n, h + m)
    OBVIOUS
  <2>2. 1 \notin T
    OBVIOUS
  <2> QED
    BY <2>1, <2>2
<1>3. m - 1 \in 1 .. k /\ m - 1 \notin T /\ (m - 1) + 1 = m
  BY <1>1, <1>2
<1>4. Key(wire[m - 1]) = Place("header", n, h + (m - 1))
  BY <1>3
<1> HIDE DEF T
<1>5. m - 1 \in 1 .. (Len(wire) - 1) /\ Len(wire) \in Nat
  BY <1>2, StreamFacts
<1>6. Key(wire[m]) = SuccInWire(m - 1)
  BY <1>3, <1>5 DEF Wire
<1>7. h + (m - 1) < kHeaderLength /\ h + (m - 1) + 1 = h + m
  BY <1>2, StreamAssumption
<1>8. SuccInWire(m - 1) = Place("header", n, h + m)
  BY <1>4, <1>7, SuccFacts DEF SuccInWire, After
<1> QED
  BY <1>2, <1>6, <1>8

\* ... and bytes from a place in the data on are the data.
LEMMA DataRun ==
  ASSUME StreamType, Wire, NEW n \in DOMAIN sent, NEW h \in Nat, NEW k \in 1 .. Len(wire),
         h + k <= sent[n].data, Key(wire[1]) = Place("data", n, h + 1)
  PROVE  \A i \in 1 .. k : Key(wire[i]) = Place("data", n, h + i)
<1> DEFINE T == {i \in 1 .. k : Key(wire[i]) # Place("data", n, h + i)}
<1> SUFFICES ASSUME T # {}
             PROVE  FALSE
  OBVIOUS
<1>0. T \subseteq Nat
  OBVIOUS
<1> HIDE DEF T
<1>1. PICK m \in T : \A i \in T : m <= i
  BY <1>0, Least
<1> USE DEF T
<1>2. m \in 1 .. k /\ Key(wire[m]) # Place("data", n, h + m) /\ m # 1
  <2>1. m \in 1 .. k /\ Key(wire[m]) # Place("data", n, h + m)
    OBVIOUS
  <2>2. 1 \notin T
    OBVIOUS
  <2> QED
    BY <2>1, <2>2
<1>3. m - 1 \in 1 .. k /\ m - 1 \notin T /\ (m - 1) + 1 = m
  BY <1>1, <1>2
<1>4. Key(wire[m - 1]) = Place("data", n, h + (m - 1))
  BY <1>3
<1> HIDE DEF T
<1>5. m - 1 \in 1 .. (Len(wire) - 1) /\ Len(wire) \in Nat
  BY <1>2, StreamFacts
<1>6. Key(wire[m]) = SuccInWire(m - 1)
  BY <1>3, <1>5 DEF Wire
<1>7. sent[n].data \in Nat
  BY StreamFacts
<1>8. h + (m - 1) + 1 <= sent[n].data /\ h + (m - 1) + 1 = h + m
  BY <1>2, <1>7
<1>9. wire[m - 1].of = n
  BY <1>4 DEF Key, Place
<1>10. SuccInWire(m - 1) = Place("data", n, h + m)
  BY <1>4, <1>8, <1>9, SuccFacts DEF SuccInWire, After, DataFrom
<1> QED
  BY <1>2, <1>6, <1>10

LEMMA SmallRemainder ==
  ASSUME NEW a \in Nat, NEW b \in Nat \ {0}
  PROVE  a % b \in Nat /\ (a < b => a % b = a)
OBVIOUS

\* The files of a recvmsg() are those of the one byte that may have some.
LEMMA TakenFiles ==
  ASSUME StreamType, NEW k \in 1 .. Len(wire), Cardinality(WithFiles(k)) <= 1
  PROVE  /\ ReceivedFiles(k) \in Seq(File)
         /\ \A i \in 1 .. k : (\A j \in 1 .. k : j # i => wire[j].files = <<>>) =>
              ReceivedFiles(k) = wire[i].files
<1>1. WithFiles(k) \subseteq 1 .. k /\ 1 .. k \subseteq DOMAIN wire /\ k \in Nat
  BY StreamFacts DEF WithFiles
<1>2. IsFiniteSet(WithFiles(k)) /\ Cardinality(WithFiles(k)) \in Nat
  <2>1. IsFiniteSet(1 .. k)
    BY <1>1, FS_Interval
  <2>2. IsFiniteSet(WithFiles(k))
    BY <1>1, <2>1, FS_Subset
  <2> QED
    BY <2>2, FS_CardinalityType
<1>3. ASSUME NEW i \in WithFiles(k)
      PROVE  WithFiles(k) = {i}
  <2> SUFFICES ASSUME NEW j \in WithFiles(k), j # i
               PROVE  FALSE
    OBVIOUS
  <2>1. Cardinality({i}) = 1 /\ IsFiniteSet({i})
    BY FS_Singleton
  <2>2. Cardinality({i} \union {j}) = 2 /\ {i} \union {j} \in SUBSET WithFiles(k)
    <3>1. j \notin {i} /\ {i} \union {j} \in SUBSET WithFiles(k)
      OBVIOUS
    <3>2. Cardinality({i} \union {j}) = Cardinality({i}) + 1
      BY <2>1, <3>1, FS_AddElement
    <3> QED
      BY <2>1, <3>1, <3>2
  <2>3. Cardinality({i} \union {j}) <= Cardinality(WithFiles(k))
    BY <2>2, <1>2, FS_Subset
  <2> QED
    BY <2>2, <2>3, <1>2
<1>4. ASSUME NEW i \in WithFiles(k)
      PROVE  ReceivedFiles(k) = wire[i].files
  <2>1. WithFiles(k) = {i} /\ i \in Int
    BY <1>1, <1>3
  <2>2. Max(WithFiles(k)) = i
    BY <2>1, MaxOfOne
  <2> QED
    BY <2>1, <2>2 DEF ReceivedFiles
<1>5. WithFiles(k) = {} => ReceivedFiles(k) = <<>>
  BY DEF ReceivedFiles
<1>6. \A i \in 1 .. k : wire[i].files \in Seq(File)
  BY <1>1, StreamFacts DEF Byte
<1>7. ReceivedFiles(k) \in Seq(File)
  <2>1. CASE WithFiles(k) = {}
    BY <2>1, <1>5
  <2>2. CASE WithFiles(k) # {}
    BY <2>2, <1>1, <1>4, <1>6
  <2> QED
    BY <2>1, <2>2
<1>8. ASSUME NEW i \in 1 .. k, \A j \in 1 .. k : j # i => wire[j].files = <<>>
      PROVE  ReceivedFiles(k) = wire[i].files
  <2>1. CASE WithFiles(k) = {}
    BY <2>1, <1>5 DEF WithFiles
  <2>2. CASE WithFiles(k) # {}
    <3>1. PICK j \in WithFiles(k) : TRUE
      BY <2>2
    <3>2. j \in 1 .. k /\ wire[j].files # <<>>
      BY <3>1 DEF WithFiles
    <3> QED
      BY <3>1, <3>2, <1>4, <1>8
  <2> QED
    BY <2>1, <2>2
<1> QED
  BY <1>7, <1>8

\* What tryReceiveOne() asks of the kernel, and what it does with the answer.
Announced == DeserializeHeader(recv.header).dataSize

LEMMA RecvMsgFacts ==
  ASSUME StreamType, Header, NEW k \in Nat, RecvMsg(k)
  PROVE  /\ k \in 1 .. Len(wire) /\ Cardinality(WithFiles(k)) <= 1
         /\ HeaderComplete(recv) => Announced \in Nat
         /\ ~HeaderComplete(recv) => k <= kHeaderLength - Len(recv.header)
         /\ HeaderComplete(recv) /\ Len(recv.data) < Announced => k <= Announced - Len(recv.data)
         /\ HeaderComplete(recv) /\ ~(Len(recv.data) < Announced) => k = 1
<1>1. /\ Len(wire) \in Nat /\ kHeaderLength \in Nat \ {0} /\ recv.header \in Seq(Byte)
      /\ recv.data \in Seq(Byte)
      /\ Len(recv.header) \in Nat /\ Len(recv.data) \in Nat
  <2>1. recv.header \in Seq(Byte) /\ recv.data \in Seq(Byte)
    BY DEF StreamType, Buffers
  <2> QED
    BY <2>1, StreamFacts, StreamAssumption
<1>2. ASSUME HeaderComplete(recv)
      PROVE  Announced \in Nat
  <2>1. 1 \in DOMAIN recv.header
    BY <1>1, <1>2 DEF HeaderComplete
  <2>2. sent[recv.header[1].of].data \in Nat
    BY <2>1, StreamFacts DEF Header
  <2> QED
    BY <2>2, SmallRemainder, StreamAssumption DEF Announced, DeserializeHeader, SerializedSize
<1>3. BufferSize(recv) \in Int
  <2>1. CASE ~HeaderComplete(recv)
    BY <2>1, <1>1 DEF BufferSize
  <2>2. CASE HeaderComplete(recv)
    <3>1. Announced - Len(recv.data) \in Int
      BY <2>2, <1>1, <1>2
    <3> QED
      BY <2>2, <3>1 DEF BufferSize, Announced
  <2> QED
    BY <2>1, <2>2
<1>4. k \in 1 .. Min({BufferSize(recv), Len(wire)}) /\ Cardinality(WithFiles(k)) <= 1
  BY DEF RecvMsg
<1>5. k >= 1 /\ k <= BufferSize(recv) /\ k <= Len(wire)
  BY <1>1, <1>3, <1>4, MinOfTwo
<1>6. ASSUME ~HeaderComplete(recv)
      PROVE  k <= kHeaderLength - Len(recv.header)
  BY <1>5, <1>6 DEF BufferSize
<1>7. ASSUME HeaderComplete(recv), Len(recv.data) < Announced
      PROVE  k <= Announced - Len(recv.data)
  <2>1. Announced - Len(recv.data) > 0
    BY <1>1, <1>2, <1>7
  <2> QED
    BY <2>1, <1>5, <1>7 DEF BufferSize, Announced
<1>8. ASSUME HeaderComplete(recv), ~(Len(recv.data) < Announced)
      PROVE  k = 1
  <2>1. ~(Announced - Len(recv.data) > 0)
    BY <1>1, <1>2, <1>8
  <2>2. BufferSize(recv) = 1
    BY <2>1, <1>8 DEF BufferSize, Announced
  <2> QED
    BY <2>2, <1>5
<1> QED
  BY <1>1, <1>2, <1>4, <1>5, <1>6, <1>7, <1>8

LEMMA TakeFacts ==
  ASSUME StreamType, NEW k
  PROVE  /\ ~HeaderComplete(recv) =>
              Take(k) = [header |-> recv.header \o SubSeq(wire, 1, k), data |-> recv.data,
                         files |-> recv.files \o ReceivedFiles(k)]
         /\ HeaderComplete(recv) /\ Len(recv.data) < Announced =>
              Take(k) = [header |-> recv.header, data |-> recv.data \o SubSeq(wire, 1, k),
                         files |-> recv.files \o ReceivedFiles(k)]
         /\ HeaderComplete(recv) /\ ~(Len(recv.data) < Announced) =>
              Take(k) = [header |-> recv.header, data |-> recv.data,
                         files |-> recv.files \o ReceivedFiles(k)]
BY DEF Take, Announced, StreamType, Buffers

LEMMA BufferFacts ==
  ASSUME StreamType
  PROVE  /\ recv.header \in Seq(Byte) /\ recv.data \in Seq(Byte) /\ recv.files \in Seq(File)
         /\ Len(recv.header) \in Nat /\ Len(recv.data) \in Nat /\ Len(recv.files) \in Nat
         /\ Len(recv.header) <= kHeaderLength
         /\ kHeaderLength \in Nat \ {0}
<1>1. recv.header \in Seq(Byte) /\ recv.data \in Seq(Byte) /\ recv.files \in Seq(File)
  BY DEF StreamType, Buffers
<1> QED
  BY <1>1, StreamAssumption DEF StreamType

\* The header, or a part of it, is received ...
LEMMA TakeHeader ==
  ASSUME StreamType, Wire, Header, NEW n \in Nat, Waits(sent, recv, n, Key(wire[1])),
         NEW k \in Nat, RecvMsg(k), ~HeaderComplete(recv)
  PROVE  n \in DOMAIN sent /\ Begun(sent[n], Take(k), n, SuccInWire(k))
<1> DEFINE h == Len(recv.header)
           bytes == SubSeq(wire, 1, k)
           files == ReceivedFiles(k)
<1>1. /\ recv.header \in Seq(Byte) /\ recv.data \in Seq(Byte) /\ recv.files \in Seq(File)
      /\ h \in Nat /\ h < kHeaderLength /\ kHeaderLength \in Nat \ {0}
  BY BufferFacts DEF HeaderComplete
<1>2. k \in 1 .. Len(wire) /\ Cardinality(WithFiles(k)) <= 1 /\ h + k <= kHeaderLength
  BY <1>1, RecvMsgFacts
<1>3. /\ recv.data = <<>> /\ Key(wire[1]) = Place("header", n, h + 1)
      /\ h = 0 => recv.files = <<>>
      /\ h # 0 => /\ n \in DOMAIN sent /\ Contents(recv, n)
                  /\ Len(recv.files) = Initially(sent[n])
  <2>1. CASE recv = NothingReceived /\ Key(wire[1]) = Place("header", n, 1)
    BY <2>1 DEF NothingReceived
  <2>2. CASE n \in DOMAIN sent /\ Begun(sent[n], recv, n, Key(wire[1]))
    <3>1. h # 0
      BY <2>2, <1>1 DEF Begun
    <3> QED
      BY <2>2, <3>1, <1>1 DEF Begun
  <2> QED
    BY <2>1, <2>2 DEF Waits
<1>4. \A i \in 1 .. k : Key(wire[i]) = Place("header", n, h + i)
  BY <1>1, <1>2, <1>3, HeaderRun
<1>5. /\ \A i \in 1 .. k : wire[i].part = "header" /\ wire[i].of = n /\ wire[i].at = h + i
      /\ \A i \in 1 .. k : i \in DOMAIN wire
  BY <1>2, <1>4, PlaceFacts, StreamFacts
<1>6. n \in DOMAIN sent /\ \A i \in 1 .. k : ByteOK(sent[n], wire[i])
  <2>1. \A i \in DOMAIN wire : wire[i].of \in DOMAIN sent /\ ByteOK(sent[wire[i].of], wire[i])
    BY DEF Wire
  <2>2. 1 \in 1 .. k
    BY <1>2
  <2> QED
    BY ONLY <2>1, <2>2, <1>5
<1>7. sent[n] \in Kind /\ sent[n].data \in Nat /\ sent[n].files \in Nat
  BY <1>6, StreamFacts
<1>8. Initially(sent[n]) \in Nat /\ Initially(sent[n]) <= sent[n].files
  BY <1>7, InitiallyFacts
<1>9. \A i \in 1 .. k : wire[i].files =
        IF h + i = 1 THEN Files(n, 0, Initially(sent[n])) ELSE <<>>
  BY <1>5, <1>6 DEF ByteOK
<1>10. files = wire[1].files
  <2>1. \A j \in 1 .. k : j # 1 => wire[j].files = <<>>
    BY <1>1, <1>9
  <2> QED
    BY <2>1, <1>2, TakenFiles
<1>11. /\ recv.files \o files = Files(n, 0, Initially(sent[n]))
       /\ Len(recv.files \o files) = Initially(sent[n])
  <2>1. /\ Files(n, 0, Initially(sent[n])) \in Seq(File)
        /\ Len(Files(n, 0, Initially(sent[n]))) = Initially(sent[n])
    BY <1>8, FilesFromFirst
  <2>2. CASE h = 0
    <3>1. files = Files(n, 0, Initially(sent[n])) /\ recv.files = <<>>
      BY <2>2, <1>2, <1>3, <1>9, <1>10
    <3> QED
      BY <3>1, <2>1
  <2>3. CASE h # 0
    <3>1. files = <<>> /\ recv.files = Files(n, 0, Initially(sent[n]))
      BY <2>3, <1>1, <1>2, <1>3, <1>9, <1>10 DEF Contents
    <3> QED
      BY <3>1, <2>1
  <2> QED
    BY <2>2, <2>3
<1>12. Take(k) = [header |-> recv.header \o bytes, data |-> recv.data,
                  files |-> recv.files \o files]
  BY TakeFacts
<1>13. /\ bytes \in Seq(Byte) /\ Len(bytes) = k /\ \A i \in 1 .. k : bytes[i] = wire[i]
  <2>1. wire \in Seq(Byte) /\ k \in 0 .. Len(wire)
    BY <1>2 DEF StreamType
  <2> QED
    BY <2>1, SubSeqFacts
<1> HIDE DEF bytes, files
<1>14. /\ recv.header \o bytes \in Seq(Byte) /\ Len(recv.header \o bytes) = h + k
       /\ \A i \in 1 .. (h + k) : Key((recv.header \o bytes)[i]) = Place("header", n, i)
  <2>1. recv.header \o bytes \in Seq(Byte) /\ Len(recv.header \o bytes) = h + k
    <3>1. recv.header \in Seq(Byte) /\ bytes \in Seq(Byte) /\ Len(bytes) = k
          /\ Len(recv.header) = h
      BY <1>1, <1>13
    <3> QED
      BY ONLY <3>1, ConcatFacts
  <2>2. ASSUME NEW i \in 1 .. (h + k)
        PROVE  Key((recv.header \o bytes)[i]) = Place("header", n, i)
    <3>1. CASE i <= h
      <4>1. (recv.header \o bytes)[i] = recv.header[i]
        BY <3>1, <1>1, <1>13, ConcatFacts
      <4>2. Key(recv.header[i]) = Place("header", n, i)
        <5>1. i \in DOMAIN recv.header /\ h # 0
          BY <3>1, <1>1
        <5> QED
          BY <5>1, <1>3 DEF Contents
      <4> QED
        BY <4>1, <4>2
    <3>2. CASE i > h
      <4>1. PICK j \in 1 .. k : j = i - h
        <5>1. h \in Nat /\ k \in Nat
          BY <1>1
        <5>2. i - h \in 1 .. k
          BY <5>1, <3>2
        <5> QED
          BY <5>2
      <4>2. (recv.header \o bytes)[i] = bytes[j] /\ h + j = i
        <5>1. i \in (h + 1) .. (h + k) /\ h + j = i
          BY <3>2, <4>1, <1>1
        <5>2. i - Len(recv.header) = j /\ i \in (Len(recv.header) + 1) .. (Len(recv.header) + Len(bytes))
          BY <5>1, <4>1, <1>13
        <5>3. (recv.header \o bytes)[i] = bytes[i - Len(recv.header)]
          BY <5>2, <1>1, <1>13, ConcatFacts
        <5> QED
          BY <5>1, <5>2, <5>3
      <4>3. Key(wire[j]) = Place("header", n, h + j)
        BY <1>4
      <4> QED
        BY <4>2, <4>3, <1>13
    <3>3. i <= h \/ i > h
      BY <1>1
    <3> QED
      BY <3>1, <3>2, <3>3
  <2> QED
    BY <2>1, <2>2
<1>15. SuccInWire(k) = IF h + k < kHeaderLength THEN Place("header", n, h + k + 1)
                       ELSE DataFrom(sent[n], n, 1)
  <2>1. Key(wire[k]) = Place("header", n, h + k) /\ wire[k].of = n
    BY <1>2, <1>4, <1>5
  <2> QED
    BY <2>1, SuccFacts DEF SuccInWire, After
<1>16. ASSUME NEW r, r = Take(k)
       PROVE  Begun(sent[n], r, n, SuccInWire(k))
  <2>1. /\ r.header = recv.header \o bytes /\ r.data = <<>> /\ r.files = recv.files \o files
    BY <1>3, <1>12, <1>16
  <2>2. /\ Len(r.header) = h + k /\ DOMAIN r.header = 1 .. (h + k) /\ r.header # <<>>
    BY <2>1, <1>1, <1>2, <1>14
  <2>3. Len(r.data) = 0 /\ DOMAIN r.data = {}
    BY <2>1
  <2>4. Len(r.files) = Initially(sent[n]) /\ r.files = Files(n, 0, Len(r.files))
    BY <2>1, <1>11
  <2>5. Contents(r, n)
    BY <2>1, <2>2, <2>3, <2>4, <1>14 DEF Contents
  <2>6. CASE h + k < kHeaderLength
    BY <2>1, <2>2, <2>3, <2>4, <2>5, <2>6, <1>1, <1>2, <1>7, <1>15 DEF Begun
  <2>7. CASE h + k = kHeaderLength
    <3>1. SuccInWire(k) = DataFrom(sent[n], n, 1)
      BY <2>7, <1>1, <1>15
    <3>2. CASE sent[n].data = 0
      <4>1. SuccInWire(k) = PadFrom(sent[n], n, Len(r.files))
        BY <3>1, <3>2, <2>4 DEF DataFrom
      <4> QED
        BY <2>1, <2>2, <2>3, <2>4, <2>5, <2>7, <3>2, <4>1, <1>1, <1>8 DEF Begun
    <3>3. CASE sent[n].data # 0
      <4>1. SuccInWire(k) = Place("data", n, Len(r.data) + 1) /\ 0 < sent[n].data
        BY <3>1, <3>3, <2>3, <1>7 DEF DataFrom
      <4> QED
        BY <2>2, <2>3, <2>4, <2>5, <2>7, <4>1, <1>7 DEF Begun
    <3> QED
      BY <3>2, <3>3
  <2>8. h + k < kHeaderLength \/ h + k = kHeaderLength
    <3>1. k \in Nat
      OBVIOUS
    <3> QED
      BY ONLY <3>1, <1>1, <1>2
  <2> QED
    BY <2>6, <2>7, <2>8
<1> QED
  BY <1>6, <1>16

\* ... or data ...
LEMMA TakeData ==
  ASSUME StreamType, Wire, Header, NEW n \in DOMAIN sent, sent[n].data < SizeModulus,
         Begun(sent[n], recv, n, Key(wire[1])), NEW k \in Nat, RecvMsg(k),
         HeaderComplete(recv), Len(recv.data) < sent[n].data
  PROVE  Begun(sent[n], Take(k), n, SuccInWire(k))
<1> DEFINE h == Len(recv.data)
           bytes == SubSeq(wire, 1, k)
           files == ReceivedFiles(k)
<1>1. /\ recv.header \in Seq(Byte) /\ recv.data \in Seq(Byte) /\ recv.files \in Seq(File)
      /\ h \in Nat /\ Len(recv.header) = kHeaderLength /\ kHeaderLength \in Nat \ {0}
  BY BufferFacts DEF HeaderComplete
<1>2. /\ n \in Nat /\ sent[n] \in Kind /\ sent[n].data \in Nat /\ sent[n].files \in Nat
  BY StreamFacts
<1>3. Announced = sent[n].data
  <2>1. 1 \in DOMAIN recv.header
    BY <1>1
  <2>2. recv.header[1].of = n
    BY <2>1, PlaceFacts DEF Begun, Contents
  <2> QED
    BY <2>2, <1>2, SmallRemainder, StreamAssumption
    DEF Announced, DeserializeHeader, SerializedSize
<1>4. k \in 1 .. Len(wire) /\ Cardinality(WithFiles(k)) <= 1 /\ h + k <= sent[n].data
  <2>1. k \in 1 .. Len(wire) /\ Cardinality(WithFiles(k)) <= 1 /\ k <= Announced - h
    BY <1>3, RecvMsgFacts
  <2>2. k <= sent[n].data - h
    BY <2>1, <1>3
  <2> QED
    BY <2>1, <2>2, <1>1, <1>2
<1>5. /\ Key(wire[1]) = Place("data", n, h + 1) /\ Contents(recv, n) /\ recv.header # <<>>
      /\ Len(recv.files) = Initially(sent[n])
  BY <1>1 DEF Begun
<1>6. \A i \in 1 .. k : Key(wire[i]) = Place("data", n, h + i)
  BY <1>1, <1>4, <1>5, DataRun
<1>7. /\ \A i \in 1 .. k : wire[i].part = "data" /\ wire[i].of = n /\ wire[i].at = h + i
      /\ \A i \in 1 .. k : i \in DOMAIN wire /\ wire[i] \in Byte
  <2>1. \A i \in 1 .. k : i \in DOMAIN wire
    BY <1>4, StreamFacts
  <2>2. \A i \in 1 .. k : wire[i] \in Byte
    BY <2>1, StreamFacts
  <2> QED
    BY <2>1, <2>2, <1>6, PlaceFacts
<1>8. \A i \in 1 .. k : wire[i].files = <<>>
  BY <1>7 DEF Wire, ByteOK
<1>9. \A i \in 1 .. k : wire[i] = [part |-> "data", of |-> n, at |-> h + i, files |-> <<>>]
  BY <1>7, <1>8 DEF Byte
<1>10. files = <<>>
  <2>1. 1 \in 1 .. k /\ \A j \in 1 .. k : j # 1 => wire[j].files = <<>>
    BY <1>4, <1>8
  <2>2. files = wire[1].files
    BY <2>1, <1>4, TakenFiles
  <2> QED
    BY <2>1, <2>2, <1>8
<1>11. recv.files \o files = recv.files
  BY <1>1, <1>10
<1>12. Take(k) = [header |-> recv.header, data |-> recv.data \o bytes,
                  files |-> recv.files \o files]
  BY <1>3, TakeFacts
<1>13. bytes \in Seq(Byte) /\ Len(bytes) = k /\ \A i \in 1 .. k : bytes[i] = wire[i]
  <2>1. wire \in Seq(Byte) /\ k \in 0 .. Len(wire)
    BY <1>4 DEF StreamType
  <2> QED
    BY <2>1, SubSeqFacts
<1> HIDE DEF bytes, files
<1>14. /\ recv.data \o bytes \in Seq(Byte) /\ Len(recv.data \o bytes) = h + k
       /\ \A i \in 1 .. (h + k) :
            (recv.data \o bytes)[i] = [part |-> "data", of |-> n, at |-> i, files |-> <<>>]
  <2>1. recv.data \o bytes \in Seq(Byte) /\ Len(recv.data \o bytes) = h + k
    <3>1. recv.data \in Seq(Byte) /\ bytes \in Seq(Byte) /\ Len(bytes) = k /\ Len(recv.data) = h
      BY <1>1, <1>13
    <3> QED
      BY ONLY <3>1, ConcatFacts
  <2>2. ASSUME NEW i \in 1 .. (h + k)
        PROVE  (recv.data \o bytes)[i] = [part |-> "data", of |-> n, at |-> i, files |-> <<>>]
    <3>1. CASE i <= h
      <4>1. (recv.data \o bytes)[i] = recv.data[i] /\ i \in DOMAIN recv.data
        BY <3>1, <1>1, <1>13, ConcatFacts
      <4> QED
        BY <4>1, <1>5 DEF Contents
    <3>2. CASE i > h
      <4>1. PICK j \in 1 .. k : j = i - h
        <5>1. h \in Nat /\ k \in Nat
          BY <1>1
        <5>2. i - h \in 1 .. k
          BY <5>1, <3>2
        <5> QED
          BY <5>2
      <4>2. (recv.data \o bytes)[i] = bytes[j] /\ h + j = i
        <5>1. i \in (h + 1) .. (h + k) /\ h + j = i
          BY <3>2, <4>1, <1>1
        <5>2. i - Len(recv.data) = j /\ i \in (Len(recv.data) + 1) .. (Len(recv.data) + Len(bytes))
          BY <5>1, <4>1, <1>13
        <5>3. (recv.data \o bytes)[i] = bytes[i - Len(recv.data)]
          BY <5>2, <1>1, <1>13, ConcatFacts
        <5> QED
          BY <5>1, <5>2, <5>3
      <4>3. bytes[j] = [part |-> "data", of |-> n, at |-> h + j, files |-> <<>>]
        BY <1>9, <1>13
      <4> QED
        BY <4>2, <4>3
    <3>3. i <= h \/ i > h
      BY <1>1
    <3> QED
      BY <3>1, <3>2, <3>3
  <2> QED
    BY <2>1, <2>2
<1>15. SuccInWire(k) = DataFrom(sent[n], n, h + k + 1)
  <2>1. Key(wire[k]) = Place("data", n, h + k) /\ wire[k].of = n
    BY <1>4, <1>6, <1>7
  <2> QED
    BY <2>1, SuccFacts DEF SuccInWire, After
<1>16. ASSUME NEW r, r = Take(k)
       PROVE  Begun(sent[n], r, n, SuccInWire(k))
  <2>1. r.header = recv.header /\ r.data = recv.data \o bytes /\ r.files = recv.files
    BY <1>11, <1>12, <1>16
  <2>2. Len(r.data) = h + k /\ DOMAIN r.data = 1 .. (h + k)
    BY <2>1, <1>14
  <2>3. Contents(r, n)
    BY <2>1, <2>2, <1>5, <1>14 DEF Contents
  <2>4. /\ Len(r.header) = kHeaderLength /\ r.header # <<>>
        /\ Len(r.files) = Initially(sent[n])
        /\ Initially(sent[n]) \in Nat /\ Initially(sent[n]) <= sent[n].files
    BY <2>1, <1>1, <1>2, <1>5, InitiallyFacts
  <2>5. CASE h + k < sent[n].data
    <3>1. SuccInWire(k) = Place("data", n, Len(r.data) + 1)
      BY <2>2, <2>5, <1>1, <1>2, <1>15 DEF DataFrom
    <3> QED
      BY <3>1, <2>2, <2>3, <2>4, <2>5, <1>1, <1>2 DEF Begun
  <2>6. CASE h + k = sent[n].data
    <3>1. SuccInWire(k) = PadFrom(sent[n], n, Len(r.files))
      BY <2>4, <2>6, <1>1, <1>2, <1>15 DEF DataFrom
    <3> QED
      BY <3>1, <2>2, <2>3, <2>4, <2>6, <1>1, <1>2 DEF Begun
  <2>7. h + k < sent[n].data \/ h + k = sent[n].data
    <3>1. h \in Nat /\ sent[n].data \in Nat /\ h + k <= sent[n].data
      BY <1>1, <1>2, <1>4
    <3> QED
      BY <3>1
  <2> QED
    BY <2>5, <2>6, <2>7
<1> QED
  BY <1>16

\* ... or more files.
LEMMA TakePad ==
  ASSUME StreamType, Wire, Header, NEW n \in DOMAIN sent, sent[n].data < SizeModulus,
         Begun(sent[n], recv, n, Key(wire[1])), Key(wire[1]) # Place("header", n + 1, 1),
         NEW k \in Nat, RecvMsg(k),
         HeaderComplete(recv), Len(recv.data) = sent[n].data
  PROVE  Begun(sent[n], Take(k), n, SuccInWire(k))
<1> DEFINE m == Len(recv.files)
           to == m + Chunk(sent[n], m)
           files == ReceivedFiles(k)
<1>1. /\ recv.header \in Seq(Byte) /\ recv.data \in Seq(Byte) /\ recv.files \in Seq(File)
      /\ m \in Nat /\ Len(recv.header) = kHeaderLength /\ kHeaderLength \in Nat \ {0}
  BY BufferFacts DEF HeaderComplete
<1>2. /\ n \in Nat /\ sent[n] \in Kind /\ sent[n].data \in Nat /\ sent[n].files \in Nat
  BY StreamFacts
<1>3. Announced = sent[n].data
  <2>1. 1 \in DOMAIN recv.header
    BY <1>1
  <2>2. recv.header[1].of = n
    BY <2>1, PlaceFacts DEF Begun, Contents
  <2> QED
    BY <2>2, <1>2, SmallRemainder, StreamAssumption
    DEF Announced, DeserializeHeader, SerializedSize
<1>4. k = 1 /\ 1 \in 1 .. Len(wire) /\ Cardinality(WithFiles(1)) <= 1
  <2>1. ~(Len(recv.data) < Announced)
    BY <1>2, <1>3
  <2>2. k = 1 /\ k \in 1 .. Len(wire) /\ Cardinality(WithFiles(k)) <= 1
    BY <2>1, RecvMsgFacts
  <2> QED
    BY <2>2
<1>5. /\ Contents(recv, n) /\ recv.header # <<>>
      /\ Initially(sent[n]) <= m /\ m <= sent[n].files
      /\ Key(wire[1]) = PadFrom(sent[n], n, m)
  BY <1>1 DEF Begun
<1>6. m < sent[n].files /\ Key(wire[1]) = Place("pad", n, m)
  BY <1>5 DEF PadFrom
<1>7. wire[1].part = "pad" /\ wire[1].of = n /\ wire[1].at = m /\ 1 \in DOMAIN wire
  BY <1>4, <1>6, PlaceFacts, StreamFacts
<1>8. wire[1].files = Files(n, m, to)
  BY <1>7 DEF Wire, ByteOK
<1>9. files = wire[1].files
  <2>1. \A j \in 1 .. 1 : j # 1 => wire[j].files = <<>>
    OBVIOUS
  <2>2. ReceivedFiles(1) = wire[1].files
    BY <1>4, <2>1, TakenFiles
  <2> QED
    BY <1>4, <2>2
<1>10. to \in Nat /\ m <= to /\ to <= sent[n].files
  <2>1. sent[n] \in Kind /\ m \in Nat /\ m <= sent[n].files /\ sent[n].files \in Nat
    BY <1>1, <1>2, <1>5
  <2>2. Chunk(sent[n], m) \in Nat /\ m + Chunk(sent[n], m) <= sent[n].files
    BY ONLY <2>1, ChunkFacts
  <2> QED
    BY <2>1, <2>2
<1>11. SuccInWire(k) = PadFrom(sent[n], n, to)
  <2>1. Key(wire[k]) = Place("pad", n, m) /\ wire[k].of = n
    BY <1>4, <1>6, <1>7
  <2> QED
    BY <2>1, SuccFacts DEF SuccInWire, After
<1> HIDE DEF to
<1>12. /\ recv.files \o files = Files(n, 0, to) /\ Len(Files(n, 0, to)) = to
  <2>1. recv.files = Files(n, 0, m)
    BY <1>5 DEF Contents
  <2>2. Files(n, 0, m) \o Files(n, m, to) = Files(n, 0, to)
    BY <1>1, <1>2, <1>10, FilesJoin
  <2>3. Len(Files(n, 0, to)) = to
    BY <1>2, <1>10, FilesFromFirst
  <2> QED
    BY <2>1, <2>2, <2>3, <1>8, <1>9
<1>13. Take(k) = [header |-> recv.header, data |-> recv.data, files |-> recv.files \o files]
  <2>1. ~(Len(recv.data) < Announced)
    BY <1>2, <1>3
  <2> QED
    BY <2>1, TakeFacts
<1>14. ASSUME NEW r, r = Take(k)
       PROVE  Begun(sent[n], r, n, SuccInWire(k))
  <2>1. r.header = recv.header /\ r.data = recv.data /\ r.files = Files(n, 0, to)
    BY <1>12, <1>13, <1>14
  <2>2. Len(r.files) = to
    BY <2>1, <1>12
  <2>3. Contents(r, n)
    BY <2>1, <2>2, <1>5 DEF Contents
  <2>4. Initially(sent[n]) \in Nat /\ Initially(sent[n]) <= to
    BY <1>1, <1>2, <1>5, <1>10, InitiallyFacts
  <2> QED
    BY <2>1, <2>2, <2>3, <2>4, <1>1, <1>2, <1>5, <1>10, <1>11 DEF Begun
<1> QED
  BY <1>14

\* However many bytes it takes, the receiver comes to the place after them.
LEMMA TakeAdvances ==
  ASSUME StreamType, Wire, Header, NEW n \in Nat \ {0}, Fits(sent, n),
         Waits(sent, recv, n, Key(wire[1])), NEW k \in Nat, RecvMsg(k)
  PROVE  n \in DOMAIN sent /\ Begun(sent[n], Take(k), n, SuccInWire(k))
<1>1. CASE ~HeaderComplete(recv)
  BY <1>1, TakeHeader
<1>2. CASE HeaderComplete(recv)
  <2>1. recv # NothingReceived
    BY <1>2, StreamAssumption DEF HeaderComplete, NothingReceived
  <2>2. /\ n \in DOMAIN sent /\ Begun(sent[n], recv, n, Key(wire[1]))
        /\ Key(wire[1]) # Place("header", n + 1, 1)
    BY <2>1 DEF Waits
  <2>3. sent[n].data < SizeModulus
    BY <2>2 DEF Fits
  <2>4. Len(recv.data) < sent[n].data \/ Len(recv.data) = sent[n].data
    <3>1. Len(recv.data) \in Nat /\ sent[n].data \in Nat /\ Len(recv.data) <= sent[n].data
      BY <2>2, BufferFacts, StreamFacts DEF Begun
    <3> QED
      BY <3>1
  <2> QED
    BY <1>2, <2>2, <2>3, <2>4, TakeData, TakePad
<1> QED
  BY <1>1, <1>2

\* What comes of it is of the right form even when the stream is out of step.
LEMMA TakeTypes ==
  ASSUME StreamType, Wire, Header, NEW k \in Nat, RecvMsg(k)
  PROVE  /\ Take(k) \in Buffers /\ Len(Take(k).header) <= kHeaderLength
         /\ \A i \in DOMAIN Take(k).header : Take(k).header[i].of \in DOMAIN sent
<1> DEFINE bytes == SubSeq(wire, 1, k)
           files == ReceivedFiles(k)
<1>1. /\ recv.header \in Seq(Byte) /\ recv.data \in Seq(Byte) /\ recv.files \in Seq(File)
      /\ Len(recv.header) \in Nat /\ Len(recv.header) <= kHeaderLength
      /\ kHeaderLength \in Nat \ {0}
  BY BufferFacts
<1>2. k \in 1 .. Len(wire) /\ Cardinality(WithFiles(k)) <= 1
  BY RecvMsgFacts
<1>3. bytes \in Seq(Byte) /\ Len(bytes) = k /\ \A i \in 1 .. k : bytes[i] = wire[i]
  <2>1. wire \in Seq(Byte) /\ k \in 0 .. Len(wire)
    BY <1>2 DEF StreamType
  <2> QED
    BY <2>1, SubSeqFacts
<1>4. recv.files \o files \in Seq(File)
  BY <1>1, <1>2, TakenFiles, ConcatFacts
<1>5. CASE ~HeaderComplete(recv)
  <2>1. Take(k) = [header |-> recv.header \o bytes, data |-> recv.data,
                   files |-> recv.files \o files]
    BY <1>5, TakeFacts
  <2>2. k <= kHeaderLength - Len(recv.header)
    BY <1>5, RecvMsgFacts
  <2>3. \A i \in 1 .. k : wire[i].of \in DOMAIN sent
    BY <1>2, StreamFacts DEF Wire
  <2> HIDE DEF bytes, files
  <2>4. recv.header \o bytes \in Seq(Byte) /\ Len(recv.header \o bytes) = Len(recv.header) + k
    <3>1. recv.header \in Seq(Byte) /\ bytes \in Seq(Byte) /\ Len(bytes) = k
      BY <1>1, <1>3
    <3> QED
      BY ONLY <3>1, ConcatFacts
  <2>5. ASSUME NEW i \in DOMAIN (recv.header \o bytes)
        PROVE  (recv.header \o bytes)[i].of \in DOMAIN sent
    <3>1. i \in 1 .. (Len(recv.header) + k)
      BY <2>4
    <3>2. CASE i <= Len(recv.header)
      <4>1. i \in DOMAIN recv.header /\ (recv.header \o bytes)[i] = recv.header[i]
        BY <3>1, <3>2, <1>1, <1>3, ConcatFacts
      <4> QED
        BY <4>1 DEF Header
    <3>3. CASE i > Len(recv.header)
      <4>1. i \in (Len(recv.header) + 1) .. (Len(recv.header) + Len(bytes))
        BY <3>1, <3>3, <1>1, <1>3
      <4>2. (recv.header \o bytes)[i] = bytes[i - Len(recv.header)]
        BY <4>1, <1>1, <1>3, ConcatFacts
      <4>3. i - Len(recv.header) \in 1 .. k
        BY <3>1, <3>3, <1>1
      <4> QED
        BY <4>2, <4>3, <1>3, <2>3
    <3> QED
      BY <3>1, <3>2, <3>3, <1>1
  <2>6. Len(recv.header \o bytes) <= kHeaderLength
    BY <2>2, <2>4, <1>1
  <2>7. Take(k).header = recv.header \o bytes
    BY <2>1
  <2>8. Take(k) \in Buffers
    BY <2>1, <2>4, <1>1, <1>4 DEF Buffers, files
  <2> QED
    BY <2>5, <2>6, <2>7, <2>8
<1>6. CASE HeaderComplete(recv) /\ Len(recv.data) < Announced
  <2>1. Take(k) = [header |-> recv.header, data |-> recv.data \o bytes,
                   files |-> recv.files \o files]
    BY <1>6, TakeFacts
  <2> HIDE DEF bytes, files
  <2>2. recv.data \o bytes \in Seq(Byte)
    BY <1>1, <1>3, ConcatFacts
  <2>3. Take(k).header = recv.header
    BY <2>1
  <2>4. Take(k) \in Buffers
    BY <2>1, <2>2, <1>1, <1>4 DEF Buffers, files
  <2> QED
    BY <2>3, <2>4, <1>1 DEF Header
<1>7. CASE HeaderComplete(recv) /\ ~(Len(recv.data) < Announced)
  <2>1. Take(k) = [header |-> recv.header, data |-> recv.data,
                   files |-> recv.files \o files]
    BY <1>7, TakeFacts
  <2> HIDE DEF files
  <2>2. Take(k).header = recv.header
    BY <2>1
  <2>3. Take(k) \in Buffers
    BY <2>1, <1>1, <1>4 DEF Buffers, files
  <2> QED
    BY <2>2, <2>3, <1>1 DEF Header
<1> QED
  BY <1>5, <1>6, <1>7

\* tryReceiveOne() asks for more while the message is incomplete ...
LEMMA MoreIsMissing ==
  ASSUME StreamType, NEW n \in DOMAIN sent, sent[n].data < SizeModulus,
         NEW r \in Buffers, Len(r.header) <= kHeaderLength, NEW next,
         Begun(sent[n], r, n, next), Outcome(r) = "more"
  PROVE  next # Place("header", n + 1, 1)
<1>1. /\ n \in Nat /\ sent[n].data \in Nat /\ sent[n].files \in Nat
      /\ kHeaderLength \in Nat \ {0}
  BY StreamFacts, StreamAssumption
<1>2. /\ r.header \in Seq(Byte) /\ r.data \in Seq(Byte) /\ r.files \in Seq(File)
      /\ Len(r.header) \in Nat /\ Len(r.data) \in Nat /\ Len(r.files) \in Nat
  <2>1. r.header \in Seq(Byte) /\ r.data \in Seq(Byte) /\ r.files \in Seq(File)
    BY DEF Buffers
  <2> QED
    BY <2>1
<1>3. CASE Len(r.header) < kHeaderLength
  <2>1. next = Place("header", n, Len(r.header) + 1)
    BY <1>3 DEF Begun
  <2> QED
    BY <2>1, <1>1 DEF Place
<1>4. CASE Len(r.header) = kHeaderLength
  <2>1. CASE Len(r.data) < sent[n].data
    <3>1. next = Place("data", n, Len(r.data) + 1)
      BY <1>4, <2>1 DEF Begun
    <3> QED
      BY <3>1 DEF Place
  <2>2. CASE Len(r.data) = sent[n].data
    <3>1. next = PadFrom(sent[n], n, Len(r.files))
      BY <1>4, <2>2 DEF Begun
    <3>2. r.header[1].of = n
      <4>1. 1 \in DOMAIN r.header
        BY <1>1, <1>2, <1>4
      <4> QED
        BY <4>1, PlaceFacts DEF Begun, Contents
    <3>3. /\ DeserializeHeader(r.header).dataSize = sent[n].data
          /\ DeserializeHeader(r.header).numFiles = sent[n].files
      BY <3>2, <1>1, SmallRemainder, StreamAssumption DEF DeserializeHeader, SerializedSize
    <3>4. HeaderComplete(r)
      BY <1>4 DEF HeaderComplete
    <3>5. Len(r.files) < sent[n].files
      BY <3>3, <3>4, <2>2, <1>1 DEF Outcome
    <3>6. next = Place("pad", n, Len(r.files))
      BY <3>1, <3>5 DEF PadFrom
    <3> QED
      BY <3>6 DEF Place
  <2>3. Len(r.data) < sent[n].data \/ Len(r.data) = sent[n].data
    <3>1. Len(r.data) <= sent[n].data
      BY DEF Begun
    <3> QED
      BY <3>1, <1>1, <1>2
  <2> QED
    BY <2>1, <2>2, <2>3
<1> QED
  BY <1>1, <1>2, <1>3, <1>4

\* ... and hands over a message that is the one sent.
LEMMA MessageIsWhole ==
  ASSUME StreamType, NEW n \in DOMAIN sent, sent[n].data < SizeModulus,
         NEW r \in Buffers, NEW next,
         Begun(sent[n], r, n, next), Outcome(r) = "message"
  PROVE  next = Place("header", n + 1, 1) /\ Message(r) = SentMessage(n)
<1>1. /\ n \in Nat /\ sent[n] \in Kind /\ sent[n].data \in Nat /\ sent[n].files \in Nat
      /\ kHeaderLength \in Nat \ {0}
  BY StreamFacts, StreamAssumption
<1>2. /\ r.header \in Seq(Byte) /\ r.data \in Seq(Byte) /\ r.files \in Seq(File)
      /\ Len(r.header) \in Nat /\ Len(r.data) \in Nat /\ Len(r.files) \in Nat
  <2>1. r.header \in Seq(Byte) /\ r.data \in Seq(Byte) /\ r.files \in Seq(File)
    BY DEF Buffers
  <2> QED
    BY <2>1
<1>3. Len(r.header) = kHeaderLength
  BY DEF Outcome, HeaderComplete
<1>4. r.header[1].of = n
  <2>1. 1 \in DOMAIN r.header
    BY <1>1, <1>2, <1>3
  <2> QED
    BY <2>1, PlaceFacts DEF Begun, Contents
<1>5. /\ DeserializeHeader(r.header).dataSize = sent[n].data
      /\ DeserializeHeader(r.header).numFiles = sent[n].files
  BY <1>4, <1>1, SmallRemainder, StreamAssumption DEF DeserializeHeader, SerializedSize
<1>6. ~(Len(r.data) < sent[n].data) /\ ~(Len(r.files) < sent[n].files)
  BY <1>5 DEF Outcome
<1>7. Len(r.data) = sent[n].data
  <2>1. Len(r.data) <= sent[n].data
    BY DEF Begun
  <2> QED
    BY <2>1, <1>1, <1>2, <1>6
<1>8. Len(r.files) = sent[n].files /\ next = PadFrom(sent[n], n, Len(r.files))
  <2>1. Len(r.files) <= sent[n].files /\ next = PadFrom(sent[n], n, Len(r.files))
    BY <1>3, <1>7 DEF Begun
  <2> QED
    BY <2>1, <1>1, <1>2, <1>6
<1>9. next = Place("header", n + 1, 1)
  BY <1>8, <1>1 DEF PadFrom
<1>10. r.files = Files(n, 0, sent[n].files)
  BY <1>8 DEF Begun, Contents
<1>11. r.data = SubSeq(Iov(n, sent[n]), kHeaderLength + 1, kHeaderLength + sent[n].data)
  <2> DEFINE iov == Iov(n, sent[n])
             d == SubSeq(iov, kHeaderLength + 1, Len(iov))
  <2>1. /\ iov \in Seq(Byte) /\ Len(iov) = kHeaderLength + sent[n].data
        /\ \A i \in 1 .. (kHeaderLength + sent[n].data) : ~(i <= kHeaderLength) =>
             iov[i] = [part |-> "data", of |-> n, at |-> i - kHeaderLength, files |-> <<>>]
    BY <1>1, IovFacts DEF Total
  <2> HIDE DEF iov
  <2>2. kHeaderLength \in 0 .. Len(iov) /\ Len(iov) - kHeaderLength = sent[n].data
    BY <2>1, <1>1
  <2>3. /\ d \in Seq(Byte) /\ Len(d) = sent[n].data
        /\ \A i \in 1 .. sent[n].data : d[i] = iov[kHeaderLength + i]
    <3>1. kHeaderLength \in 0 .. Len(iov) /\ iov \in Seq(Byte)
      BY <2>1, <2>2
    <3>2. /\ d \in Seq(Byte) /\ Len(d) = Len(iov) - kHeaderLength
          /\ \A i \in 1 .. (Len(iov) - kHeaderLength) : d[i] = iov[kHeaderLength + i]
      BY ONLY <3>1, SubSeqFacts
    <3> QED
      BY ONLY <3>2, <2>2
  <2> HIDE DEF d
  <2>4. ASSUME NEW i \in 1 .. Len(r.data)
        PROVE  r.data[i] = d[i]
    <3>1. PICK j \in 1 .. (kHeaderLength + sent[n].data) : j = kHeaderLength + i
      BY <1>1, <1>7
    <3>2. ~(j <= kHeaderLength) /\ j - kHeaderLength = i
      BY <3>1, <1>1
    <3>3. iov[j] = [part |-> "data", of |-> n, at |-> i, files |-> <<>>]
      BY <3>2, <2>1
    <3>4. r.data[i] = [part |-> "data", of |-> n, at |-> i, files |-> <<>>]
      BY <1>2 DEF Begun, Contents
    <3> QED
      BY <3>1, <3>3, <3>4, <2>3, <1>7
  <2>5. r.data = d
    BY <2>3, <2>4, <1>2, <1>7, SameSequence
  <2> QED
    BY <2>1, <2>5 DEF d, iov
<1> QED
  BY <1>9, <1>10, <1>11 DEF Message, SentMessage

\* The wire without the first k bytes.
LEMMA WireTaken ==
  ASSUME StreamType, Wire, NEW k \in 1 .. Len(wire),
         wire' \in Seq(Byte), Len(wire') = Len(wire) - k,
         \A i \in 1 .. (Len(wire) - k) : wire'[i] = wire[k + i],
         UNCHANGED <<sent, sendQueue, peerClosed>>
  PROVE  /\ wire' \in Seq(Byte) /\ Len(wire') <= WireCapacity /\ Wire'
         /\ ~AtEof' => Following' = SuccInWire(k)
<1>1. /\ wire \in Seq(Byte) /\ Len(wire) \in Nat /\ DOMAIN wire = 1 .. Len(wire)
      /\ Len(wire) <= WireCapacity /\ WireCapacity \in Nat
  BY StreamFacts, StreamAssumption DEF StreamType
<1>2. /\ wire' \in Seq(Byte) /\ Len(wire') = Len(wire) - k
      /\ \A i \in 1 .. (Len(wire) - k) : wire'[i] = wire[k + i]
  OBVIOUS
<1>3. DOMAIN wire' = 1 .. (Len(wire) - k) /\ Len(wire') <= WireCapacity
  BY <1>1, <1>2
<1>4. sent' = sent /\ peerClosed' = peerClosed /\ NextSent' = NextSent
  BY DEF NextSent
<1>5. \A i \in 1 .. (Len(wire) - k) : k + i \in DOMAIN wire
  BY <1>1
<1>6. /\ \A i \in DOMAIN wire : wire[i].of \in DOMAIN sent /\ ByteOK(sent[wire[i].of], wire[i])
      /\ \A i \in 1 .. (Len(wire) - 1) : Key(wire[i + 1]) = After(sent, wire[i])
      /\ wire # <<>> /\ ~peerClosed => NextSent = After(sent, wire[Len(wire)])
  BY DEF Wire, SuccInWire
<1>7. \A i \in DOMAIN wire' :
        wire'[i].of \in DOMAIN sent /\ ByteOK(sent[wire'[i].of], wire'[i])
  BY <1>2, <1>3, <1>5, <1>6
<1>8. ASSUME NEW i \in 1 .. (Len(wire') - 1)
      PROVE  Key(wire'[i + 1]) = After(sent, wire'[i])
  <2>1. PICK j \in 1 .. (Len(wire) - 1) : j = k + i
    <3>1. k + i \in 1 .. (Len(wire) - 1)
      BY <1>1, <1>2
    <3> QED
      BY <3>1
  <2>2. /\ i \in 1 .. (Len(wire) - k) /\ i + 1 \in 1 .. (Len(wire) - k)
        /\ k + (i + 1) = j + 1
    BY <2>1, <1>1, <1>2
  <2>3. wire'[i + 1] = wire[k + (i + 1)] /\ wire'[i] = wire[k + i]
    BY <2>2, <1>2
  <2>4. wire'[i + 1] = wire[j + 1] /\ wire'[i] = wire[j]
    BY <2>1, <2>2, <2>3
  <2> QED
    BY <2>4, <1>6
<1>9. ASSUME wire' # <<>>, ~peerClosed
      PROVE  NextSent = After(sent, wire'[Len(wire')])
  <2>1. PICK m \in 1 .. (Len(wire) - k) : m = Len(wire') /\ k + m = Len(wire) /\ wire # <<>>
    <3>1. Len(wire') # 0 /\ wire # <<>>
      BY <1>1, <1>2, <1>9
    <3>2. Len(wire') \in 1 .. (Len(wire) - k) /\ k + Len(wire') = Len(wire)
      BY <3>1, <1>1, <1>2
    <3> QED
      BY <3>1, <3>2
  <2>2. wire'[m] = wire[k + m]
    BY <1>2
  <2>3. wire'[Len(wire')] = wire[Len(wire)]
    BY <2>1, <2>2
  <2> QED
    BY <2>1, <2>3, <1>6, <1>9
<1>10. Wire'
  <2>1. \A i \in 1 .. (Len(wire') - 1) : Key(wire'[i + 1]) = After(sent, wire'[i])
    BY <1>8
  <2>2. wire' # <<>> /\ ~peerClosed => NextSent = After(sent, wire'[Len(wire')])
    BY <1>9
  <2> QED
    BY ONLY <1>4, <1>7, <2>1, <2>2 DEF Wire, SuccInWire
<1>11. ASSUME ~AtEof'
       PROVE  Following' = After(sent, wire[k])
  <2>1. CASE wire' = <<>>
    <3>1. k = Len(wire) /\ wire # <<>> /\ ~peerClosed
      <4>1. Len(wire') = 0
        BY <2>1
      <4> QED
        BY <4>1, <2>1, <1>1, <1>2, <1>4, <1>11 DEF AtEof
    <3>2. NextSent = After(sent, wire[k])
      BY <3>1, <1>6
    <3> QED
      BY <2>1, <3>2, <1>4 DEF Following
  <2>2. CASE wire' # <<>>
    <3>1. 1 \in 1 .. (Len(wire) - k) /\ k \in 1 .. (Len(wire) - 1)
      <4>1. Len(wire') # 0
        BY <2>2, <1>2
      <4> QED
        BY <4>1, <1>1, <1>2
    <3>2. wire'[1] = wire[k + 1]
      BY <3>1, <1>2
    <3>3. Key(wire[k + 1]) = After(sent, wire[k])
      BY <3>1, <1>6
    <3> QED
      BY <2>2, <3>2, <3>3 DEF Following
  <2> QED
    BY <2>1, <2>2
<1> QED
  BY <1>2, <1>3, <1>10, <1>11 DEF SuccInWire

-----------------------------------------------------------------------------
(* The stream: one step at a time *)

LEMMA Parts ==
  ASSUME StreamInv
  PROVE  /\ StreamType /\ Sender /\ Wire /\ Header /\ Receiver /\ Delivered
         /\ Current \in Nat \ {0} /\ Len(received) \in Nat
BY StreamFacts DEF StreamInv, Current

\* What all recvmsg() calls have in common.
LEMMA WireAfter ==
  ASSUME StreamInv, NEW k \in Nat, ReceivePart(k), UNCHANGED <<sent, sendQueue, peerClosed>>
  PROVE  /\ wire' \in Seq(Byte) /\ Len(wire') <= WireCapacity /\ Wire' /\ Sender'
         /\ ~AtEof' => Following' = SuccInWire(k)
         /\ split' \in BOOLEAN /\ RecvMsg(k) /\ k \in 1 .. Len(wire)
<1>1. StreamType /\ Sender /\ Wire /\ Header
  BY Parts
<1>2. RecvMsg(k) /\ wire' = SubSeq(wire, k + 1, Len(wire)) /\ split' \in BOOLEAN
  BY DEF ReceivePart
<1>3. k \in 1 .. Len(wire)
  BY <1>1, <1>2, RecvMsgFacts
<1>4. /\ wire' \in Seq(Byte) /\ Len(wire') = Len(wire) - k
      /\ \A i \in 1 .. (Len(wire) - k) : wire'[i] = wire[k + i]
  <2>1. wire \in Seq(Byte) /\ k \in 0 .. Len(wire)
    BY <1>1, <1>3 DEF StreamType
  <2> QED
    BY <1>2, <2>1, SubSeqFacts
<1>5. /\ Len(wire') <= WireCapacity /\ Wire'
      /\ ~AtEof' => Following' = SuccInWire(k)
  BY <1>1, <1>3, <1>4, WireTaken
<1>6. Sender'
  BY <1>1 DEF Sender
<1> QED
  BY <1>2, <1>3, <1>4, <1>5, <1>6

\* In step, the receiver waited for the first byte of the wire.
LEMMA Waited ==
  ASSUME StreamInv, socket, wire # <<>>, Fits(sent, Current)
  PROVE  Waits(sent, recv, Current, Key(wire[1]))
<1>1. ~AtEof /\ Following = Key(wire[1])
  BY DEF AtEof, Following
<1> QED
  BY <1>1, Parts DEF Receiver

LEMMA StreamReceiveMore ==
  ASSUME StreamInv, socket, NEW k \in Nat, ReceivePart(k), Outcome(Take(k)) = "more",
         recv' = Take(k), UNCHANGED <<sent, sendQueue, peerClosed, received, socket>>
  PROVE  StreamInv'
<1>1. StreamType /\ Sender /\ Wire /\ Header /\ Receiver /\ Delivered /\ Current \in Nat \ {0}
  BY Parts
<1>2. /\ wire' \in Seq(Byte) /\ Len(wire') <= WireCapacity /\ Wire' /\ Sender'
      /\ ~AtEof' => Following' = SuccInWire(k)
      /\ split' \in BOOLEAN /\ RecvMsg(k) /\ k \in 1 .. Len(wire)
  BY WireAfter
<1>3. /\ Take(k) \in Buffers /\ Len(Take(k).header) <= kHeaderLength
      /\ \A i \in DOMAIN Take(k).header : Take(k).header[i].of \in DOMAIN sent
  BY <1>1, <1>2, TakeTypes
<1>4. StreamType'
  BY <1>1, <1>2, <1>3 DEF StreamType
<1>5. Header'
  BY <1>3 DEF Header
<1>6. Delivered'
  BY <1>1 DEF Delivered, SentMessage
<1>7. Receiver'
  <2>1. Current' = Current /\ sent' = sent
    BY DEF Current
  <2> SUFFICES ASSUME Fits(sent, Current), ~AtEof'
               PROVE  Waits(sent, Take(k), Current, SuccInWire(k))
    BY <2>1, <1>2 DEF Receiver
  <2>2. wire # <<>>
    BY <1>1, <1>2, StreamFacts
  <2>3. Waits(sent, recv, Current, Key(wire[1]))
    BY <2>2, Waited
  <2>4. Current \in DOMAIN sent /\ Begun(sent[Current], Take(k), Current, SuccInWire(k))
    BY <2>3, <1>1, <1>2, TakeAdvances
  <2>5. sent[Current].data < SizeModulus
    BY <2>4, <1>1 DEF Fits
  <2>6. SuccInWire(k) # Place("header", Current + 1, 1)
    BY <2>4, <2>5, <1>1, <1>3, MoreIsMissing
  <2> QED
    BY <2>4, <2>6 DEF Waits
<1> QED
  BY <1>2, <1>4, <1>5, <1>6, <1>7 DEF StreamInv

LEMMA StreamReceiveMessage ==
  ASSUME StreamInv, socket, NEW k \in Nat, ReceivePart(k), Outcome(Take(k)) = "message",
         received' = Append(received, Message(Take(k))), recv' = NothingReceived,
         UNCHANGED <<sent, sendQueue, peerClosed, socket>>
  PROVE  StreamInv' /\ Len(received') = Len(received) + 1
<1>1. StreamType /\ Sender /\ Wire /\ Header /\ Receiver /\ Delivered /\ Current \in Nat \ {0}
  BY Parts
<1>2. /\ wire' \in Seq(Byte) /\ Len(wire') <= WireCapacity /\ Wire' /\ Sender'
      /\ ~AtEof' => Following' = SuccInWire(k)
      /\ split' \in BOOLEAN /\ RecvMsg(k) /\ k \in 1 .. Len(wire)
  BY WireAfter
<1>3. Take(k) \in Buffers
  BY <1>1, <1>2, TakeTypes
<1>4. Message(Take(k)) \in Contained
  BY <1>3 DEF Message, Contained, Buffers
<1>5. /\ received' \in Seq(Contained) /\ Len(received') = Current
      /\ DOMAIN received' = 1 .. Current /\ received'[Current] = Message(Take(k))
      /\ \A n \in DOMAIN received : received'[n] = received[n]
      /\ \A n \in DOMAIN received' : n = Current \/ n \in DOMAIN received
  <2>1. received \in Seq(Contained)
    BY <1>1 DEF StreamType
  <2> QED
    BY <2>1, <1>4 DEF Current
<1>6. /\ NothingReceived \in Buffers /\ Len(NothingReceived.header) <= kHeaderLength
      /\ DOMAIN NothingReceived.header = {}
  BY StreamAssumption DEF NothingReceived, Buffers
<1>7. StreamType'
  BY <1>1, <1>2, <1>5, <1>6 DEF StreamType
<1>8. Header'
  BY <1>6 DEF Header
<1>9. ASSUME Fits(sent, Current)
      PROVE  /\ Current \in DOMAIN sent
             /\ SuccInWire(k) = Place("header", Current + 1, 1)
             /\ Message(Take(k)) = SentMessage(Current)
  <2>1. wire # <<>>
    BY <1>1, <1>2, StreamFacts
  <2>2. Waits(sent, recv, Current, Key(wire[1]))
    BY <2>1, <1>9, Waited
  <2>3. Current \in DOMAIN sent /\ Begun(sent[Current], Take(k), Current, SuccInWire(k))
    BY <2>2, <1>1, <1>2, <1>9, TakeAdvances
  <2>4. sent[Current].data < SizeModulus
    BY <2>3, <1>1, <1>9 DEF Fits
  <2> QED
    BY <2>3, <2>4, <1>1, <1>3, MessageIsWhole
<1>10. \A n : SentMessage(n)' = SentMessage(n)
  BY DEF SentMessage
<1>11. Delivered'
  <2> SUFFICES ASSUME NEW n \in DOMAIN received', Fits(sent, n)
               PROVE  n \in DOMAIN sent /\ received'[n] = SentMessage(n)
    BY <1>10 DEF Delivered
  <2>1. CASE n = Current
    BY <2>1, <1>5, <1>9
  <2>2. CASE n \in DOMAIN received
    BY <2>2, <1>1, <1>5 DEF Delivered
  <2> QED
    BY <2>1, <2>2, <1>5
<1>12. Receiver'
  <2>1. Current' = Current + 1 /\ sent' = sent
    BY <1>5 DEF Current
  <2>2. Fits(sent, Current + 1) => Fits(sent, Current)
    BY <1>1 DEF Fits
  <2> SUFFICES ASSUME Fits(sent, Current + 1), ~AtEof'
               PROVE  Waits(sent, NothingReceived, Current + 1, SuccInWire(k))
    BY <2>1, <1>2 DEF Receiver
  <2> QED
    BY <2>2, <1>9 DEF Waits
<1> QED
  BY <1>2, <1>5, <1>7, <1>8, <1>11, <1>12 DEF StreamInv, Current

LEMMA StreamSame ==
  ASSUME StreamInv, UNCHANGED streamVars, socket' => socket
  PROVE  StreamInv'
<1>1. /\ sent' = sent /\ sendQueue' = sendQueue /\ wire' = wire /\ peerClosed' = peerClosed
      /\ recv' = recv /\ received' = received /\ split' = split
  BY DEF streamVars, senderVars
<1>2. StreamType /\ Sender /\ Wire /\ Header /\ Receiver /\ Delivered
  BY Parts
<1>3. StreamType' /\ Sender' /\ Header'
  BY <1>1, <1>2 DEF StreamType, Sender, Header
<1>4. NextSent' = NextSent /\ Current' = Current
  BY <1>1 DEF NextSent, Current
<1>5. Wire'
  BY <1>1, <1>2, <1>4 DEF Wire, SuccInWire
<1>6. Receiver'
  BY <1>1, <1>2, <1>4 DEF Receiver, AtEof, Following
<1>7. Delivered'
  BY <1>1, <1>2 DEF Delivered, SentMessage
<1> QED
  BY <1>3, <1>5, <1>6, <1>7 DEF StreamInv

LEMMA StreamReceiveBad ==
  ASSUME StreamInv, NEW k \in Nat, ReceivePart(k), socket' = FALSE,
         UNCHANGED <<sent, sendQueue, peerClosed, recv, received>>
  PROVE  StreamInv'
<1>1. StreamType /\ Sender /\ Wire /\ Header /\ Receiver /\ Delivered
  BY Parts
<1>2. /\ wire' \in Seq(Byte) /\ Len(wire') <= WireCapacity /\ Wire' /\ Sender'
      /\ split' \in BOOLEAN
  BY WireAfter
<1>3. StreamType' /\ Header'
  BY <1>1, <1>2 DEF StreamType, Header
<1>4. Receiver'
  BY DEF Receiver
<1>5. Delivered'
  BY <1>1 DEF Delivered, SentMessage
<1> QED
  BY <1>2, <1>3, <1>4, <1>5 DEF StreamInv

LEMMA StreamPeerCloses ==
  ASSUME StreamInv, ClosePeer, UNCHANGED <<wire, recv, received, split, socket>>
  PROVE  StreamInv'
<1>1. StreamType /\ Sender /\ Wire /\ Header /\ Receiver /\ Delivered
  BY Parts
<1>2. ~peerClosed /\ peerClosed' = TRUE /\ sendQueue' = <<>> /\ sent' = sent
  BY DEF ClosePeer
<1>3. StreamType' /\ Header'
  <2>1. <<>> \in Seq(Entry)
    OBVIOUS
  <2> QED
    BY <1>1, <1>2, <2>1 DEF StreamType, Header
<1>4. Sender'
  <2>1. Len(sendQueue') = 0 /\ DOMAIN sendQueue' = {} /\ Len(sent) \in Nat
    BY <1>1, <1>2, StreamFacts
  <2> QED
    BY <1>2, <2>1 DEF Sender
<1>5. Wire'
  BY <1>1, <1>2 DEF Wire, SuccInWire
<1>6. Receiver'
  BY <1>1, <1>2 DEF Receiver, AtEof, Following, Current
<1>7. Delivered'
  BY <1>1, <1>2 DEF Delivered, SentMessage
<1> QED
  BY <1>3, <1>4, <1>5, <1>6, <1>7 DEF StreamInv

\* A new connection.
LEMMA StreamFresh ==
  ASSUME sendQueue = <<>>, wire = <<>>, peerClosed = FALSE, recv = NothingReceived,
         sent = <<>>, received = <<>>, split \in BOOLEAN
  PROVE  StreamInv
<1>1. /\ NothingReceived \in Buffers /\ Len(NothingReceived.header) <= kHeaderLength
      /\ DOMAIN NothingReceived.header = {}
  BY StreamAssumption DEF NothingReceived, Buffers
<1>2. /\ Len(sent) = 0 /\ Len(wire) = 0 /\ Len(received) = 0 /\ Len(sendQueue) = 0
      /\ DOMAIN sent = {} /\ DOMAIN wire = {} /\ DOMAIN received = {} /\ DOMAIN sendQueue = {}
  OBVIOUS
<1>3. StreamType
  <2>1. /\ <<>> \in Seq(Kind) /\ <<>> \in Seq(Entry) /\ <<>> \in Seq(Byte)
        /\ <<>> \in Seq(Contained)
    OBVIOUS
  <2>2. 0 <= MaxSends /\ 0 <= WireCapacity
    BY StreamAssumption
  <2> QED
    BY <1>1, <1>2, <2>1, <2>2 DEF StreamType
<1>4. Sender /\ Header
  BY <1>1, <1>2 DEF Sender, Header
<1>5. Wire
  BY <1>2 DEF Wire
<1>6. Receiver
  BY <1>2 DEF Receiver, Waits, Following, NextSent, Current
<1>7. Delivered
  BY <1>2 DEF Delivered
<1> QED
  BY <1>3, <1>4, <1>5, <1>6, <1>7 DEF StreamInv

-----------------------------------------------------------------------------
(* The stream: the sender *)

\* An entry of which nothing has been sent.
LEMMA FreshEntry ==
  ASSUME NEW n \in Nat, NEW kind \in Kind, NEW e, e = SendQueueEntry(n, kind)
  PROVE  /\ e \in Entry /\ e.of = n /\ HeadOK(kind, e)
         /\ EntryPlace(e) = Place("header", n, 1)
<1>1. /\ Iov(n, kind) \in Seq(Byte) /\ Len(Iov(n, kind)) = Total(kind)
      /\ Total(kind) \in Nat \ {0}
      /\ 1 <= kHeaderLength => Iov(n, kind)[1] =
           [part |-> "header", of |-> n, at |-> 1, files |-> <<>>]
  <2>1. Total(kind) \in Nat \ {0}
    BY IovFacts
  <2>2. 1 \in 1 .. Total(kind)
    BY <2>1
  <2> QED
    BY <2>2, IovFacts
<1>2. e.of = n /\ e.iov = Iov(n, kind) /\ e.first = TRUE /\ e.filesSent = 0
  BY DEF SendQueueEntry
<1>3. e \in Entry
  BY <1>1 DEF SendQueueEntry, Entry
<1>4. HeadOK(kind, e)
  <2>1. Len(e.iov) = Total(kind) /\ Total(kind) - Len(e.iov) = 0 /\ e.iov # <<>>
    BY <1>1, <1>2
  <2>2. \A i \in 1 .. Len(e.iov) : 0 + i = i
    BY <2>1, <1>1
  <2>3. \A i \in 1 .. Len(e.iov) : e.iov[i] = Iov(n, kind)[Total(kind) - Len(e.iov) + i]
    <3> SUFFICES ASSUME NEW i \in 1 .. Len(e.iov)
                 PROVE  e.iov[i] = Iov(n, kind)[Total(kind) - Len(e.iov) + i]
      OBVIOUS
    <3>1. Total(kind) - Len(e.iov) + i = i
      BY <2>1, <2>2
    <3> QED
      BY <3>1, <1>2
  <2>4. Len(e.iov) <= Total(kind)
    BY <2>1, <1>1
  <2> QED
    BY <1>2, <2>1, <2>3, <2>4 DEF HeadOK
<1>5. EntryPlace(e) = Place("header", n, 1)
  <2>1. e.iov # <<>> /\ 1 <= kHeaderLength
    BY <1>1, <1>2, StreamAssumption
  <2> QED
    BY <1>1, <1>2, <2>1 DEF EntryPlace, Key, Place
<1> QED
  BY <1>2, <1>3, <1>4, <1>5

LEMMA StreamSend ==
  ASSUME StreamInv, NEW kind \in Kinds, EnqueueMessage(kind),
         UNCHANGED <<wire, peerClosed, recv, received, split, socket>>
  PROVE  StreamInv'
<1> DEFINE e == SendQueueEntry(Len(sent) + 1, kind)
<1>1. StreamType /\ Sender /\ Wire /\ Header /\ Receiver /\ Delivered
  BY Parts
<1>2. ~peerClosed /\ Len(sent) < MaxSends /\ sent' = Append(sent, kind)
      /\ sendQueue' = Append(sendQueue, e)
  BY DEF EnqueueMessage
<1>3. kind \in Kind /\ MaxSends \in Nat
  BY StreamAssumption DEF Kind
<1>4. /\ Len(sent) \in Nat /\ DOMAIN sent = 1 .. Len(sent)
      /\ Len(sendQueue) \in Nat /\ DOMAIN sendQueue = 1 .. Len(sendQueue)
      /\ sent \in Seq(Kind) /\ sendQueue \in Seq(Entry)
  BY <1>1, StreamFacts DEF StreamType
<1>5. /\ e \in Entry /\ e.of = Len(sent) + 1 /\ HeadOK(kind, e)
      /\ EntryPlace(e) = Place("header", Len(sent) + 1, 1)
  BY <1>3, <1>4, FreshEntry
<1>6. PICK c \in Nat : c = Len(sent) + 1 /\ e = SendQueueEntry(c, kind)
  BY <1>4
<1> HIDE DEF e
<1>7. /\ sent' \in Seq(Kind) /\ Len(sent') = Len(sent) + 1 /\ Len(sent') <= MaxSends
      /\ DOMAIN sent' = 1 .. (Len(sent) + 1)
      /\ \A n \in DOMAIN sent : n \in DOMAIN sent' /\ sent'[n] = sent[n]
      /\ sent'[Len(sent) + 1] = kind
  BY <1>2, <1>3, <1>4
<1>8. /\ sendQueue' \in Seq(Entry) /\ Len(sendQueue') = Len(sendQueue) + 1
      /\ DOMAIN sendQueue' = 1 .. (Len(sendQueue) + 1) /\ sendQueue' # <<>>
      /\ \A k \in DOMAIN sendQueue : sendQueue'[k] = sendQueue[k]
      /\ sendQueue'[Len(sendQueue) + 1] = e
  <2>1. sendQueue' = Append(sendQueue, e) /\ sendQueue \in Seq(Entry) /\ e \in Entry
    BY <1>2, <1>4, <1>5
  <2> QED
    BY ONLY <2>1, SMTT(30)
<1>9. StreamType'
  BY <1>1, <1>7, <1>8 DEF StreamType
<1>10. Header'
  BY <1>1, <1>7 DEF Header
<1>11. Sender'
  <2>1. \A k \in DOMAIN sendQueue :
          sendQueue[k].of = Len(sent) - Len(sendQueue) + k /\ sendQueue[k].of \in DOMAIN sent
    BY <1>1, <1>4 DEF Sender
  <2>2. Len(sendQueue') <= Len(sent')
    BY <1>1, <1>4, <1>7, <1>8 DEF Sender
  <2>3. ASSUME NEW k \in DOMAIN sendQueue'
        PROVE  /\ sendQueue'[k].of = Len(sent') - Len(sendQueue') + k
               /\ k > 1 => sendQueue'[k] = SendQueueEntry(sendQueue'[k].of, sent'[sendQueue'[k].of])
    <3>1. CASE k \in DOMAIN sendQueue
      <4>1. sendQueue'[k] = sendQueue[k] /\ sent'[sendQueue[k].of] = sent[sendQueue[k].of]
        BY <3>1, <2>1, <1>7, <1>8
      <4>2. Len(sent') - Len(sendQueue') + k = Len(sent) - Len(sendQueue) + k
        BY <3>1, <1>4, <1>7, <1>8
      <4> QED
        BY <3>1, <4>1, <4>2, <2>1, <1>1 DEF Sender
    <3>2. CASE k = Len(sendQueue) + 1
      <4>1. sendQueue'[k] = e /\ sent'[e.of] = kind /\ e = SendQueueEntry(e.of, kind)
        BY <3>2, <1>5, <1>6, <1>7, <1>8
      <4>2. Len(sent') - Len(sendQueue') + k = Len(sent) + 1
        BY <3>2, <1>4, <1>7, <1>8
      <4> QED
        BY <4>1, <4>2, <1>5
    <3> QED
      BY <3>1, <3>2, <1>4, <1>8
  <2>4. HeadOK(sent'[sendQueue'[1].of], sendQueue'[1])
    <3>1. CASE sendQueue = <<>>
      <4>1. Len(sendQueue) + 1 = 1
        BY <3>1
      <4>2. sendQueue'[1] = e /\ sent'[e.of] = kind
        BY <4>1, <1>5, <1>7, <1>8
      <4> QED
        BY <4>2, <1>5
    <3>2. CASE sendQueue # <<>>
      <4>1. 1 \in DOMAIN sendQueue
        BY <3>2, <1>4
      <4>2. sendQueue'[1] = sendQueue[1] /\ sent'[sendQueue[1].of] = sent[sendQueue[1].of]
        BY <4>1, <2>1, <1>7, <1>8
      <4> QED
        BY <3>2, <4>2, <1>1 DEF Sender
    <3> QED
      BY <3>1, <3>2
  <2> QED
    BY <2>2, <2>3, <2>4, <1>2 DEF Sender
<1>12. NextSent' = NextSent
  <2>1. CASE sendQueue = <<>>
    <3>1. Len(sendQueue) + 1 = 1
      BY <2>1
    <3>2. sendQueue'[1] = e
      BY <3>1, <1>8
    <3> QED
      BY <2>1, <3>2, <1>5, <1>8 DEF NextSent
  <2>2. CASE sendQueue # <<>>
    <3>1. 1 \in DOMAIN sendQueue
      BY <2>2, <1>4
    <3> QED
      BY <2>2, <3>1, <1>8 DEF NextSent
  <2> QED
    BY <2>1, <2>2
<1>13. \A i \in DOMAIN wire : /\ wire[i].of \in DOMAIN sent'
                              /\ sent'[wire[i].of] = sent[wire[i].of]
                              /\ After(sent', wire[i]) = After(sent, wire[i])
  BY <1>1, <1>7 DEF Wire, After
<1>14. Wire'
  <2>1. DOMAIN wire = 1 .. Len(wire) /\ Len(wire) \in Nat
    BY <1>1, StreamFacts
  <2>2. \A i \in DOMAIN wire : ByteOK(sent'[wire[i].of], wire[i])
    BY <1>1, <1>13 DEF Wire
  <2>3. \A i \in 1 .. (Len(wire) - 1) : Key(wire[i + 1]) = After(sent', wire[i])
    BY <2>1, <1>1, <1>13 DEF Wire, SuccInWire
  <2>4. wire # <<>> => Len(wire) \in DOMAIN wire
    BY <1>1, <2>1 DEF StreamType
  <2>5. wire # <<>> /\ ~peerClosed => NextSent = After(sent', wire[Len(wire)])
    BY <2>4, <1>1, <1>13 DEF Wire, SuccInWire
  <2> QED
    BY <2>2, <2>3, <2>5, <1>12, <1>13 DEF Wire, SuccInWire
<1>15. \A n \in Nat : Fits(sent', n) => Fits(sent, n)
  BY <1>7 DEF Fits
<1>16. Receiver'
  <2>1. Current' = Current /\ Following' = Following /\ AtEof' = AtEof /\ Current \in Nat
    BY <1>12, Parts DEF Current, Following, AtEof
  <2>2. Waits(sent, recv, Current, Following) => Waits(sent', recv, Current, Following)
    BY <1>7 DEF Waits
  <2> QED
    BY <2>1, <2>2, <1>1, <1>15 DEF Receiver
<1>17. Delivered'
  <2>1. \A n \in DOMAIN received : n \in Nat
    BY <1>1, StreamFacts
  <2>2. \A n \in DOMAIN sent : SentMessage(n)' = SentMessage(n)
    BY <1>7 DEF SentMessage
  <2> QED
    BY <2>1, <2>2, <1>1, <1>7, <1>15 DEF Delivered
<1> QED
  BY <1>9, <1>10, <1>11, <1>14, <1>16, <1>17 DEF StreamInv

\* The bytes x of a sendmsg() continue entry e, and `next` continues them.
Carries(kind, e, x, next) ==
  /\ x \in Seq(Byte) /\ x # <<>>
  /\ \A i \in DOMAIN x : x[i].of = e.of /\ ByteOK(kind, x[i])
  /\ Key(x[1]) = EntryPlace(e)
  /\ \A i \in 1 .. (Len(x) - 1) : Key(x[i + 1]) = Succ(kind, Key(x[i]))
  /\ next \in Entry /\ next.of = e.of
  /\ IF next.iov = <<>> /\ next.filesSent = kind.files
     THEN Succ(kind, Key(x[Len(x)])) = Place("header", e.of + 1, 1)
     ELSE HeadOK(kind, next) /\ Succ(kind, Key(x[Len(x)])) = EntryPlace(next)

\* The place of the j-th byte of header and data.
Spot(n, j) ==
  IF j <= kHeaderLength THEN Place("header", n, j) ELSE Place("data", n, j - kHeaderLength)

LEMMA NoMore ==
  ASSUME NEW k \in Nat, NEW d \in Nat, k = k + d
  PROVE  ~(1 <= d)
OBVIOUS

LEMMA IovNoFiles ==
  ASSUME NEW n \in Nat, NEW kind \in Kind, NEW j \in 1 .. Total(kind)
  PROVE  Iov(n, kind)[j].files = <<>>
<1>1. CASE j <= kHeaderLength
  <2>1. Iov(n, kind)[j] = [part |-> "header", of |-> n, at |-> j, files |-> <<>>]
    BY <1>1, IovFacts
  <2> QED
    BY <2>1
<1>2. CASE ~(j <= kHeaderLength)
  <2>1. Iov(n, kind)[j] = [part |-> "data", of |-> n, at |-> j - kHeaderLength, files |-> <<>>]
    BY <1>2, IovFacts
  <2> QED
    BY <2>1
<1> QED
  BY <1>1, <1>2

LEMMA SpotFacts ==
  ASSUME NEW n \in Nat, NEW kind \in Kind, NEW j \in 1 .. Total(kind)
  PROVE  /\ Key(Iov(n, kind)[j]) = Spot(n, j)
         /\ j < Total(kind) => Succ(kind, Spot(n, j)) = Spot(n, j + 1)
         /\ j = Total(kind) => Succ(kind, Spot(n, j)) = PadFrom(kind, n, Initially(kind))
<1>1. /\ kHeaderLength \in Nat \ {0} /\ kind.data \in Nat
      /\ Total(kind) = kHeaderLength + kind.data
  BY StreamAssumption DEF Kind, Total
<1>2. CASE j <= kHeaderLength
  <2>1. Spot(n, j) = Place("header", n, j)
    BY <1>2 DEF Spot
  <2>2. Key(Iov(n, kind)[j]) = Spot(n, j)
    <3>1. Iov(n, kind)[j] = [part |-> "header", of |-> n, at |-> j, files |-> <<>>]
      BY <1>2, IovFacts
    <3> QED
      BY <3>1, <2>1 DEF Key, Place
  <2>3. ASSUME j < kHeaderLength
        PROVE  j < Total(kind) /\ Succ(kind, Spot(n, j)) = Spot(n, j + 1)
    <3>1. j < Total(kind) /\ j + 1 <= kHeaderLength
      BY <2>3, <1>1
    <3> QED
      BY <2>1, <2>3, <3>1, SuccFacts DEF Spot
  <2>4. ASSUME j = kHeaderLength
        PROVE  /\ j < Total(kind) => Succ(kind, Spot(n, j)) = Spot(n, j + 1)
               /\ j = Total(kind) =>
                    Succ(kind, Spot(n, j)) = PadFrom(kind, n, Initially(kind))
    <3>1. Succ(kind, Spot(n, j)) = DataFrom(kind, n, 1)
      BY <2>1, <2>4, <1>1, SuccFacts
    <3>2. ASSUME j < Total(kind)
          PROVE  Succ(kind, Spot(n, j)) = Spot(n, j + 1)
      <4>1. 1 <= kind.data /\ ~(j + 1 <= kHeaderLength) /\ (j + 1) - kHeaderLength = 1
        <5>1. kHeaderLength < kHeaderLength + kind.data
          BY <3>2, <2>4, <1>1
        <5>2. 1 <= kind.data
          BY <5>1, <1>1
        <5>3. ~(kHeaderLength + 1 <= kHeaderLength) /\ (kHeaderLength + 1) - kHeaderLength = 1
          BY <1>1
        <5>4. j + 1 = kHeaderLength + 1
          BY <2>4
        <5> QED
          BY <5>2, <5>3, <5>4
      <4>2. DataFrom(kind, n, 1) = Place("data", n, 1)
        BY <4>1 DEF DataFrom
      <4>3. Spot(n, j + 1) = Place("data", n, 1)
        BY <4>1 DEF Spot
      <4> QED
        BY <3>1, <4>2, <4>3
    <3>3. ASSUME j = Total(kind)
          PROVE  Succ(kind, Spot(n, j)) = PadFrom(kind, n, Initially(kind))
      <4>1. kHeaderLength = kHeaderLength + kind.data
        BY <3>3, <2>4, <1>1
      <4>2. ~(1 <= kind.data)
        BY <4>1, <1>1, NoMore
      <4> QED
        BY <3>1, <4>2 DEF DataFrom
    <3> QED
      BY <3>2, <3>3
  <2>5. j < kHeaderLength \/ j = kHeaderLength
    BY <1>1, <1>2
  <2>6. j < kHeaderLength => j # Total(kind)
    BY <1>1
  <2> QED
    BY <2>2, <2>3, <2>4, <2>5, <2>6
<1>3. CASE ~(j <= kHeaderLength)
  <2>1. Spot(n, j) = Place("data", n, j - kHeaderLength)
    BY <1>3 DEF Spot
  <2>2. Key(Iov(n, kind)[j]) = Spot(n, j)
    <3>1. Iov(n, kind)[j] =
            [part |-> "data", of |-> n, at |-> j - kHeaderLength, files |-> <<>>]
      BY <1>3, IovFacts
    <3> QED
      BY <3>1, <2>1 DEF Key, Place
  <2>3. Succ(kind, Spot(n, j)) = DataFrom(kind, n, (j - kHeaderLength) + 1)
    BY <2>1, SuccFacts
  <2>4. ASSUME j < Total(kind)
        PROVE  Succ(kind, Spot(n, j)) = Spot(n, j + 1)
    <3>1. /\ (j - kHeaderLength) + 1 <= kind.data /\ ~(j + 1 <= kHeaderLength)
          /\ (j - kHeaderLength) + 1 = (j + 1) - kHeaderLength
      BY <2>4, <1>1, <1>3
    <3>2. DataFrom(kind, n, (j - kHeaderLength) + 1) = Place("data", n, (j + 1) - kHeaderLength)
      BY <3>1 DEF DataFrom
    <3> QED
      BY <3>1, <3>2, <2>3 DEF Spot
  <2>5. ASSUME j = Total(kind)
        PROVE  Succ(kind, Spot(n, j)) = PadFrom(kind, n, Initially(kind))
    <3>1. ~((j - kHeaderLength) + 1 <= kind.data)
      BY <2>5, <1>1
    <3> QED
      BY <3>1, <2>3 DEF DataFrom
  <2> QED
    BY <2>2, <2>4, <2>5
<1> QED
  BY <1>2, <1>3

LEMMA SendPad ==
  ASSUME NEW e \in Entry, NEW kind \in Kind, HeadOK(kind, e), e.iov = <<>>,
         NEW upto, upto = e.filesSent + Chunk(kind, e.filesSent),
         NEW x, x = <<[part |-> "pad", of |-> e.of, at |-> e.filesSent,
                       files |-> Files(e.of, e.filesSent, upto)]>>,
         NEW next, next = [of |-> e.of, iov |-> <<>>, first |-> FALSE, filesSent |-> upto]
  PROVE  Carries(kind, e, x, next)
<1> DEFINE b == [part |-> "pad", of |-> e.of, at |-> e.filesSent,
                 files |-> Files(e.of, e.filesSent, upto)]
<1>1. /\ e.of \in Nat /\ e.filesSent \in Nat /\ kind.files \in Nat /\ Total(kind) \in Nat \ {0}
  BY IovFacts DEF Entry, Kind
<1>2. Initially(kind) <= e.filesSent /\ e.filesSent < kind.files
  BY DEF HeadOK
<1>3. /\ upto \in Nat /\ upto <= kind.files /\ e.filesSent <= upto
      /\ Initially(kind) \in Nat /\ Initially(kind) <= upto
  <2>1. /\ Chunk(kind, e.filesSent) \in Nat
        /\ e.filesSent + Chunk(kind, e.filesSent) <= kind.files
    BY <1>1, <1>2, ChunkFacts
  <2>2. Initially(kind) \in Nat
    BY InitiallyFacts
  <2> QED
    BY <2>1, <2>2, <1>1, <1>2
<1>4. b \in Byte
  <2>1. Files(e.of, e.filesSent, upto) \in Seq(File)
    BY <1>1, <1>3, FilesFacts
  <2> QED
    BY <2>1, <1>1 DEF Byte
<1>5. /\ b.part = "pad" /\ b.of = e.of /\ b.at = e.filesSent
      /\ b.files = Files(e.of, e.filesSent, upto)
  OBVIOUS
<1>6. ByteOK(kind, b)
  BY <1>2, <1>5 DEF ByteOK
<1>7. Key(b) = Place("pad", e.of, e.filesSent)
  BY <1>5 DEF Key
<1> HIDE DEF b
<1>8. x = <<b>>
  BY DEF b
<1>9. x \in Seq(Byte) /\ x # <<>> /\ Len(x) = 1 /\ DOMAIN x = 1 .. 1 /\ x[1] = b
  BY <1>4, <1>8
<1>10. Key(x[1]) = EntryPlace(e)
  BY <1>7, <1>9 DEF EntryPlace
<1>11. next.of = e.of /\ next.iov = <<>> /\ next.first = FALSE /\ next.filesSent = upto
  OBVIOUS
<1>12. next \in Entry
  BY <1>1, <1>3 DEF Entry
<1>13. Succ(kind, Key(x[Len(x)])) = PadFrom(kind, e.of, upto)
  BY <1>7, <1>9, SuccFacts
<1>14. ASSUME upto # kind.files
       PROVE  HeadOK(kind, next) /\ PadFrom(kind, e.of, upto) = EntryPlace(next)
  <2>1. upto < kind.files
    BY <1>14, <1>1, <1>3
  <2>2. Len(next.iov) = 0 /\ Len(next.iov) # Total(kind) /\ Len(next.iov) <= Total(kind)
    BY <1>1, <1>11
  <2>3. HeadOK(kind, next)
    BY <2>1, <2>2, <1>3, <1>11 DEF HeadOK
  <2> QED
    BY <2>1, <2>3, <1>11 DEF EntryPlace, PadFrom
<1>15. ASSUME upto = kind.files
       PROVE  PadFrom(kind, e.of, upto) = Place("header", e.of + 1, 1)
  BY <1>15, <1>1 DEF PadFrom
<1>16. \A i \in DOMAIN x : x[i].of = e.of /\ ByteOK(kind, x[i])
  BY <1>5, <1>6, <1>9
<1> QED
  BY <1>9, <1>10, <1>11, <1>12, <1>13, <1>14, <1>15, <1>16 DEF Carries

LEMMA BeyondHeader ==
  ASSUME NEW k \in Nat \ {0}, NEW d \in Nat, NEW j \in 1 .. (k + d), ~(j <= k)
  PROVE  j # 1 /\ j - k \in 1 .. d
OBVIOUS

\* What is left of l bytes, of a message of t, when m were taken.
LEMMA RestOf ==
  ASSUME NEW t \in Nat, NEW off \in Nat, NEW l \in Nat, off + l = t,
         NEW m \in Nat, m <= l, NEW r, r = l - m
  PROVE  /\ r = 0 => off + m = t
         /\ r # 0 => m < l /\ m + 1 \in 1 .. l /\ 1 \in 1 .. (l - m)
         /\ \A i \in Nat : off + (m + i) = t - r + i
OBVIOUS

LEMMA SendData ==
  ASSUME NEW e \in Entry, NEW kind \in Kind, HeadOK(kind, e), e.iov # <<>>,
         NEW m \in 1 .. Len(e.iov),
         NEW upto, upto = e.filesSent + IF e.first THEN Initially(kind) ELSE 0,
         NEW x \in Seq(Byte), Len(x) = m,
         \A i \in 2 .. m : x[i] = e.iov[i],
         x[1] = [e.iov[1] EXCEPT !.files = Files(e.of, e.filesSent, upto)],
         NEW rest \in Seq(Byte), Len(rest) = Len(e.iov) - m,
         \A i \in 1 .. (Len(e.iov) - m) : rest[i] = e.iov[m + i],
         NEW next, next = [of |-> e.of, iov |-> rest, first |-> FALSE, filesSent |-> upto]
  PROVE  Carries(kind, e, x, next)
<1> DEFINE off == Total(kind) - Len(e.iov)
<1>1. /\ e.of \in Nat /\ e.filesSent \in Nat /\ e.iov \in Seq(Byte) /\ e.first \in BOOLEAN
      /\ kind.files \in Nat /\ kind.data \in Nat
  BY DEF Entry, Kind
<1>2. /\ Total(kind) \in Nat \ {0} /\ Len(e.iov) \in Nat \ {0} /\ Len(e.iov) <= Total(kind)
      /\ kHeaderLength \in Nat \ {0}
  BY <1>1, IovFacts, StreamAssumption DEF HeadOK
<1>3. off \in Nat /\ off + Len(e.iov) = Total(kind)
  BY <1>2
<1>4. \A i \in 1 .. Len(e.iov) : e.iov[i] = Iov(e.of, kind)[off + i]
  BY DEF HeadOK
<1>5. e.first <=> off = 0
  BY <1>2 DEF HeadOK
<1>6. e.first => e.filesSent = 0
  BY DEF HeadOK
<1>7. ~e.first => e.filesSent = Initially(kind)
  BY DEF HeadOK
<1> HIDE DEF off
<1>8. Initially(kind) \in Nat /\ Initially(kind) <= kind.files
  BY InitiallyFacts
<1>9. upto = Initially(kind)
  BY <1>1, <1>6, <1>7, <1>8
<1>10. \A i \in 1 .. Len(e.iov) :
         /\ Key(e.iov[i]) = Spot(e.of, off + i)
         /\ off + i < Total(kind) => Succ(kind, Spot(e.of, off + i)) = Spot(e.of, off + i + 1)
         /\ off + i = Total(kind) =>
              Succ(kind, Spot(e.of, off + i)) = PadFrom(kind, e.of, Initially(kind))
  <2> SUFFICES ASSUME NEW i \in 1 .. Len(e.iov)
               PROVE  /\ Key(e.iov[i]) = Spot(e.of, off + i)
                      /\ off + i < Total(kind) =>
                           Succ(kind, Spot(e.of, off + i)) = Spot(e.of, off + i + 1)
                      /\ off + i = Total(kind) =>
                           Succ(kind, Spot(e.of, off + i)) = PadFrom(kind, e.of, Initially(kind))
    OBVIOUS
  <2>1. PICK j \in 1 .. Total(kind) : j = off + i
    <3>1. off + i \in 1 .. Total(kind)
      BY <1>2, <1>3
    <3> QED
      BY <3>1
  <2>2. /\ Key(Iov(e.of, kind)[j]) = Spot(e.of, j)
        /\ j < Total(kind) => Succ(kind, Spot(e.of, j)) = Spot(e.of, j + 1)
        /\ j = Total(kind) => Succ(kind, Spot(e.of, j)) = PadFrom(kind, e.of, Initially(kind))
    BY <1>1, SpotFacts
  <2> QED
    BY <2>1, <2>2, <1>4
<1>11. \A i \in 1 .. m : i \in 1 .. Len(e.iov) /\ e.iov[i] \in Byte
  BY <1>1, <1>2
<1>12. \A i \in 1 .. m : Key(x[i]) = Spot(e.of, off + i)
  <2> SUFFICES ASSUME NEW i \in 1 .. m
               PROVE  Key(x[i]) = Spot(e.of, off + i)
    OBVIOUS
  <2>1. x[1].part = e.iov[1].part /\ x[1].of = e.iov[1].of /\ x[1].at = e.iov[1].at
    <3>1. e.iov[1] \in Byte
      BY <1>11
    <3> QED
      BY <3>1 DEF Byte
  <2>2. Key(x[1]) = Key(e.iov[1])
    BY <2>1 DEF Key
  <2>3. i = 1 \/ i \in 2 .. m
    OBVIOUS
  <2>4. Key(x[i]) = Key(e.iov[i])
    BY <2>2, <2>3
  <2> QED
    BY <2>4, <1>10, <1>11
<1>13. \A i \in 1 .. m : x[i].files =
         IF off + i = 1 THEN Files(e.of, 0, Initially(kind)) ELSE <<>>
  <2> SUFFICES ASSUME NEW i \in 1 .. m
               PROVE  x[i].files = IF off + i = 1 THEN Files(e.of, 0, Initially(kind)) ELSE <<>>
    OBVIOUS
  <2>1. CASE i = 1
    <3>1. x[1].files = Files(e.of, e.filesSent, upto)
      <4>1. e.iov[1] \in Byte
        BY <1>11
      <4> QED
        BY <4>1 DEF Byte
    <3>2. CASE off = 0
      <4>1. e.filesSent = 0 /\ off + i = 1
        BY <3>2, <2>1, <1>5, <1>6
      <4> QED
        BY <4>1, <3>1, <2>1, <1>9
    <3>3. CASE off # 0
      <4>1. e.filesSent = Initially(kind) /\ off + i # 1
        BY <3>3, <2>1, <1>3, <1>5, <1>7
      <4>2. Files(e.of, Initially(kind), Initially(kind)) = <<>>
        BY <1>1, <1>8, NoFiles
      <4> QED
        BY <4>1, <4>2, <3>1, <2>1, <1>9
    <3> QED
      BY <3>2, <3>3
  <2>2. CASE i # 1
    <3>1. i \in 2 .. m /\ off + i # 1 /\ off + i \in 1 .. Total(kind)
      <4>1. /\ i \in Nat /\ 1 < i /\ i <= m /\ m \in Nat /\ m <= Len(e.iov)
            /\ Len(e.iov) \in Nat /\ Total(kind) \in Nat /\ off \in Nat
        BY <2>2, <1>2, <1>3
      <4> QED
        BY ONLY <4>1, <1>3
    <3>2. x[i] = Iov(e.of, kind)[off + i]
      BY <3>1, <1>4, <1>11
    <3>3. PICK j \in 1 .. Total(kind) : j = off + i
      BY <3>1
    <3>4. Iov(e.of, kind)[j].files = <<>>
      BY <1>1, IovNoFiles
    <3> QED
      BY <3>1, <3>2, <3>3, <3>4
  <2> QED
    BY <2>1, <2>2
<1>14. DOMAIN x = 1 .. m /\ x # <<>>
  BY <1>2
<1>15. \A i \in 1 .. m : x[i].of = e.of /\ ByteOK(kind, x[i])
  <2> SUFFICES ASSUME NEW i \in 1 .. m
               PROVE  x[i].of = e.of /\ ByteOK(kind, x[i])
    OBVIOUS
  <2>1. PICK j \in 1 .. Total(kind) : j = off + i
    <3>1. off + i \in 1 .. Total(kind)
      BY <1>2, <1>3
    <3> QED
      BY <3>1
  <2>2. Key(x[i]) = Spot(e.of, j)
    BY <2>1, <1>12
  <2>3. x[i].files = IF j = 1 THEN Files(e.of, 0, Initially(kind)) ELSE <<>>
    BY <2>1, <1>13
  <2>4. CASE j <= kHeaderLength
    <3>1. x[i].part = "header" /\ x[i].of = e.of /\ x[i].at = j
      BY <2>2, <2>4, PlaceFacts DEF Spot
    <3> QED
      BY <3>1, <2>3, <2>4, <1>2 DEF ByteOK
  <2>5. CASE ~(j <= kHeaderLength)
    <3>1. x[i].part = "data" /\ x[i].of = e.of /\ x[i].at = j - kHeaderLength
      BY <2>2, <2>5, PlaceFacts DEF Spot
    <3>2. j # 1 /\ j - kHeaderLength \in 1 .. kind.data
      BY <2>5, <1>1, <1>2, BeyondHeader DEF Total
    <3> QED
      BY <3>1, <3>2, <2>3 DEF ByteOK
  <2> QED
    BY <2>4, <2>5
<1>16. Key(x[1]) = EntryPlace(e)
  <2>1. Key(x[1]) = Spot(e.of, off + 1) /\ Key(e.iov[1]) = Spot(e.of, off + 1)
    <3>1. 1 \in 1 .. Len(e.iov) /\ 1 \in 1 .. m
      BY <1>2
    <3>2. Key(x[1]) = Spot(e.of, off + 1)
      BY <3>1, <1>12
    <3>3. Key(e.iov[1]) = Spot(e.of, off + 1)
      BY <3>1, <1>10
    <3> QED
      BY <3>2, <3>3
  <2> QED
    BY <2>1 DEF EntryPlace
<1>17. \A i \in 1 .. (m - 1) : Key(x[i + 1]) = Succ(kind, Key(x[i]))
  <2> SUFFICES ASSUME NEW i \in 1 .. (m - 1)
               PROVE  Key(x[i + 1]) = Succ(kind, Key(x[i]))
    OBVIOUS
  <2>1. /\ i \in 1 .. m /\ i + 1 \in 1 .. m /\ off + i < Total(kind) /\ i \in 1 .. Len(e.iov)
        /\ off + (i + 1) = off + i + 1
    <3>1. m \in Nat /\ m <= Len(e.iov) /\ i \in Nat /\ 1 <= i /\ i + 1 <= m
      BY <1>2
    <3>2. i \in 1 .. m /\ i + 1 \in 1 .. m
      BY <3>1
    <3>3. i < Len(e.iov) /\ i \in 1 .. Len(e.iov)
      BY <3>1, <1>2
    <3>4. off + i < off + Len(e.iov)
      BY <3>1, <3>3, <1>2, <1>3
    <3>5. off + (i + 1) = off + i + 1
      BY <3>1, <1>3
    <3> QED
      BY <3>2, <3>3, <3>4, <3>5, <1>3
  <2>2. Key(x[i]) = Spot(e.of, off + i) /\ Key(x[i + 1]) = Spot(e.of, off + (i + 1))
    BY <2>1, <1>12
  <2>3. Succ(kind, Spot(e.of, off + i)) = Spot(e.of, off + i + 1)
    BY <2>1, <1>10
  <2> QED
    BY <2>1, <2>2, <2>3
<1>18. next.of = e.of /\ next.iov = rest /\ next.first = FALSE /\ next.filesSent = Initially(kind)
  BY <1>9
<1>19. next \in Entry
  BY <1>1, <1>8, <1>9 DEF Entry
<1>20. m \in Nat /\ Key(x[m]) = Spot(e.of, off + m) /\ m \in 1 .. Len(e.iov) /\ m <= Len(e.iov)
  BY <1>12, <1>2
<1>21. ASSUME rest = <<>>
       PROVE  Succ(kind, Key(x[m])) = PadFrom(kind, e.of, Initially(kind))
  <2>1. Len(rest) = 0
    BY <1>21
  <2>2. off + m = Total(kind)
    <3>1. 0 = Len(e.iov) - m
      BY <2>1
    <3> QED
      BY <3>1, <1>2, <1>3, <1>20, RestOf
  <2> QED
    BY <2>2, <1>10, <1>20
<1>22. ASSUME rest # <<>>
       PROVE  HeadOK(kind, next) /\ Succ(kind, Key(x[m])) = EntryPlace(next)
  <2>1. Len(rest) # 0 /\ Len(rest) \in Nat
    BY <1>22
  <2>2. m < Len(e.iov) /\ m + 1 \in 1 .. Len(e.iov) /\ 1 \in 1 .. (Len(e.iov) - m)
    BY <2>1, <1>2, <1>20, RestOf
  <2>3. rest[1] = e.iov[m + 1]
    BY <2>2
  <2>4. Key(rest[1]) = Spot(e.of, off + (m + 1))
    BY <2>2, <2>3, <1>10
  <2>5. off + m < Total(kind) /\ off + (m + 1) = off + m + 1
    <3>1. /\ off \in Nat /\ m \in Nat /\ Len(e.iov) \in Nat /\ m < Len(e.iov)
          /\ Total(kind) \in Nat
      BY <2>2, <1>2, <1>3, <1>20
    <3> QED
      BY ONLY <3>1, <1>3
  <2>6. Succ(kind, Key(x[m])) = Spot(e.of, off + m + 1)
    BY <2>5, <1>10, <1>20
  <2>7. Succ(kind, Key(x[m])) = EntryPlace(next)
    BY <2>4, <2>5, <2>6, <1>18, <1>22 DEF EntryPlace
  <2>8. \A i \in 1 .. Len(rest) :
          rest[i] = Iov(e.of, kind)[Total(kind) - Len(rest) + i]
    <3> SUFFICES ASSUME NEW i \in 1 .. Len(rest)
                 PROVE  rest[i] = Iov(e.of, kind)[Total(kind) - Len(rest) + i]
      OBVIOUS
    <3>1. i \in 1 .. (Len(e.iov) - m) /\ m + i \in 1 .. Len(e.iov)
      BY <1>2, <1>20
    <3>2. off + (m + i) = Total(kind) - Len(rest) + i
      <4>1. /\ i \in Nat /\ off \in Nat /\ m \in Nat /\ Len(e.iov) \in Nat
            /\ Total(kind) \in Nat
        BY <1>2, <1>3, <1>20
      <4>2. Len(rest) = Len(e.iov) - m
        OBVIOUS
      <4> QED
        BY ONLY <4>1, <4>2, <1>3
    <3>3. rest[i] = e.iov[m + i] /\ e.iov[m + i] = Iov(e.of, kind)[off + (m + i)]
      BY <3>1, <1>4
    <3> QED
      BY <3>2, <3>3
  <2>9. Len(rest) <= Total(kind) /\ Len(rest) # Total(kind)
    BY <1>2, <1>20
  <2>10. HeadOK(kind, next)
    BY <2>8, <2>9, <1>18, <1>22 DEF HeadOK
  <2> QED
    BY <2>7, <2>10
<1>23. ASSUME rest = <<>>, Initially(kind) = kind.files
       PROVE  Succ(kind, Key(x[m])) = Place("header", e.of + 1, 1)
  BY <1>21, <1>23, <1>1 DEF PadFrom
<1>24. ASSUME rest = <<>>, Initially(kind) # kind.files
       PROVE  HeadOK(kind, next) /\ Succ(kind, Key(x[m])) = EntryPlace(next)
  <2>1. Initially(kind) < kind.files
    BY <1>24, <1>1, <1>8
  <2>2. Len(next.iov) = 0 /\ Len(next.iov) # Total(kind) /\ Len(next.iov) <= Total(kind)
    BY <1>2, <1>18, <1>24
  <2>3. HeadOK(kind, next)
    BY <2>1, <2>2, <1>8, <1>18, <1>24 DEF HeadOK
  <2> QED
    BY <2>1, <2>3, <1>18, <1>21, <1>24 DEF EntryPlace, PadFrom
<1> QED
  BY <1>14, <1>15, <1>16, <1>17, <1>18, <1>19, <1>22, <1>23, <1>24 DEF Carries

\* The kernel's bytes w when the bytes x of a sendmsg() are added.
LEMMA WireAppend ==
  ASSUME StreamType, Wire, ~peerClosed, NEW x \in Seq(Byte), x # <<>>,
         \A i \in DOMAIN x : x[i].of \in DOMAIN sent /\ ByteOK(sent[x[i].of], x[i]),
         Key(x[1]) = NextSent,
         \A i \in 1 .. (Len(x) - 1) : Key(x[i + 1]) = After(sent, x[i]),
         NEW w \in Seq(Byte), Len(w) = Len(wire) + Len(x),
         \A i \in 1 .. Len(wire) : w[i] = wire[i],
         \A i \in (Len(wire) + 1) .. (Len(wire) + Len(x)) : w[i] = x[i - Len(wire)]
  PROVE  /\ w # <<>> /\ w[Len(w)] = x[Len(x)] /\ Key(w[1]) = Following
         /\ \A i \in DOMAIN w : w[i].of \in DOMAIN sent /\ ByteOK(sent[w[i].of], w[i])
         /\ \A i \in 1 .. (Len(w) - 1) : Key(w[i + 1]) = After(sent, w[i])
<1> DEFINE l == Len(wire)
           m == Len(x)
<1>1. /\ l \in Nat /\ m \in Nat \ {0} /\ DOMAIN wire = 1 .. l /\ DOMAIN x = 1 .. m
      /\ DOMAIN w = 1 .. (l + m) /\ wire \in Seq(Byte) /\ Len(w) = l + m
  BY StreamFacts DEF StreamType
<1>2. \A i \in 1 .. l : w[i] = wire[i]
  OBVIOUS
<1>3. \A i \in (l + 1) .. (l + m) : w[i] = x[i - l]
  OBVIOUS
<1>4. \A i \in DOMAIN wire : wire[i].of \in DOMAIN sent /\ ByteOK(sent[wire[i].of], wire[i])
  BY DEF Wire
<1>5. \A i \in 1 .. (l - 1) : Key(wire[i + 1]) = After(sent, wire[i])
  BY DEF Wire, SuccInWire
<1>6. wire # <<>> => NextSent = After(sent, wire[l])
  BY DEF Wire, SuccInWire
<1>7. wire = <<>> <=> l = 0
  BY StreamFacts DEF StreamType
<1>8. \A i \in 1 .. m : x[i].of \in DOMAIN sent /\ ByteOK(sent[x[i].of], x[i])
  BY <1>1
<1>9. \A i \in 1 .. (m - 1) : Key(x[i + 1]) = After(sent, x[i])
  OBVIOUS
<1> HIDE DEF l, m
<1>10. \A i \in 1 .. (l + m) : i \in 1 .. l \/ (i \in (l + 1) .. (l + m) /\ i - l \in 1 .. m)
  BY <1>1
<1>11. w # <<>> /\ w[Len(w)] = x[m]
  <2>1. l + m \in (l + 1) .. (l + m) /\ (l + m) - l = m /\ 1 \in 1 .. (l + m)
    BY <1>1
  <2>2. w[l + m] = x[(l + m) - l]
    BY <2>1, <1>3
  <2>3. w[Len(w)] = x[m]
    <3>1. Len(w) = l + m /\ w[l + m] = x[m]
      BY <2>1, <2>2, <1>1
    <3> QED
      BY <3>1, Zenon
  <2>4. w # <<>>
    <3>1. Len(w) # 0
      BY <1>1
    <3> QED
      BY <3>1
  <2> QED
    BY <2>3, <2>4
<1>12. Key(w[1]) = Following
  <2>1. CASE l = 0
    <3>1. 1 \in (l + 1) .. (l + m) /\ 1 - l = 1
      BY <2>1, <1>1
    <3>2. w[1] = x[1 - l]
      BY <3>1, <1>3
    <3> QED
      BY <2>1, <3>1, <3>2, <1>7 DEF Following
  <2>2. CASE l # 0
    <3>1. 1 \in 1 .. l
      BY <2>2, <1>1
    <3> QED
      BY <2>2, <3>1, <1>2, <1>7 DEF Following
  <2> QED
    BY <2>1, <2>2
<1>13. \A i \in DOMAIN w : w[i].of \in DOMAIN sent /\ ByteOK(sent[w[i].of], w[i])
  <2> SUFFICES ASSUME NEW i \in 1 .. (l + m)
               PROVE  w[i].of \in DOMAIN sent /\ ByteOK(sent[w[i].of], w[i])
    BY <1>1
  <2>1. CASE i \in 1 .. l
    BY <2>1, <1>1, <1>2, <1>4
  <2>2. CASE i \in (l + 1) .. (l + m) /\ i - l \in 1 .. m
    BY <2>2, <1>3, <1>8
  <2> QED
    BY <2>1, <2>2, <1>10
<1>14. \A i \in 1 .. (l + m - 1) : Key(w[i + 1]) = After(sent, w[i])
  <2> SUFFICES ASSUME NEW i \in 1 .. (l + m - 1)
               PROVE  Key(w[i + 1]) = After(sent, w[i])
    OBVIOUS
  <2>1. CASE i < l
    <3>1. i \in 1 .. l /\ i + 1 \in 1 .. l /\ i \in 1 .. (l - 1)
      BY <2>1, <1>1
    <3>2. w[i] = wire[i] /\ w[i + 1] = wire[i + 1]
      BY <3>1, <1>2
    <3> QED
      BY <3>1, <3>2, <1>5
  <2>2. CASE i = l
    <3>1. l \in 1 .. l /\ l + 1 \in (l + 1) .. (l + m) /\ (l + 1) - l = 1 /\ l # 0
      BY <2>2, <1>1
    <3>2. w[l] = wire[l] /\ w[l + 1] = x[1]
      BY <3>1, <1>2, <1>3
    <3> QED
      BY <2>2, <3>1, <3>2, <1>6, <1>7
  <2>3. CASE i > l
    <3>1. /\ i \in (l + 1) .. (l + m) /\ i + 1 \in (l + 1) .. (l + m)
          /\ i - l \in 1 .. (m - 1) /\ (i + 1) - l = (i - l) + 1
      BY <2>3, <1>1
    <3>2. w[i] = x[i - l] /\ w[i + 1] = x[(i + 1) - l]
      BY <3>1, <1>3
    <3>3. Key(x[(i - l) + 1]) = After(sent, x[i - l])
      BY <3>1, <1>9
    <3> QED
      BY <3>1, <3>2, <3>3
  <2> QED
    BY <2>1, <2>2, <2>3, <1>1
<1> QED
  BY <1>1, <1>11, <1>12, <1>13, <1>14 DEF m

LEMMA ReplaceFirst ==
  ASSUME NEW S, NEW t \in Seq(S), NEW m \in Nat \ {0}, Len(t) = m, NEW b \in S,
         NEW x, x = [t EXCEPT ![1] = b]
  PROVE  x \in Seq(S) /\ Len(x) = m /\ x[1] = b /\ \A i \in 2 .. m : x[i] = t[i]
<1>1. DOMAIN t = 1 .. m /\ 1 \in 1 .. m /\ \A i \in 1 .. m : t[i] \in S
  OBVIOUS
<1>2. DOMAIN x = 1 .. m /\ x[1] = b /\ \A i \in 2 .. m : x[i] = t[i]
  BY <1>1
<1>3. x = [i \in 1 .. m |-> x[i]]
  BY <1>1, <1>2
<1>4. \A i \in 1 .. m : x[i] \in S
  BY <1>1, <1>2
<1>5. [i \in 1 .. m |-> x[i]] \in Seq(S)
  BY <1>4
<1> QED
  BY <1>2, <1>3, <1>5

\* What a sendmsg() of m of the bytes s takes, when the files f go with the first.
WithFirst(s, m, f) == [SubSeq(s, 1, m) EXCEPT ![1].files = f]

LEMMA BytesWithFiles ==
  ASSUME NEW s \in Seq(Byte), NEW m \in 1 .. Len(s), NEW f \in Seq(File),
         NEW x, x = WithFirst(s, m, f)
  PROVE  /\ x \in Seq(Byte) /\ Len(x) = m
         /\ \A i \in 2 .. m : x[i] = s[i]
         /\ x[1] = [s[1] EXCEPT !.files = f]
<1> DEFINE t == SubSeq(s, 1, m)
           b == [s[1] EXCEPT !.files = f]
<1>1. m \in 0 .. Len(s) /\ m \in Nat \ {0} /\ 1 \in 1 .. m /\ 1 \in DOMAIN s
  OBVIOUS
<1>2. t \in Seq(Byte) /\ Len(t) = m /\ \A i \in 1 .. m : t[i] = s[i]
  BY <1>1, SubSeqFacts
<1>3. s[1] \in Byte
  BY <1>1, ElementOf
<1>4. b \in Byte
  BY <1>3 DEF Byte
<1>5. x = [t EXCEPT ![1] = [t[1] EXCEPT !.files = f]]
  BY DEF WithFirst
<1>6. t[1] = s[1]
  BY <1>1, <1>2
<1> HIDE DEF t
<1>7. x = [t EXCEPT ![1] = b]
  BY <1>5, <1>6
<1> HIDE DEF b
<1>9. x \in Seq(Byte) /\ Len(x) = m /\ x[1] = b /\ \A i \in 2 .. m : x[i] = t[i]
  BY ONLY <1>1, <1>2, <1>4, <1>7, ReplaceFirst
<1>11. \A i \in 2 .. m : i \in 1 .. m
  OBVIOUS
<1> QED
  BY <1>2, <1>9, <1>11 DEF b

\* The arithmetic of TrySendMessage: the files sent, the bytes and the entry that is left.
SendMsg(kind, e, n, upto, x, next) ==
  /\ upto = e.filesSent + (IF e.iov # <<>> THEN IF e.first THEN Initially(kind) ELSE 0
                           ELSE Chunk(kind, e.filesSent))
  /\ x = [SubSeq(ToSend(e), 1, n) EXCEPT ![1].files = Files(e.of, e.filesSent, upto)]
  /\ next = [e EXCEPT !.iov = IF @ # <<>> THEN SubSeq(@, n + 1, Len(@)) ELSE @,
                      !.first = FALSE, !.filesSent = upto]

\* A sendmsg() continues the first entry, and leaves one that continues its bytes.
LEMMA SendCarries ==
  ASSUME NEW e \in Entry, NEW kind \in Kind, HeadOK(kind, e), NEW n \in 1 .. Len(ToSend(e)),
         NEW upto, NEW x, NEW next, SendMsg(kind, e, n, upto, x, next)
  PROVE  Carries(kind, e, x, next) /\ Len(x) = n
<1> DEFINE count == IF e.iov # <<>> THEN IF e.first THEN Initially(kind) ELSE 0
                    ELSE Chunk(kind, e.filesSent)
<1>1. /\ upto = e.filesSent + count
      /\ x = [SubSeq(ToSend(e), 1, n) EXCEPT ![1].files = Files(e.of, e.filesSent, upto)]
      /\ next = [e EXCEPT !.iov = IF @ # <<>> THEN SubSeq(@, n + 1, Len(@)) ELSE @,
                          !.first = FALSE, !.filesSent = upto]
  BY Zenon DEF SendMsg
<1>2. /\ e.of \in Nat /\ e.filesSent \in Nat /\ e.iov \in Seq(Byte)
      /\ e = [of |-> e.of, iov |-> e.iov, first |-> e.first, filesSent |-> e.filesSent]
  BY DEF Entry
<1>3. next = [of |-> e.of,
              iov |-> IF e.iov # <<>> THEN SubSeq(e.iov, n + 1, Len(e.iov)) ELSE e.iov,
              first |-> FALSE, filesSent |-> upto]
  BY <1>1, <1>2
<1>4. upto \in Nat /\ e.filesSent <= upto
  <2>1. Initially(kind) \in Nat /\ (e.iov = <<>> => Chunk(kind, e.filesSent) \in Nat)
    BY <1>2, InitiallyFacts, ChunkFacts DEF HeadOK, Kind
  <2>2. count \in Nat
    BY <2>1
  <2> HIDE DEF count
  <2> QED
    <3>1. upto = e.filesSent + count /\ e.filesSent \in Nat
      BY <1>1, <1>2
    <3> QED
      BY ONLY <3>1, <2>2
<1>5. Files(e.of, e.filesSent, upto) \in Seq(File)
  BY <1>2, <1>4, FilesFacts
<1>6. CASE e.iov # <<>>
  <2>1. ToSend(e) = e.iov
    BY <1>6 DEF ToSend
  <2>2. n \in 1 .. Len(e.iov) /\ n \in 0 .. Len(e.iov)
    BY <2>1, <1>2
  <2>3. /\ x \in Seq(Byte) /\ Len(x) = n
        /\ \A i \in 2 .. n : x[i] = e.iov[i]
        /\ x[1] = [e.iov[1] EXCEPT !.files = Files(e.of, e.filesSent, upto)]
    <3>1. x = WithFirst(e.iov, n, Files(e.of, e.filesSent, upto))
      BY <1>1, <2>1 DEF WithFirst
    <3> QED
      BY ONLY <3>1, <2>2, <1>2, <1>5, BytesWithFiles
  <2>4. PICK rest : rest = SubSeq(e.iov, n + 1, Len(e.iov))
    OBVIOUS
  <2>5. /\ rest \in Seq(Byte) /\ Len(rest) = Len(e.iov) - n
        /\ \A i \in 1 .. (Len(e.iov) - n) : rest[i] = e.iov[n + i]
    BY <2>4, <2>2, <1>2, SubSeqFacts
  <2>6. upto = e.filesSent + IF e.first THEN Initially(kind) ELSE 0
    BY <1>1, <1>6
  <2>7. next = [of |-> e.of, iov |-> rest, first |-> FALSE, filesSent |-> upto]
    BY <1>3, <1>6, <2>4
  <2>8. Carries(kind, e, x, next)
    BY <2>2, <2>3, <2>5, <2>6, <2>7, <1>6, SendData
  <2> QED
    BY <2>3, <2>8
<1>7. CASE e.iov = <<>>
  <2> DEFINE p == [part |-> "pad", of |-> e.of, at |-> e.filesSent, files |-> <<>>]
             b == [part |-> "pad", of |-> e.of, at |-> e.filesSent,
                   files |-> Files(e.of, e.filesSent, upto)]
  <2>1. ToSend(e) = <<p>>
    BY <1>7 DEF ToSend
  <2>2. p \in Byte /\ [p EXCEPT !.files = Files(e.of, e.filesSent, upto)] = b
    BY <1>2 DEF Byte
  <2> HIDE DEF p, b
  <2>3. <<p>> \in Seq(Byte) /\ Len(<<p>>) = 1 /\ <<p>>[1] = p
    BY <2>2
  <2>4. n = 1
    BY <2>1, <2>3
  <2>5. x \in Seq(Byte) /\ Len(x) = 1 /\ x[1] = b
    <3>1. PICK s \in Seq(Byte) : s = <<p>>
      BY <2>3
    <3>2. x = WithFirst(s, n, Files(e.of, e.filesSent, upto))
      BY <3>1, <1>1, <2>1, <2>3 DEF WithFirst
    <3>3. s \in Seq(Byte) /\ n \in 1 .. Len(s) /\ s[1] = p
      BY <3>1, <2>3, <2>4
    <3>4. x \in Seq(Byte) /\ Len(x) = n
          /\ x[1] = [s[1] EXCEPT !.files = Files(e.of, e.filesSent, upto)]
      BY ONLY <3>2, <3>3, <1>5, BytesWithFiles
    <3> QED
      BY <3>3, <3>4, <2>2, <2>4
  <2>6. x = <<b>>
    BY <2>5
  <2>7. next = [of |-> e.of, iov |-> <<>>, first |-> FALSE, filesSent |-> upto]
    BY <1>3, <1>7
  <2>8. upto = e.filesSent + Chunk(kind, e.filesSent)
    BY <1>1, <1>7
  <2>9. Carries(kind, e, x, next)
    BY <2>6, <2>7, <2>8, <1>7, SendPad DEF b
  <2> QED
    BY <2>4, <2>5, <2>9
<1> QED
  BY <1>6, <1>7

\* The queue after a sendmsg(): without its first entry, or with what is left of it.
LEMMA QueueAfter ==
  ASSUME NEW q \in Seq(Entry), q # <<>>, NEW next \in Entry, NEW done \in BOOLEAN,
         NEW q1, q1 = (IF done THEN <<>> ELSE <<next>>) \o Tail(q)
  PROVE  /\ q1 \in Seq(Entry)
         /\ done => Len(q1) = Len(q) - 1 /\ \A k \in 1 .. (Len(q) - 1) : q1[k] = q[k + 1]
         /\ ~done => /\ Len(q1) = Len(q) /\ q1[1] = next
                     /\ \A k \in 2 .. Len(q) : q1[k] = q[k]
<1>1. PICK t \in Seq(Entry) : /\ t = Tail(q) /\ Len(t) = Len(q) - 1
                              /\ \A i \in 1 .. (Len(q) - 1) : t[i] = q[i + 1]
  <2>1. /\ Tail(q) \in Seq(Entry) /\ Len(Tail(q)) = Len(q) - 1
        /\ \A i \in 1 .. (Len(q) - 1) : Tail(q)[i] = q[i + 1]
    BY TailFacts
  <2> QED
    BY <2>1, Zenon
<1>2. Len(q) \in Nat \ {0}
  BY TailFacts
<1>3. ASSUME done
      PROVE  q1 = t
  <2>1. q1 = <<>> \o t
    BY <1>1, <1>3
  <2> QED
    BY <2>1
<1>4. ASSUME ~done
      PROVE  /\ q1 \in Seq(Entry) /\ Len(q1) = Len(q) /\ q1[1] = next
             /\ \A k \in 2 .. Len(q) : q1[k] = q[k]
  <2>1. q1 = <<next>> \o t
    BY <1>1, <1>4
  <2>2. PICK h \in Seq(Entry) : h = <<next>> /\ Len(h) = 1 /\ h[1] = next
    <3>1. <<next>> \in Seq(Entry) /\ Len(<<next>>) = 1 /\ <<next>>[1] = next
      OBVIOUS
    <3> QED
      BY <3>1, Zenon
  <2>3. q1 = h \o t
    BY <2>1, <2>2
  <2>4. /\ q1 \in Seq(Entry) /\ Len(q1) = 1 + Len(t)
        /\ q1[1] = h[1]
        /\ \A i \in 2 .. (1 + Len(t)) : q1[i] = t[i - 1]
    <3>1. /\ h \o t \in Seq(Entry) /\ Len(h \o t) = Len(h) + Len(t)
          /\ \A i \in 1 .. Len(h) : (h \o t)[i] = h[i]
          /\ \A i \in (Len(h) + 1) .. (Len(h) + Len(t)) : (h \o t)[i] = t[i - Len(h)]
      BY ConcatFacts
    <3>2. Len(h) = 1 /\ 1 \in 1 .. 1 /\ 1 + 1 = 2
      BY <2>2
    <3> QED
      BY ONLY <3>1, <3>2, <2>3
  <2>5. Len(q1) = Len(q) /\ 1 + Len(t) = Len(q)
    <3>1. Len(t) = Len(q) - 1 /\ Len(q1) = 1 + Len(t)
      BY <2>4, <1>1
    <3> QED
      BY ONLY <3>1, <1>2
  <2>6. ASSUME NEW k \in 2 .. Len(q)
        PROVE  q1[k] = q[k]
    <3>1. k \in 2 .. (1 + Len(t)) /\ k - 1 \in 1 .. (Len(q) - 1) /\ (k - 1) + 1 = k
      BY ONLY <2>5, <1>2
    <3>2. q1[k] = t[k - 1] /\ t[k - 1] = q[(k - 1) + 1]
      BY <3>1, <2>4, <1>1
    <3> QED
      BY <3>1, <3>2
  <2> QED
    BY <2>2, <2>4, <2>5, <2>6
<1> QED
  BY <1>1, <1>3, <1>4

LEMMA StreamSendStep ==
  ASSUME StreamInv, NEW n \in Bytes, TrySendMessage(n),
         UNCHANGED <<peerClosed, recv, received, split, socket>>
  PROVE  StreamInv'
<1>1. StreamType /\ Sender /\ Wire /\ Header /\ Receiver /\ Delivered
  BY Parts
<1>2. sendQueue # <<>> /\ ~peerClosed /\ sent' = sent /\ Len(wire) + n <= WireCapacity
  BY DEF TrySendMessage
<1>3. /\ Len(sent) \in Nat /\ DOMAIN sent = 1 .. Len(sent)
      /\ Len(sendQueue) \in Nat \ {0} /\ DOMAIN sendQueue = 1 .. Len(sendQueue)
      /\ sendQueue \in Seq(Entry) /\ Len(wire) \in Nat /\ wire \in Seq(Byte)
      /\ Head(sendQueue) = sendQueue[1] /\ 1 \in DOMAIN sendQueue
  BY <1>1, <1>2, StreamFacts, TailFacts DEF StreamType
<1>4. PICK e \in Entry : e = sendQueue[1] /\ e = Head(sendQueue)
  BY <1>1, <1>3, StreamFacts
<1>5. /\ e.of = Len(sent) - Len(sendQueue) + 1 /\ e.of \in DOMAIN sent
      /\ HeadOK(sent[e.of], e) /\ Len(sendQueue) <= Len(sent)
  BY <1>1, <1>2, <1>3, <1>4 DEF Sender
<1>6. PICK kind \in Kind : kind = sent[e.of]
  BY <1>1, <1>5, StreamFacts
<1>7. PICK upto, x, next :
        /\ upto = e.filesSent + FilesToSend(e)
        /\ x = [SubSeq(ToSend(e), 1, n) EXCEPT ![1].files = Files(e.of, e.filesSent, upto)]
        /\ next = [e EXCEPT !.iov = IF @ # <<>> THEN SubSeq(@, n + 1, Len(@)) ELSE @,
                            !.first = FALSE, !.filesSent = upto]
        /\ n <= Len(ToSend(e)) /\ wire' = wire \o x
        /\ sendQueue' = (IF next.iov = <<>> /\ next.filesSent = kind.files
                         THEN <<>> ELSE <<next>>) \o Tail(sendQueue)
  BY <1>4, <1>6, Zenon DEF TrySendMessage
<1>8. FilesToSend(e) = IF e.iov # <<>> THEN IF e.first THEN Initially(kind) ELSE 0
                       ELSE Chunk(kind, e.filesSent)
  BY <1>6, Zenon DEF FilesToSend, FirstControlMsg, AdditionalControlMsg, Initially, Chunk
<1>9. n \in 1 .. Len(ToSend(e)) /\ n \in Nat
  <2>1. n \in Nat /\ 1 <= n
    BY StreamAssumption DEF Bytes
  <2>2. Len(ToSend(e)) \in Nat
    <3>1. e.iov \in Seq(Byte)
      BY DEF Entry
    <3> QED
      BY <3>1 DEF ToSend
  <2> QED
    BY <2>1, <2>2, <1>7
<1>10. Carries(kind, e, x, next) /\ Len(x) = n
  <2>1. HeadOK(kind, e)
    BY <1>5, <1>6
  <2>2. SendMsg(kind, e, n, upto, x, next)
    BY <1>7, <1>8, Zenon DEF SendMsg
  <2> QED
    BY ONLY <2>1, <2>2, <1>9, SendCarries

<1>11. /\ x \in Seq(Byte) /\ x # <<>> /\ Key(x[1]) = EntryPlace(e)
       /\ \A i \in DOMAIN x : x[i].of = e.of /\ ByteOK(kind, x[i])
       /\ \A i \in 1 .. (Len(x) - 1) : Key(x[i + 1]) = Succ(kind, Key(x[i]))
       /\ next \in Entry /\ next.of = e.of
  BY <1>10 DEF Carries
<1>12. PICK done \in BOOLEAN : done <=> next.iov = <<>> /\ next.filesSent = kind.files
  OBVIOUS
<1>13. IF done THEN Succ(kind, Key(x[n])) = Place("header", e.of + 1, 1)
       ELSE HeadOK(kind, next) /\ Succ(kind, Key(x[n])) = EntryPlace(next)
  BY <1>10, <1>12 DEF Carries
<1>14. /\ sendQueue' \in Seq(Entry)
       /\ done => /\ Len(sendQueue') = Len(sendQueue) - 1
                  /\ \A k \in 1 .. (Len(sendQueue) - 1) : sendQueue'[k] = sendQueue[k + 1]
       /\ ~done => /\ Len(sendQueue') = Len(sendQueue) /\ sendQueue'[1] = next
                   /\ \A k \in 2 .. Len(sendQueue) : sendQueue'[k] = sendQueue[k]
  <2>1. sendQueue' = (IF done THEN <<>> ELSE <<next>>) \o Tail(sendQueue)
    BY <1>7, <1>12
  <2>2. PICK q \in Seq(Entry) : q = sendQueue
    BY <1>3
  <2>3. PICK q1 : q1 = sendQueue'
    OBVIOUS
  <2>4. q # <<>> /\ q1 = (IF done THEN <<>> ELSE <<next>>) \o Tail(q) /\ q \in Seq(Entry)
    BY <2>1, <2>2, <2>3, <1>2, Zenon
  <2>5. /\ q1 \in Seq(Entry)
        /\ done => Len(q1) = Len(q) - 1 /\ \A k \in 1 .. (Len(q) - 1) : q1[k] = q[k + 1]
        /\ ~done => /\ Len(q1) = Len(q) /\ q1[1] = next
                    /\ \A k \in 2 .. Len(q) : q1[k] = q[k]
    BY ONLY <2>4, <1>11, <1>12, QueueAfter
  <2> QED
    BY ONLY <2>2, <2>3, <2>5, Zenon
<1>15. /\ \A i \in DOMAIN x : x[i].of \in DOMAIN sent /\ ByteOK(sent[x[i].of], x[i])
       /\ \A i \in DOMAIN x : After(sent, x[i]) = Succ(kind, Key(x[i]))
       /\ DOMAIN x = 1 .. n
  BY <1>5, <1>6, <1>10, <1>11 DEF After
<1>16. \A i \in 1 .. (Len(x) - 1) : Key(x[i + 1]) = After(sent, x[i])
  BY <1>9, <1>10, <1>11, <1>15
<1>17. Key(x[1]) = NextSent
  BY <1>2, <1>4, <1>11 DEF NextSent
<1>18. PICK w \in Seq(Byte) :
         /\ w = wire' /\ Len(w) = Len(wire) + Len(x)
         /\ \A i \in 1 .. Len(wire) : w[i] = wire[i]
         /\ \A i \in (Len(wire) + 1) .. (Len(wire) + Len(x)) : w[i] = x[i - Len(wire)]
  <2>1. /\ wire \o x \in Seq(Byte) /\ Len(wire \o x) = Len(wire) + Len(x)
        /\ \A i \in 1 .. Len(wire) : (wire \o x)[i] = wire[i]
        /\ \A i \in (Len(wire) + 1) .. (Len(wire) + Len(x)) : (wire \o x)[i] = x[i - Len(wire)]
    BY ONLY <1>3, <1>11, ConcatFacts
  <2>2. wire' = wire \o x
    BY <1>7
  <2> QED
    BY ONLY <2>1, <2>2, Zenon
<1>19. /\ w # <<>> /\ w[Len(w)] = x[Len(x)] /\ Key(w[1]) = Following
       /\ \A i \in DOMAIN w : w[i].of \in DOMAIN sent /\ ByteOK(sent[w[i].of], w[i])
       /\ \A i \in 1 .. (Len(w) - 1) : Key(w[i + 1]) = After(sent, w[i])
  BY ONLY <1>1, <1>2, <1>11, <1>15, <1>16, <1>17, <1>18, WireAppend
<1>20. Sender' /\ NextSent' = After(sent, x[n])
  <2>1. After(sent, x[n]) = Succ(kind, Key(x[n])) /\ Len(sendQueue') \in Nat
        /\ DOMAIN sendQueue' = 1 .. Len(sendQueue')
    BY <1>9, <1>14, <1>15
  <2>2. \A k \in 2 .. Len(sendQueue) :
          /\ sendQueue[k].of = Len(sent) - Len(sendQueue) + k
          /\ sendQueue[k] = SendQueueEntry(sendQueue[k].of, sent[sendQueue[k].of])
    BY <1>1, <1>3, SMTT(30) DEF Sender
  <2>3. CASE ~done
    <3>1. /\ Len(sendQueue') = Len(sendQueue) /\ sendQueue'[1] = next /\ next.of = e.of
          /\ \A k \in 2 .. Len(sendQueue) : sendQueue'[k] = sendQueue[k]
          /\ sendQueue' # <<>>
      BY <2>3, <1>3, <1>11, <1>14
    <3>2. HeadOK(sent'[sendQueue'[1].of], sendQueue'[1])
      BY <2>3, <3>1, <1>2, <1>6, <1>13
    <3>3. NextSent' = EntryPlace(next)
      BY <3>1 DEF NextSent
    <3>4. ASSUME NEW k \in DOMAIN sendQueue'
          PROVE  /\ sendQueue'[k].of = Len(sent') - Len(sendQueue') + k
                 /\ k > 1 =>
                      sendQueue'[k] = SendQueueEntry(sendQueue'[k].of, sent'[sendQueue'[k].of])
      <4>1. k = 1 \/ k \in 2 .. Len(sendQueue)
        BY <2>1, <3>1, <1>3
      <4>2. CASE k = 1
        BY <4>2, <3>1, <1>2, <1>5
      <4>3. CASE k \in 2 .. Len(sendQueue)
        BY <4>3, <3>1, <2>2, <1>2
      <4> QED
        BY <4>1, <4>2, <4>3
    <3>5. Sender'
      BY <3>1, <3>2, <3>4, <1>2, <1>5 DEF Sender
    <3> QED
      BY <2>1, <2>3, <3>3, <3>5, <1>13
  <2>4. CASE done
    <3>1. /\ Len(sendQueue') = Len(sendQueue) - 1
          /\ \A k \in 1 .. (Len(sendQueue) - 1) : sendQueue'[k] = sendQueue[k + 1]
      BY <2>4, <1>14
    <3>2. \A k \in DOMAIN sendQueue' :
            k + 1 \in 2 .. Len(sendQueue) /\ sendQueue'[k] = sendQueue[k + 1]
      BY <2>1, <3>1, <1>3
    <3>3. \A k \in DOMAIN sendQueue' :
            /\ sendQueue'[k].of = Len(sent) - Len(sendQueue) + (k + 1)
            /\ sendQueue'[k] = SendQueueEntry(sendQueue'[k].of, sent[sendQueue'[k].of])
      BY <3>2, <2>2
    <3>4. \A k \in DOMAIN sendQueue' :
            Len(sent) - Len(sendQueue) + (k + 1) = Len(sent') - Len(sendQueue') + k
      BY <2>1, <3>1, <1>2, <1>3
    <3>5. ASSUME sendQueue' # <<>>
          PROVE  /\ HeadOK(sent'[sendQueue'[1].of], sendQueue'[1])
                 /\ NextSent' = Place("header", e.of + 1, 1)
      <4>1. 1 \in DOMAIN sendQueue'
        BY <3>5, <2>1, <1>14
      <4>2. PICK f : /\ f = sendQueue'[1] /\ f = SendQueueEntry(f.of, sent[f.of])
                     /\ f.of = Len(sent) - Len(sendQueue) + (1 + 1)
        BY <4>1, <3>3
      <4>3. f.of = e.of + 1 /\ f.of \in DOMAIN sent
        <5>1. Len(sendQueue) >= 2
          BY <4>1, <3>2, <1>3
        <5> QED
          BY <5>1, <4>2, <1>3, <1>5
      <4>4. sent[f.of] \in Kind /\ f.of \in Nat
        BY <4>3, <1>1, StreamFacts
      <4>5. HeadOK(sent[f.of], f) /\ EntryPlace(f) = Place("header", f.of, 1)
        BY ONLY <4>2, <4>4, FreshEntry
      <4> QED
        BY <3>5, <4>2, <4>3, <4>5, <1>2 DEF NextSent
    <3>6. ASSUME sendQueue' = <<>>
          PROVE  NextSent' = Place("header", e.of + 1, 1)
      <4>1. Len(sendQueue) = 1
        BY <3>6, <3>1, <1>3
      <4>2. e.of + 1 = Len(sent') + 1
        BY <4>1, <1>2, <1>3, <1>5
      <4> QED
        BY <4>2, <3>6 DEF NextSent
    <3>7. Len(sendQueue') <= Len(sent')
      BY <3>1, <1>2, <1>3, <1>5
    <3>8. Sender'
      BY <3>3, <3>4, <3>5, <3>7, <1>2 DEF Sender
    <3> QED
      BY <2>1, <2>4, <3>5, <3>6, <3>8, <1>13
  <2> QED
    BY <2>3, <2>4
<1>21. StreamType'
  <2>1. Len(w) <= WireCapacity
    BY <1>2, <1>10, <1>18
  <2> QED
    BY <2>1, <1>1, <1>2, <1>14, <1>18 DEF StreamType
<1>22. Wire'
  <2>1. w[Len(w)] = x[n]
    BY <1>10, <1>19
  <2> QED
    BY <2>1, <1>2, <1>18, <1>19, <1>20 DEF Wire, SuccInWire
<1>23. Receiver'
  <2>1. Following' = Following /\ Current' = Current /\ ~AtEof
    BY <1>2, <1>18, <1>19 DEF Following, Current, AtEof
  <2> QED
    BY <2>1, <1>1, <1>2 DEF Receiver
<1>24. Header' /\ Delivered'
  BY <1>1, <1>2 DEF Header, Delivered, SentMessage
<1> QED
  BY <1>20, <1>21, <1>22, <1>23, <1>24 DEF StreamInv

LEMMA StreamConnect ==
  ASSUME StreamInv, Connect
  PROVE  StreamInv'
<1>1. /\ sendQueue' = <<>> /\ wire' = <<>> /\ peerClosed' = FALSE /\ recv' = NothingReceived
      /\ sent' = <<>> /\ received' = <<>> /\ split' = split
  BY DEF Connect
<1>2. /\ NothingReceived \in Buffers /\ Len(NothingReceived.header) <= kHeaderLength
      /\ DOMAIN NothingReceived.header = {}
  BY StreamAssumption DEF NothingReceived, Buffers
<1>3. /\ Len(sent') = 0 /\ Len(wire') = 0 /\ Len(received') = 0 /\ Len(sendQueue') = 0
      /\ DOMAIN sent' = {} /\ DOMAIN wire' = {} /\ DOMAIN received' = {}
      /\ DOMAIN sendQueue' = {}
  BY <1>1
<1>4. StreamType'
  <2>1. /\ <<>> \in Seq(Kind) /\ <<>> \in Seq(Entry) /\ <<>> \in Seq(Byte)
        /\ <<>> \in Seq(Contained) /\ split' \in BOOLEAN
    BY <1>1 DEF StreamInv, StreamType
  <2>2. 0 <= MaxSends /\ 0 <= WireCapacity
    BY StreamAssumption
  <2> QED
    BY <1>1, <1>2, <1>3, <2>1, <2>2 DEF StreamType
<1>5. Sender' /\ Header'
  BY <1>1, <1>2, <1>3 DEF Sender, Header
<1>6. Wire' /\ Delivered'
  BY <1>1, <1>3 DEF Wire, Delivered
<1>7. Receiver'
  BY <1>1, <1>3 DEF Receiver, Waits, Following, NextSent, Current
<1> QED
  BY <1>4, <1>5, <1>6, <1>7 DEF StreamInv

-----------------------------------------------------------------------------
(* The invariant holds *)

LEMMA Initial ==
  ASSUME Init
  PROVE  IInv
<1>1. /\ sendQueue = <<>> /\ wire = <<>> /\ peerClosed = FALSE /\ recv = NothingReceived
      /\ sent = <<>> /\ received = <<>> /\ split = FALSE
      /\ socket = TRUE /\ connections = 1 /\ recvQueue = <<>> /\ failing = <<>>
      /\ answers = <<>> /\ receives = <<>>
  BY DEF Init, StreamInit
<1>2. StreamInv
  BY <1>1, StreamFresh
<1>3. FutureType
  <2>1. 1 \in 1 .. MaxConnections /\ 0 <= MaxReceives
    BY BoundAssumption
  <2> QED
    BY <1>1, <2>1 DEF FutureType
<1>4. /\ DOMAIN recvQueue = {} /\ DOMAIN failing = {} /\ DOMAIN answers = {}
      /\ DOMAIN receives = {} /\ Len(recvQueue) = 0 /\ Len(failing) = 0
      /\ Len(answers) = 0 /\ Len(receives) = 0 /\ Len(received) = 0
  BY <1>1
<1>5. OnePlace /\ Past /\ Queue /\ Ordered
  BY <1>1, <1>4 DEF OnePlace, Past, Queue, Ordered
<1>6. AsManyAsArrived
  <2>1. Given = {}
    BY <1>4 DEF Given
  <2> QED
    BY <2>1, <1>4, FS_EmptySet DEF AsManyAsArrived
<1> QED
  BY <1>2, <1>3, <1>5, <1>6 DEF IInv, FutureInv

LEMMA Inductive ==
  ASSUME IInv, [Next]_vars
  PROVE  IInv'
<1>1. StreamInv /\ FutureInv
  BY DEF IInv
<1>2. ASSUME NEW kind \in Kinds, Send(kind)
      PROVE  IInv'
  <2>1. EnqueueMessage(kind) /\ UNCHANGED <<wire, peerClosed, recv, received, split, socket>>
        /\ Same
    BY <1>2 DEF Send, futureVars, Same
  <2> QED
    BY <2>1, <1>1, StreamSend, FutureSame DEF IInv
<1>3. ASSUME NEW n \in Bytes, SendStep(n)
      PROVE  IInv'
  <2>1. TrySendMessage(n) /\ UNCHANGED <<peerClosed, recv, received, split, socket>> /\ Same
    BY <1>3 DEF SendStep, futureVars, Same
  <2> QED
    BY <2>1, <1>1, StreamSendStep, FutureSame DEF IInv
<1>4. ASSUME PeerCloses
      PROVE  IInv'
  <2>1. ClosePeer /\ UNCHANGED <<wire, recv, received, split, socket>> /\ Same
    BY <1>4 DEF PeerCloses, futureVars, Same
  <2> QED
    BY <2>1, <1>1, StreamPeerCloses, FutureSame DEF IInv
<1>5. ASSUME Receive
      PROVE  IInv'
  BY <1>5, <1>1, FutureReceive, StreamSame DEF IInv, Receive
<1>6. ASSUME ReceiveOnClosed
      PROVE  IInv'
  BY <1>6, <1>1, FutureReceiveOnClosed, StreamSame DEF IInv, ReceiveOnClosed
<1>7. ASSUME FailOne
      PROVE  IInv'
  BY <1>7, <1>1, FutureFailOne, StreamSame DEF IInv, FailOne
<1>8. ASSUME NEW n \in Bytes, ReceiveMore(n)
      PROVE  IInv'
  <2>1. /\ socket /\ ReceivePart(n) /\ Outcome(Take(n)) = "more" /\ recv' = Take(n)
        /\ UNCHANGED <<sent, sendQueue, peerClosed, received, socket>> /\ Same /\ n \in Nat
    BY <1>8, StreamAssumption DEF ReceiveMore, MayHandle, senderVars, futureVars, Same, Bytes
  <2> QED
    BY <2>1, <1>1, StreamReceiveMore, FutureSame DEF IInv
<1>9. ASSUME NEW n \in Bytes, ReceiveMessage(n)
      PROVE  IInv'
  <2>1. /\ socket /\ ReceivePart(n) /\ Outcome(Take(n)) = "message"
        /\ received' = Append(received, Message(Take(n))) /\ recv' = NothingReceived
        /\ UNCHANGED <<sent, sendQueue, peerClosed, socket>> /\ n \in Nat
    BY <1>9, StreamAssumption DEF ReceiveMessage, AfterMessage, MayHandle, senderVars, Bytes
  <2>2. StreamInv' /\ Len(received') = Len(received) + 1
    BY <2>1, <1>1, StreamReceiveMessage
  <2>3. Fulfils
    BY <2>2, <1>9 DEF ReceiveMessage, MayHandle, ReceiveCallbackSet, Fulfils
  <2> QED
    BY <2>2, <2>3, <1>1, FutureFulfils DEF IInv
<1>10. ASSUME NEW n \in Bytes, ReceiveBad(n)
       PROVE  IInv'
  <2>1. /\ ReceivePart(n) /\ socket' = FALSE /\ n \in Nat
        /\ UNCHANGED <<sent, sendQueue, peerClosed, recv, received>>
    BY <1>10, StreamAssumption DEF ReceiveBad, senderVars, Bytes
  <2>2. Loses("error") /\ "error" \in Failures
    BY <1>10 DEF ReceiveBad, Loses, Failures
  <2> QED
    BY <2>1, <2>2, <1>1, StreamReceiveBad, FutureLoses DEF IInv
<1>11. ASSUME NEW reason \in Failures, FailAllPromises(reason), socket' = FALSE,
              UNCHANGED <<streamVars, answers, receives, connections>>
       PROVE  IInv'
  <2>1. Loses(reason)
    BY <1>11 DEF Loses, streamVars
  <2>2. UNCHANGED streamVars /\ (socket' => socket)
    BY <1>11
  <2> QED
    BY <2>1, <2>2, <1>1, StreamSame, FutureLoses DEF IInv
<1>12. /\ "closedLocally" \in Failures /\ "error" \in Failures /\ "timeout" \in Failures
  BY DEF Failures
<1>13. ASSUME ReceiveEof
       PROVE  IInv'
  <2>1. PICK reason \in Failures : FailAllPromises(reason)
    BY <1>12, <1>13 DEF ReceiveEof
  <2> QED
    BY <2>1, <1>11, <1>13 DEF ReceiveEof
<1>14. ASSUME ReceiveFails
       PROVE  IInv'
  BY <1>11, <1>12, <1>14 DEF ReceiveFails
<1>15. ASSUME ReceiveTimeout
       PROVE  IInv'
  BY <1>11, <1>12, <1>15 DEF ReceiveTimeout
<1>16. ASSUME CloseNow
       PROVE  IInv'
  BY <1>11, <1>12, <1>16 DEF CloseNow, CloseSocket
<1>17. ASSUME Connect
       PROVE  IInv'
  BY <1>17, <1>1, StreamConnect, FutureConnect DEF IInv
<1>18. ASSUME UNCHANGED vars
       PROVE  IInv'
  <2>1. UNCHANGED streamVars /\ (socket' => socket) /\ Same
    BY <1>18 DEF vars, streamVars, futureVars, Same
  <2> QED
    BY <2>1, <1>1, StreamSame, FutureSame DEF IInv
<1> QED
  BY <1>2, <1>3, <1>4, <1>5, <1>6, <1>7, <1>8, <1>9, <1>10, <1>13, <1>14, <1>15, <1>16,
     <1>17, <1>18 DEF Next, Handle, Terminated

LEMMA Invariance == Spec => []IInv
<1>1. Init => IInv
  BY Initial
<1>2. IInv /\ [Next]_vars => IInv'
  BY Inductive
<1> QED
  BY <1>1, <1>2, PTL DEF Spec

\* However the kernel cuts the stream, each message arrives complete, with its own data
\* and its own files, in the order of the sends, until one is sent whose size the header
\* cannot hold: for all messages and all sizes of buffers.
THEOREM MessagesDeliveredAsSent == Spec => []DeliveredAsSent
<1>1. IInv => DeliveredAsSent
  <2> SUFFICES ASSUME IInv
               PROVE  DeliveredAsSent
    OBVIOUS
  <2>1. StreamType /\ Delivered /\ FutureType
    BY DEF IInv, StreamInv, FutureInv
  <2>2. TypeOK
    BY <2>1 DEF TypeOK, StreamType, FutureType
  <2>3. \A n \in DOMAIN received :
          (\A i \in 1 .. n : i \in DOMAIN sent /\ sent[i].data < SizeModulus) =>
            received[n] = SentMessage(n)
    BY <2>1 DEF Delivered, Fits
  <2> QED
    BY <2>2, <2>3 DEF DeliveredAsSent
<1> QED
  BY <1>1, Invariance, PTL

\* The first receive() gets the first message of its connection, the second the second;
\* no receive is lost or answered twice, and none waits when the socket is gone: for any
\* number of receives and connections, whatever times out, fails or is closed in between.
THEOREM ReceivesAnsweredInOrder == Spec => []AnsweredInOrder
<1>1. IInv => AnsweredInOrder
  <2> SUFFICES ASSUME IInv
               PROVE  AnsweredInOrder
    OBVIOUS
  <2>1. FutureType /\ OnePlace /\ Queue /\ Ordered /\ AsManyAsArrived
    BY DEF IInv, FutureInv
  <2>2. \A j \in DOMAIN answers : \A c \in 1 .. connections : MessageOf(c, j) =>
          /\ receives[answers[j].id] = c
          /\ \A id \in 1 .. (answers[j].id - 1) : receives[id] = c =>
               \E h \in 1 .. (j - 1) : answers[h].id = id /\ MessageOf(c, h)
    BY <2>1 DEF Ordered, InOrder, MessageOf
  <2>3. Cardinality({j \in DOMAIN answers : MessageOf(connections, j)}) = Len(received)
    BY <2>1 DEF AsManyAsArrived, Given
  <2> QED
    BY <2>1, <2>2, <2>3 DEF AnsweredInOrder, OnePlace, Queue
<1> QED
  BY <1>1, Invariance, PTL

\* Files that arrived with an incomplete header came with its first byte.
LEMMA FilesNeedHeader ==
  ASSUME StreamType, Receiver, socket, wire # <<>>, Fits(sent, Current), ~HeaderComplete(recv), recv.files # <<>>
  PROVE  Len(recv.header) \in 1 .. (kHeaderLength - 1) /\ sent[recv.header[1].of].files > 0
<1>1. PICK h, f, k, n : h = recv.header /\ f = recv.files /\ k = kHeaderLength /\ n = Current
  OBVIOUS
<1>2. h \in Seq(Byte) /\ f \in Seq(File) /\ k \in Nat /\ Len(h) <= k /\ Len(h) # k
  BY <1>1, StreamAssumption DEF StreamType, Buffers, HeaderComplete
<1>3. Waits(sent, recv, n, Following)
  BY <1>1 DEF Receiver, AtEof
<1>4. recv # NothingReceived
  BY DEF NothingReceived
<1>5. n \in DOMAIN sent /\ Begun(sent[n], recv, n, Following)
  BY <1>3, <1>4 DEF Waits
<1>6. PICK kind : kind = sent[n]
  OBVIOUS
<1>7. kind \in Kind
  BY <1>5, <1>6 DEF StreamType
<1>8. Len(h) < k
  BY <1>2
<1>9. h # <<>> /\ Len(f) = Initially(kind) /\ Contents(recv, n)
  BY <1>1, <1>5, <1>6, <1>8 DEF Begun
<1>10. Len(h) \in 1 .. (k - 1)
  BY <1>2, <1>8, <1>9
<1>11. h[1].of = n
  <2>1. 1 \in DOMAIN h
    BY <1>2, <1>9
  <2>2. Key(h[1]) = Place("header", n, 1)
    BY <1>1, <1>9, <2>1 DEF Contents
  <2> QED
    BY <2>2 DEF Key, Place
<1>12. Len(f) \in Nat /\ Len(f) # 0
  <2>1. f # <<>>
    BY <1>1
  <2> QED
    BY <1>2, <2>1
<1>13. kind.files > 0
  <2>1. Initially(kind) \in Nat /\ Initially(kind) <= kind.files /\ kind.files \in Nat
    BY <1>7, InitiallyFacts DEF Kind
  <2> QED
    BY <1>9, <1>12, <2>1
<1> QED
  BY <1>1, <1>6, <1>10, <1>11, <1>13

\* UnixSocket.cpp:726-729, for all messages and all sizes of buffers: tryReceiveOne() is entered with
\* files in hand and its header incomplete (which its XDCHECKs exclude) only when one recvmsg() has
\* returned part of the header of a message that has files, as long as the sizes of
\* the messages fit into the header.
THEOREM ReceiveAssertionsHold ==
  Spec => [][Fits(sent, Current) /\ split' # split =>
               Len(recv.header) \in 1 .. (kHeaderLength - 1) /\ sent[recv.header[1].of].files > 0]_vars
<1>1. ASSUME IInv, [Next]_vars, Fits(sent, Current), split' # split
      PROVE  Len(recv.header) \in 1 .. (kHeaderLength - 1) /\ sent[recv.header[1].of].files > 0
  <2>1. StreamType /\ Receiver
    BY <1>1 DEF IInv, StreamInv
  <2>2. ASSUME NEW n \in Bytes, MayHandle, ReceivePart(n)
        PROVE  Len(recv.header) \in 1 .. (kHeaderLength - 1) /\ sent[recv.header[1].of].files > 0
    <3>1. socket /\ ~HeaderComplete(recv) /\ recv.files # <<>>
      BY <1>1, <2>1, <2>2 DEF MayHandle, ReceivePart, StreamType
    <3>2. wire # <<>>
      <4>1. n \in 1 .. Min({BufferSize(recv), Len(wire)})
        BY <2>2 DEF ReceivePart, RecvMsg
      <4>2. BufferSize(recv) \in Int /\ Len(wire) \in Int /\ Len(wire) \in Nat
        BY <2>1, <3>1, StreamAssumption DEF StreamType, Buffers, BufferSize
      <4>3. Min({BufferSize(recv), Len(wire)}) <= Len(wire) /\ Min({BufferSize(recv), Len(wire)}) \in Int
        BY <4>2, MinOfTwo
      <4>4. Len(wire) # 0
        BY <4>1, <4>2, <4>3
      <4> QED
        BY <4>4
    <3> QED
      BY <1>1, <2>1, <3>1, <3>2, FilesNeedHeader
  <2>3. CASE \E n \in Bytes : ReceiveMore(n) \/ ReceiveMessage(n) \/ ReceiveBad(n)
    BY <2>2, <2>3 DEF ReceiveMore, ReceiveMessage, ReceiveBad
  <2>4. CASE ReceiveEof \/ ReceiveFails \/ ReceiveTimeout
    BY <1>1, <2>4 DEF ReceiveEof, ReceiveFails, ReceiveTimeout, streamVars
  <2>5. CASE (\E kind \in Kinds : Send(kind)) \/ (\E n \in Bytes : SendStep(n)) \/ PeerCloses
    BY <1>1, <2>5 DEF Send, SendStep, PeerCloses
  <2>6. CASE Receive \/ ReceiveOnClosed \/ FailOne \/ CloseNow
    BY <1>1, <2>6 DEF Receive, ReceiveOnClosed, FailOne, CloseNow, CloseSocket, streamVars
  <2>7. CASE Connect \/ Terminated \/ UNCHANGED vars
    BY <1>1, <2>7 DEF Connect, Terminated, vars, streamVars
  <2> QED
    BY <1>1, <2>3, <2>4, <2>5, <2>6, <2>7 DEF Next, Handle
<1>2. IInv /\ [Next]_vars =>
        [Fits(sent, Current) /\ split' # split =>
           Len(recv.header) \in 1 .. (kHeaderLength - 1) /\ sent[recv.header[1].of].files > 0]_vars
  BY <1>1
<1> QED
  BY <1>2, Invariance, PTL DEF Spec
=============================================================================
