--------------------- MODULE SubprocessScribeLoggerProofs ---------------------
(* MessagesKept for every set of loggers, every queue limit and pipe capacity. *)
EXTENDS SubprocessScribeLogger, TLAPS

-----------------------------------------------------------------------------
(* The inductive invariant *)

\* Where the writer is tells what it holds, and whether its descriptor was
\* already gone when it started.
Control ==
  /\ (current # 0) <=> (writerPc = "write")
  /\ writerPc \in {"unstarted", "start", "never"} => ~startedLate
  /\ writerPc \in {"wait", "sleeping", "write", "giveUp"} => startedLate \/ fd = "writer"
  /\ writerPc = "giveUp" => startedLate \/ process = "dead"
  /\ didStop => messages = <<>>

\* The queue holds the latest messages, numbered consecutively, and the one
\* being written precedes them.
Numbering ==
  /\ Len(messages) <= Len(ends)
  /\ \A i \in 1 .. Len(messages) : messages[i] = Len(ends) - Len(messages) + i
  /\ current # 0 => current = Len(ends) - Len(messages)

\* The total size of the first k messages.
Upto(k) == IF k = 0 THEN 0 ELSE ends[k]

\* The byte count is the size of the queued suffix.
Bytes ==
  /\ \A i, j \in 1 .. Len(ends) : i <= j => ends[i] <= ends[j]
  /\ totalBytes = Upto(Len(ends)) - Upto(Len(ends) - Len(messages))
  /\ totalBytes <= Limit

\* While the process lives, what it has read and what is in the pipe are the
\* first messages, and nothing is missing between them and the queue.
Route ==
  process = "running" /\ ~startedLate =>
    /\ Len(childRead) + Len(pipe) + (IF current = 0 THEN 0 ELSE 1) + Len(messages) = Len(ends)
    /\ \A i \in 1 .. Len(childRead) : childRead[i] = i
    /\ \A i \in 1 .. Len(pipe) : pipe[i] = Len(childRead) + i

IInv == LoggerTypeOK /\ Control /\ Numbering /\ Bytes /\ Route /\ NoLostWakeup

-----------------------------------------------------------------------------
(* Sequences *)

\* What Append, Head and Tail do to positions.
LEMMA SeqFacts ==
  ASSUME NEW S, NEW q \in Seq(S), NEW e \in S
  PROVE  /\ Append(q, e) \in Seq(S)
         /\ Len(Append(q, e)) = Len(q) + 1
         /\ \A i \in 1 .. Len(q) : Append(q, e)[i] = q[i]
         /\ Append(q, e)[Len(q) + 1] = e
         /\ Append(q, e) # <<>>
         /\ q # <<>> => /\ Len(q) \in Nat \ {0}
                        /\ Head(q) = q[1] /\ Head(q) \in S
                        /\ Tail(q) \in Seq(S)
                        /\ Len(Tail(q)) = Len(q) - 1
                        /\ \A i \in 1 .. Len(Tail(q)) : Tail(q)[i] = q[i + 1]
<1>1. /\ Append(q, e) \in Seq(S)
      /\ Len(Append(q, e)) = Len(q) + 1
      /\ \A i \in 1 .. Len(q) : Append(q, e)[i] = q[i]
      /\ Append(q, e)[Len(q) + 1] = e
  OBVIOUS
<1>2. Append(q, e) # <<>>
  BY <1>1
<1>3. ASSUME q # <<>> PROVE Len(q) \in Nat \ {0} /\ Head(q) = q[1] /\ Head(q) \in S
  BY <1>3
<1>4. ASSUME q # <<>>
      PROVE  /\ Tail(q) \in Seq(S)
             /\ Len(Tail(q)) = Len(q) - 1
             /\ \A i \in 1 .. Len(Tail(q)) : Tail(q)[i] = q[i + 1]
  BY <1>4
<1> QED
  BY <1>1, <1>2, <1>3, <1>4

\* A sequence without elements is the empty one.
LEMMA EmptySeq ==
  ASSUME NEW S, NEW q \in Seq(S) PROVE Len(q) \in Nat /\ (Len(q) = 0 <=> q = <<>>)
OBVIOUS

-----------------------------------------------------------------------------
(* The steps *)

\* Steps that move no message: the locks, notifications, timeouts and waits.
Quiet ==
  /\ UNCHANGED <<totalBytes, messages, current, childVars, ends>>
  /\ UNCHANGED startedLate \/ WriterStart

LEMMA QuietData ==
  ASSUME IInv, Quiet PROVE Numbering' /\ Bytes' /\ Route'
<1>1. Numbering' /\ Bytes'
  BY DEF IInv, Quiet, Numbering, Bytes, Upto, childVars
<1>2. Route'
  BY DEF IInv, Quiet, Route, Control, WriterStart, childVars
<1> QED
  BY <1>1, <1>2

\* Control, wakeups and types are kept by the quiet steps of the threads.
LEMMA QuietStep ==
  ASSUME IInv,
         \/ \E l \in Loggers : LogNotify(l)
         \/ \E l \in Loggers, size \in Sizes : LogDrop(l, size)
         \/ StartThread \/ StartThreadFails \/ WriterStart \/ WriterNotify \/ WriterReturn
         \/ DestroyBegin \/ DestroyNotify \/ DestroyFlush \/ DestroyFlushTimeout
         \/ CloseParentFd \/ ProcessExited \/ WaitExitTimeout \/ DestroyJoin
         \/ SpuriousWakeup \/ LoggerTerminated \/ UNCHANGED loggerVars
  PROVE  IInv'
<1> USE DEF stateVars, writerVars, childVars, histVars
<1> SUFFICES Quiet /\ LoggerTypeOK' /\ Control' /\ NoLostWakeup'
  BY QuietData DEF IInv
<1>1. LoggerTypeOK /\ Control /\ NoLostWakeup
  BY DEF IInv
<1>2. ASSUME NEW l \in Loggers, LogNotify(l) PROVE Quiet /\ LoggerTypeOK' /\ Control' /\ NoLostWakeup'
  BY <1>1, <1>2 DEF LogNotify, NotifyWriter, Quiet, LoggerTypeOK, Control, NoLostWakeup
<1>3. CASE (\E l \in Loggers, size \in Sizes : LogDrop(l, size)) \/ LoggerTerminated \/ UNCHANGED loggerVars
  BY <1>1, <1>3 DEF LogDrop, LoggerTerminated, loggerVars, Quiet, LoggerTypeOK, Control, NoLostWakeup
<1>4. CASE StartThread \/ StartThreadFails
  BY <1>1, <1>4 DEF StartThread, StartThreadFails, Quiet, LoggerTypeOK, Control, NoLostWakeup
<1>5. CASE WriterStart
  <2>1. CASE fd = "process"
    BY <1>1, <1>5, <2>1 DEF WriterStart, Quiet, LoggerTypeOK, Control, NoLostWakeup
  <2>2. CASE fd # "process"
    BY <1>1, <1>5, <2>2 DEF WriterStart, Quiet, LoggerTypeOK, Control, NoLostWakeup
  <2> QED
    BY <2>1, <2>2
<1>6. CASE WriterNotify \/ WriterReturn
  BY <1>1, <1>6 DEF WriterNotify, WriterReturn, Quiet, LoggerTypeOK, Control, NoLostWakeup
<1>7. CASE DestroyBegin
  BY <1>1, <1>7 DEF DestroyBegin, Quiet, LoggerTypeOK, Control, NoLostWakeup
<1>8. CASE DestroyNotify
  BY <1>1, <1>8 DEF DestroyNotify, StopNotify, NotifyWriter, Quiet, LoggerTypeOK, Control, NoLostWakeup
<1>9. CASE DestroyFlush \/ DestroyFlushTimeout \/ CloseParentFd
  BY <1>1, <1>9, SMTT(30)
              DEF DestroyFlush, DestroyFlushTimeout, FlushTimeout, CloseParentFd, Quiet, LoggerTypeOK,
                    Control, NoLostWakeup
<1>10. CASE ProcessExited \/ WaitExitTimeout \/ DestroyJoin
  BY <1>1, <1>10 DEF ProcessExited, Waited, WaitExitTimeout, DestroyJoin, Quiet, LoggerTypeOK, Control,
                    NoLostWakeup
<1>11. CASE SpuriousWakeup
  <2>1. \/ writerPc = "sleeping" /\ writerPc' = "wait" /\ UNCHANGED dtorPc
        \/ dtorPc = "flushing" /\ dtorPc' = "flush" /\ UNCHANGED writerPc
    BY <1>11 DEF SpuriousWakeup, NotifyWriter
  <2>2. UNCHANGED <<stateVars, loggerPc, current, fd, childVars, histVars>>
    BY <1>11 DEF SpuriousWakeup
  <2> QED
    BY <1>1, <2>1, <2>2 DEF Quiet, LoggerTypeOK, Control, NoLostWakeup
<1> QED
  BY <1>2, <1>3, <1>4, <1>5, <1>6, <1>7, <1>8, <1>9, <1>10, <1>11

\* log() accepts a message: it gets the next number, goes to the end of the
\* queue, and its size is added to both totals.
LEMMA LogStep ==
  ASSUME IInv, NEW l \in Loggers, NEW size \in Sizes, Log(l, size) PROVE IInv'
<1> USE DEF stateVars, writerVars, childVars, histVars
<1>1. LoggerTypeOK /\ Control /\ Numbering /\ Bytes /\ Route /\ size \in Nat
  BY SizeAssumption DEF IInv, SizeAssumption
<1> DEFINE n == Len(ends)  m == Len(messages)
<1>2. n \in Nat /\ m \in Nat /\ n + 1 \in Nat \ {0} /\ ends \in Seq(Nat) /\ messages \in Seq(Nat \ {0})
  BY <1>1, EmptySeq DEF LoggerTypeOK
<1>3. /\ ends' = Append(ends, Accepted + size)
      /\ messages' = Append(messages, n + 1)
      /\ totalBytes' = totalBytes + size
      /\ totalBytes' <= Limit
      /\ loggerPc' = [loggerPc EXCEPT ![l] = "notify"]
      /\ ~didStop
      /\ UNCHANGED <<shouldStop, didStop, writerVars, dtorPc, childVars, startedLate>>
  BY DEF Log, Enqueue, Fits
<1>4. Accepted = Upto(n) /\ Accepted \in Nat /\ \A i \in 1 .. n : ends[i] <= Accepted
  <2>1. CASE ends = <<>>
    BY <1>2, <2>1, EmptySeq DEF Accepted, Upto
  <2>2. CASE ends # <<>>
    <3>1. n \in 1 .. n
      BY <1>2, <2>2, EmptySeq
    <3> QED
      BY <1>1, <1>2, <2>2, <3>1 DEF Accepted, Upto, Bytes
  <2> QED
    BY <2>1, <2>2
<1>5. /\ ends' \in Seq(Nat) /\ Len(ends') = n + 1 /\ ends'[n + 1] = Accepted + size
      /\ \A i \in 1 .. n : ends'[i] = ends[i]
  BY <1>1, <1>2, <1>3, <1>4, SeqFacts
<1>6. /\ messages' \in Seq(Nat \ {0}) /\ Len(messages') = m + 1 /\ messages'[m + 1] = n + 1
      /\ messages' # <<>>
      /\ \A i \in 1 .. m : messages'[i] = messages[i]
  BY <1>2, <1>3, SeqFacts
<1>7. LoggerTypeOK'
  BY <1>1, <1>3, <1>5, <1>6 DEF LoggerTypeOK
<1>8. Control'
  BY <1>1, <1>3 DEF Control
<1>9. Numbering'
  <2>1. Len(messages') <= Len(ends')
    BY <1>1, <1>2, <1>5, <1>6 DEF Numbering
  <2>2. ASSUME NEW i \in 1 .. Len(messages') PROVE messages'[i] = Len(ends') - Len(messages') + i
    <3>1. CASE i \in 1 .. m
      <4>1. messages'[i] = n - m + i
        BY <1>1, <1>6, <3>1 DEF Numbering
      <4> QED
        BY <1>2, <1>5, <1>6, <3>1, <4>1
    <3>2. CASE i = m + 1
      BY <1>2, <1>5, <1>6, <3>2
    <3> QED
      BY <1>2, <1>6, <3>1, <3>2
  <2>3. current' # 0 => current' = Len(ends') - Len(messages')
    BY <1>1, <1>2, <1>3, <1>5, <1>6 DEF Numbering
  <2> QED
    BY <2>1, <2>2, <2>3 DEF Numbering
<1>10. Bytes'
  <2>1. ASSUME NEW i \in 1 .. Len(ends'), NEW j \in 1 .. Len(ends'), i <= j
        PROVE  ends'[i] <= ends'[j]
    <3>1. CASE j \in 1 .. n
      <4>1. i \in 1 .. n
        BY <1>2, <1>5, <2>1, <3>1
      <4>2. ends[i] <= ends[j]
        BY <1>1, <2>1, <3>1, <4>1 DEF Bytes
      <4> QED
        BY <1>5, <3>1, <4>1, <4>2
    <3>2. CASE j = n + 1 /\ i \in 1 .. n
      <4>1. ends[i] \in Nat /\ ends[i] <= Accepted /\ ends'[i] = ends[i]
        BY <1>2, <1>4, <1>5, <3>2
      <4>2. ends'[j] = Accepted + size
        BY <1>5, <3>2
      <4> QED
        BY <1>1, <1>4, <4>1, <4>2
    <3>3. CASE j = n + 1 /\ i = n + 1
      <4>1. ends'[i] = Accepted + size /\ ends'[j] = Accepted + size
        BY <1>5, <3>3
      <4> QED
        BY <1>1, <1>4, <4>1
    <3> QED
      BY <1>2, <1>5, <2>1, <3>1, <3>2, <3>3
  <2>2. totalBytes = Accepted - Upto(n - m) /\ n - m \in 0 .. n
    BY <1>1, <1>2, <1>4 DEF Bytes, Numbering
  <2>3. Len(ends') - Len(messages') = n - m
    BY <1>2, <1>5, <1>6
  <2>4. Upto(Len(ends) - Len(messages))' = Upto(n - m) /\ Upto(n - m) \in Nat
    <3>1. CASE n - m = 0
      BY <2>3, <3>1 DEF Upto
    <3>2. CASE n - m \in 1 .. n
      <4>1. PICK k \in 1 .. n : k = n - m
        BY <3>2
      <4>2. ends'[k] = ends[k] /\ k # 0
        BY <1>5
      <4>3. ends[k] \in Nat
        BY <1>2
      <4> QED
        BY <2>3, <4>1, <4>2, <4>3 DEF Upto
    <3> QED
      BY <1>2, <2>2, <3>1, <3>2
  <2>5. Upto(Len(ends))' = Accepted + size
    BY <1>2, <1>5 DEF Upto
  <2>6. totalBytes' = Upto(Len(ends))' - Upto(Len(ends) - Len(messages))'
    BY <1>1, <1>3, <1>4, <2>2, <2>4, <2>5
  <2> QED
    BY <1>3, <2>1, <2>6 DEF Bytes
<1>11. Route'
  BY <1>1, <1>2, <1>3, <1>5, <1>6 DEF Route
<1>12. NoLostWakeup'
  BY <1>1, <1>3 DEF LoggerTypeOK, NoLostWakeup
<1> QED
  BY <1>7, <1>8, <1>9, <1>10, <1>11, <1>12 DEF IInv

\* The writer takes the oldest message: the byte count drops by its size and
\* stays that of the rest.
LEMMA TakeStep ==
  ASSUME IInv, WriterTop, messages # <<>> PROVE IInv'
<1> USE DEF stateVars, writerVars, childVars, histVars
<1>1. LoggerTypeOK /\ Control /\ Numbering /\ Bytes /\ Route
  BY DEF IInv
<1> DEFINE n == Len(ends)  m == Len(messages)
<1>2. n \in Nat /\ m \in Nat /\ ends \in Seq(Nat) /\ messages \in Seq(Nat \ {0})
  BY <1>1, EmptySeq DEF LoggerTypeOK
<1>3. /\ writerPc = "wait" /\ writerPc' = "write"
      /\ current' = Head(messages)
      /\ messages' = Tail(messages)
      /\ totalBytes' = totalBytes - Size(Head(messages))
      /\ UNCHANGED <<shouldStop, didStop, loggerPc, fd, dtorPc, childVars, histVars>>
  BY DEF WriterTop, StopOrder
<1>4. /\ m \in Nat \ {0} /\ Head(messages) = messages[1] /\ Head(messages) \in Nat \ {0}
      /\ messages' \in Seq(Nat \ {0}) /\ Len(messages') = m - 1
      /\ \A i \in 1 .. Len(messages') : messages'[i] = messages[i + 1]
  BY <1>2, <1>3, SeqFacts
<1>5. Head(messages) = n - m + 1 /\ Head(messages) \in 1 .. n /\ m <= n /\ n - m \in 0 .. n
  <2>1. messages[1] = n - m + 1 /\ m <= n
    BY <1>1, <1>4 DEF Numbering
  <2> QED
    BY <1>2, <1>4, <2>1
<1>6. /\ Size(Head(messages)) = Upto(n - m + 1) - Upto(n - m)
      /\ Upto(n - m) \in Nat /\ Upto(n - m + 1) \in Nat /\ Upto(n) \in Nat
      /\ Upto(n - m) <= Upto(n - m + 1) /\ Upto(n - m + 1) <= Upto(n)
  <2>1. PICK h \in 1 .. n : h = n - m + 1
    BY <1>5
  <2>2. \A i \in 1 .. n : ends[i] \in Nat
    BY <1>2
  <2>3. \A i, j \in 1 .. n : i <= j => ends[i] <= ends[j]
    BY <1>1 DEF Bytes
  <2>4. Upto(h) = ends[h] /\ Upto(n) = ends[n] /\ n \in 1 .. n /\ h <= n
    BY <1>2 DEF Upto
  <2>5. ends[h] \in Nat /\ ends[n] \in Nat /\ ends[h] <= ends[n]
    BY <2>2, <2>3, <2>4
  <2>6. CASE h = 1
    <3>1. Size(h) = ends[1] /\ Upto(h - 1) = 0
      BY <2>6 DEF Size, Upto
    <3> QED
      BY <1>2, <1>5, <2>1, <2>4, <2>5, <2>6, <3>1
  <2>7. CASE h # 1
    <3>1. h - 1 \in 1 .. n /\ h - 1 # 0 /\ h - 1 <= h
      BY <1>2, <2>7
    <3>2. Size(h) = ends[h] - ends[h - 1] /\ Upto(h - 1) = ends[h - 1]
      BY <2>7, <3>1 DEF Size, Upto
    <3>3. ends[h - 1] \in Nat /\ ends[h - 1] <= ends[h]
      BY <2>2, <2>3, <3>1
    <3>4. h - 1 = n - m
      BY <1>2, <2>1
    <3> QED
      BY <1>5, <2>1, <2>4, <2>5, <3>2, <3>3, <3>4
  <2> QED
    BY <2>6, <2>7
<1>7. totalBytes = Upto(n) - Upto(n - m) /\ totalBytes <= Limit /\ totalBytes \in Nat
  BY <1>1 DEF Bytes, LoggerTypeOK
<1>8. /\ totalBytes' = Upto(n) - Upto(n - m + 1)
      /\ totalBytes' \in Nat /\ totalBytes' <= Limit
  BY <1>3, <1>6, <1>7, SizeAssumption DEF SizeAssumption
<1>9. LoggerTypeOK'
  BY <1>1, <1>3, <1>4, <1>8 DEF LoggerTypeOK
<1>10. Control'
  <2>1. ~didStop /\ current' # 0
    BY <1>1, <1>3, <1>4 DEF Control
  <2> QED
    BY <1>1, <1>3, <2>1 DEF Control
<1>11. Numbering'
  <2>1. Len(messages') <= Len(ends')
    BY <1>2, <1>3, <1>4, <1>5
  <2>2. ASSUME NEW i \in 1 .. Len(messages') PROVE messages'[i] = Len(ends') - Len(messages') + i
    <3>1. i + 1 \in 1 .. m /\ i \in Nat
      BY <1>4
    <3>2. messages[i + 1] = n - m + (i + 1)
      BY <1>1, <3>1 DEF Numbering
    <3> QED
      BY <1>2, <1>3, <1>4, <3>1, <3>2
  <2>3. current' = Len(ends') - Len(messages')
    BY <1>2, <1>3, <1>4, <1>5
  <2> QED
    BY <2>1, <2>2, <2>3 DEF Numbering
<1>12. Bytes'
  <2>1. Len(ends') - Len(messages') = n - m + 1 /\ ends' = ends
    BY <1>2, <1>3, <1>4
  <2>2. Upto(Len(ends) - Len(messages))' = Upto(n - m + 1) /\ Upto(Len(ends))' = Upto(n)
    BY <2>1 DEF Upto
  <2> QED
    BY <1>1, <1>8, <2>1, <2>2 DEF Bytes
<1>13. Route'
  <2>1. current = 0 /\ current' # 0
    BY <1>1, <1>3, <1>4 DEF Control
  <2>2. Len(childRead) \in Nat /\ Len(pipe) \in Nat
    BY <1>1, EmptySeq DEF LoggerTypeOK
  <2> QED
    BY <1>1, <1>2, <1>3, <1>4, <2>1, <2>2 DEF Route
<1>14. NoLostWakeup'
  BY <1>3 DEF NoLostWakeup
<1> QED
  BY <1>9, <1>10, <1>11, <1>12, <1>13, <1>14 DEF IInv

\* The other two outcomes of the critical section leave the queue alone: it is
\* empty, and the writer stops or sleeps.
LEMMA RestStep ==
  ASSUME IInv, WriterTop, messages = <<>> PROVE IInv'
<1> USE DEF stateVars, writerVars, childVars, histVars
<1>1. LoggerTypeOK /\ Control
  BY DEF IInv
<1>2. /\ writerPc = "wait"
      /\ \/ didStop' = TRUE /\ writerPc' = "notify"
         \/ ~shouldStop /\ writerPc' = "sleeping" /\ UNCHANGED didStop
      /\ UNCHANGED <<shouldStop, loggerPc, fd, dtorPc, childVars, histVars>>
      /\ UNCHANGED <<current, messages, totalBytes>>
  BY DEF WriterTop, StopOrder
<1>3. Quiet
  BY <1>2 DEF Quiet
<1>4. LoggerTypeOK' /\ NoLostWakeup'
  BY <1>1, <1>2 DEF LoggerTypeOK, NoLostWakeup
<1>5. Control'
  BY <1>1, <1>2 DEF Control
<1> QED
  BY <1>3, <1>4, <1>5, QuietData DEF IInv

\* The message taken from the queue enters the pipe behind its predecessor.
LEMMA WriteStep ==
  ASSUME IInv, WriterWrite PROVE IInv'
<1> USE DEF stateVars, writerVars, childVars, histVars
<1>1. LoggerTypeOK /\ Control /\ Numbering /\ Bytes /\ Route
  BY DEF IInv
<1>2. /\ writerPc = "write" /\ writerPc' = "wait"
      /\ pipe' = Append(pipe, current) /\ current' = 0
      /\ UNCHANGED <<stateVars, loggerPc, fd, dtorPc, process, childRead, histVars>>
  BY DEF WriterWrite
<1>3. current \in Nat \ {0} /\ pipe \in Seq(Nat \ {0})
  BY <1>1, <1>2 DEF LoggerTypeOK, Control
<1>4. /\ Len(childRead) \in Nat /\ Len(pipe) \in Nat /\ Len(messages) \in Nat /\ Len(ends) \in Nat
  BY <1>1, EmptySeq DEF LoggerTypeOK
<1>5. /\ pipe' \in Seq(Nat \ {0}) /\ Len(pipe') = Len(pipe) + 1
      /\ \A i \in 1 .. Len(pipe) : pipe'[i] = pipe[i]
      /\ pipe'[Len(pipe) + 1] = current
  BY <1>2, <1>3, SeqFacts
<1>6. LoggerTypeOK' /\ NoLostWakeup'
  BY <1>1, <1>2, <1>5 DEF LoggerTypeOK, NoLostWakeup
<1>7. Control'
  BY <1>1, <1>2 DEF Control
<1>8. Numbering' /\ Bytes'
  BY <1>1, <1>2 DEF Numbering, Bytes, Upto
<1>9. Route'
  <2> SUFFICES ASSUME process = "running", ~startedLate
               PROVE  /\ Len(childRead) + Len(pipe') + Len(messages) = Len(ends)
                      /\ \A i \in 1 .. Len(childRead) : childRead[i] = i
                      /\ \A i \in 1 .. Len(pipe') : pipe'[i] = Len(childRead) + i
    BY <1>2 DEF Route
  <2>1. /\ Len(childRead) + Len(pipe) + 1 + Len(messages) = Len(ends)
        /\ \A i \in 1 .. Len(childRead) : childRead[i] = i
        /\ \A i \in 1 .. Len(pipe) : pipe[i] = Len(childRead) + i
    BY <1>1, <1>3 DEF Route
  <2>2. current = Len(ends) - Len(messages)
    BY <1>1, <1>3 DEF Numbering
  <2>3. ASSUME NEW i \in 1 .. Len(pipe') PROVE pipe'[i] = Len(childRead) + i
    <3>1. CASE i \in 1 .. Len(pipe)
      BY <1>5, <2>1, <3>1
    <3>2. CASE i = Len(pipe) + 1
      <4>1. current = Len(childRead) + (Len(pipe) + 1)
        BY <1>4, <2>1, <2>2
      <4> QED
        BY <1>5, <3>2, <4>1
    <3> QED
      BY <1>4, <1>5, <3>1, <3>2
  <2> QED
    BY <1>4, <1>5, <2>1, <2>3
<1> QED
  BY <1>6, <1>7, <1>8, <1>9 DEF IInv

\* A message is given up only when no living process could get it.
LEMMA FailStep ==
  ASSUME IInv, WriterWriteFails \/ WriterGiveUp PROVE IInv'
<1> USE DEF stateVars, writerVars, childVars, histVars
<1>1. LoggerTypeOK /\ Control /\ Numbering /\ Bytes /\ Route
  BY DEF IInv
<1>2. CASE WriterWriteFails
  <2>1. LoggerTypeOK' /\ NoLostWakeup'
    BY <1>1, <1>2 DEF WriterWriteFails, LoggerTypeOK, NoLostWakeup
  <2>2. Control'
    BY <1>1, <1>2 DEF WriterWriteFails, LoggerTypeOK, Control
  <2>3. Numbering' /\ Bytes'
    BY <1>1, <1>2 DEF WriterWriteFails, Numbering, Bytes, Upto
  <2>4. startedLate \/ process = "dead"
    BY <1>1, <1>2 DEF WriterWriteFails, Control
  <2>5. Route'
    BY <1>2, <2>4 DEF WriterWriteFails, Route
  <2> QED
    BY <2>1, <2>2, <2>3, <2>5 DEF IInv
<1>3. CASE WriterGiveUp
  <2>1. /\ writerPc = "giveUp" /\ writerPc' = "notify" /\ didStop' = TRUE
        /\ messages' = <<>> /\ totalBytes' = 0
        /\ UNCHANGED <<shouldStop, loggerPc, current, fd, dtorPc, childVars, histVars>>
    BY <1>3 DEF WriterGiveUp, Abandon
  <2>2. Len(messages') = 0 /\ messages' \in Seq(Nat \ {0}) /\ Len(ends) \in Nat
    BY <1>1, <2>1, EmptySeq DEF LoggerTypeOK
  <2>3. LoggerTypeOK' /\ NoLostWakeup'
    BY <1>1, <2>1, <2>2 DEF LoggerTypeOK, NoLostWakeup
  <2>4. Control'
    BY <1>1, <2>1 DEF Control
  <2>5. Numbering'
    BY <1>1, <2>1, <2>2 DEF Numbering, Control
  <2>6. Upto(Len(ends)) \in Nat
    <3>1. CASE Len(ends) = 0
      BY <3>1 DEF Upto
    <3>2. CASE Len(ends) # 0
      BY <1>1, <2>2, <3>2 DEF Upto, LoggerTypeOK
    <3> QED
      BY <3>1, <3>2
  <2>7. Bytes'
    <3>1. Len(ends') - Len(messages') = Len(ends) /\ ends' = ends
      BY <2>1, <2>2
    <3>2. Upto(Len(ends) - Len(messages))' = Upto(Len(ends)) /\ Upto(Len(ends))' = Upto(Len(ends))
      BY <3>1 DEF Upto
    <3> QED
      BY <1>1, <2>1, <2>6, <3>1, <3>2, SizeAssumption DEF Bytes, SizeAssumption
  <2>8. Route'
    BY <1>1, <2>1 DEF Route, Control
  <2> QED
    BY <2>3, <2>4, <2>5, <2>7, <2>8 DEF IInv
<1> QED
  BY <1>2, <1>3

\* The process reads the oldest message in the pipe.
LEMMA ReadStep ==
  ASSUME IInv, ProcessRead PROVE IInv'
<1> USE DEF stateVars, writerVars, childVars, histVars
<1>1. LoggerTypeOK /\ Control /\ Numbering /\ Bytes /\ Route /\ NoLostWakeup
  BY DEF IInv
<1>2. /\ pipe # <<>>
      /\ childRead' = Append(childRead, Head(pipe)) /\ pipe' = Tail(pipe)
      /\ UNCHANGED <<stateVars, loggerPc, writerVars, dtorPc, process, histVars>>
  BY DEF ProcessRead
<1>3. /\ Len(childRead) \in Nat /\ Len(messages) \in Nat /\ Len(ends) \in Nat
      /\ pipe \in Seq(Nat \ {0}) /\ childRead \in Seq(Nat \ {0})
  BY <1>1, EmptySeq DEF LoggerTypeOK
<1>4. /\ Len(pipe) \in Nat \ {0} /\ Head(pipe) = pipe[1] /\ Head(pipe) \in Nat \ {0}
      /\ pipe' \in Seq(Nat \ {0}) /\ Len(pipe') = Len(pipe) - 1
      /\ \A i \in 1 .. Len(pipe') : pipe'[i] = pipe[i + 1]
  BY <1>2, <1>3, SeqFacts
<1>5. /\ childRead' \in Seq(Nat \ {0}) /\ Len(childRead') = Len(childRead) + 1
      /\ \A i \in 1 .. Len(childRead) : childRead'[i] = childRead[i]
      /\ childRead'[Len(childRead) + 1] = pipe[1]
  BY <1>2, <1>3, <1>4, SeqFacts
<1>6. LoggerTypeOK'
  BY <1>1, <1>2, <1>4, <1>5 DEF LoggerTypeOK
<1>7. Control' /\ NoLostWakeup'
  BY <1>1, <1>2 DEF Control, NoLostWakeup
<1>8. Numbering' /\ Bytes'
  BY <1>1, <1>2 DEF Numbering, Bytes, Upto
<1>9. Route'
  <2> SUFFICES ASSUME process = "running", ~startedLate
               PROVE  /\ Len(childRead') + Len(pipe') + (IF current = 0 THEN 0 ELSE 1) + Len(messages)
                           = Len(ends)
                      /\ \A i \in 1 .. Len(childRead') : childRead'[i] = i
                      /\ \A i \in 1 .. Len(pipe') : pipe'[i] = Len(childRead') + i
    BY <1>2 DEF Route
  <2>1. /\ Len(childRead) + Len(pipe) + (IF current = 0 THEN 0 ELSE 1) + Len(messages) = Len(ends)
        /\ \A i \in 1 .. Len(childRead) : childRead[i] = i
        /\ \A i \in 1 .. Len(pipe) : pipe[i] = Len(childRead) + i
    BY <1>1 DEF Route
  <2>2. ASSUME NEW i \in 1 .. Len(childRead') PROVE childRead'[i] = i
    <3>1. CASE i \in 1 .. Len(childRead)
      BY <1>5, <2>1, <3>1
    <3>2. CASE i = Len(childRead) + 1
      BY <1>4, <1>5, <2>1, <3>2
    <3> QED
      BY <1>3, <1>5, <3>1, <3>2
  <2>3. ASSUME NEW i \in 1 .. Len(pipe') PROVE pipe'[i] = Len(childRead') + i
    <3>1. i + 1 \in 1 .. Len(pipe)
      BY <1>4
    <3>2. pipe[i + 1] = Len(childRead) + (i + 1)
      BY <2>1, <3>1
    <3> QED
      BY <1>3, <1>4, <1>5, <3>2
  <2>4. Len(childRead') + Len(pipe') = Len(childRead) + Len(pipe)
    BY <1>3, <1>4, <1>5
  <2> QED
    BY <2>1, <2>2, <2>3, <2>4
<1> QED
  BY <1>6, <1>7, <1>8, <1>9 DEF IInv

\* The process dies by itself or is killed: nothing more is claimed of what it
\* had not read.
LEMMA DieStep ==
  ASSUME IInv, ProcessDies \/ WaitTermTimeout PROVE IInv'
<1> USE DEF stateVars, writerVars, childVars, histVars
<1>1. LoggerTypeOK /\ Control /\ Numbering /\ Bytes /\ NoLostWakeup
  BY DEF IInv
<1>2. /\ process' = "dead" /\ pipe' = <<>>
      /\ UNCHANGED <<stateVars, loggerPc, writerVars, childRead, histVars>>
      /\ UNCHANGED dtorPc \/ (dtorPc = "waitTerm" /\ dtorPc' = "waitKill")
  BY DEF ProcessDies, WaitTermTimeout, Kill, Die
<1>3. LoggerTypeOK'
  BY <1>1, <1>2 DEF LoggerTypeOK
<1>4. Control' /\ NoLostWakeup'
  BY <1>1, <1>2 DEF Control, NoLostWakeup
<1>5. Numbering' /\ Bytes' /\ Route'
  BY <1>1, <1>2 DEF Numbering, Bytes, Upto, Route
<1> QED
  BY <1>3, <1>4, <1>5 DEF IInv

LEMMA Inductive == ASSUME IInv, [LoggerNext]_loggerVars PROVE IInv'
<1>1. ASSUME NEW l \in Loggers, NEW size \in Sizes, Log(l, size) PROVE IInv'
  BY <1>1, LogStep
<1>2. CASE WriterTop
  BY <1>2, TakeStep, RestStep
<1>3. CASE WriterWrite \/ WriterWriteFails \/ WriterGiveUp
  BY <1>3, WriteStep, FailStep
<1>4. CASE ProcessRead \/ ProcessDies \/ WaitTermTimeout
  BY <1>4, ReadStep, DieStep
<1> QED
  BY <1>1, <1>2, <1>3, <1>4, QuietStep DEF LoggerNext, WriterStep, DtorStep

LEMMA InitInv == LoggerInit => IInv
<1> SUFFICES ASSUME LoggerInit PROVE IInv
  OBVIOUS
<1>1. /\ <<>> \in Seq(Nat) /\ <<>> \in Seq(Nat \ {0}) /\ Len(<<>>) = 0
  OBVIOUS
<1>2. LoggerTypeOK
  BY <1>1 DEF LoggerInit, LoggerTypeOK
<1>3. Control /\ NoLostWakeup
  BY DEF LoggerInit, Control, NoLostWakeup
<1>4. Numbering /\ Bytes /\ Route
  BY <1>1, SizeAssumption DEF LoggerInit, Numbering, Bytes, Upto, Route, SizeAssumption
<1> QED
  BY <1>2, <1>3, <1>4 DEF IInv

-----------------------------------------------------------------------------
(* From positions to the sequence of all messages *)

\* q is the run of numbers that follows k.
Run(q, k) == \A i \in 1 .. Len(q) : q[i] = k + i

\* Two consecutive runs of numbers make one.
LEMMA TwoRuns ==
  ASSUME NEW a \in Seq(Nat \ {0}), NEW b \in Seq(Nat \ {0}), NEW n \in Nat, n = Len(a),
         Run(a, 0), Run(b, n)
  PROVE  a \o b \in Seq(Nat \ {0}) /\ Len(a \o b) = n + Len(b) /\ Run(a \o b, 0)
<1>1. /\ a \o b \in Seq(Nat \ {0}) /\ Len(a \o b) = Len(a) + Len(b)
      /\ Len(a) \in Nat /\ Len(b) \in Nat
  OBVIOUS
<1>2. ASSUME NEW i \in 1 .. Len(a \o b) PROVE (a \o b)[i] = 0 + i
  <2>1. CASE i <= Len(a)
    <3>1. i \in 1 .. Len(a) /\ (a \o b)[i] = a[i]
      BY <1>1, <2>1
    <3> QED
      BY <3>1 DEF Run
  <2>2. CASE i > Len(a)
    <3>1. (a \o b)[i] = b[i - Len(a)] /\ i - Len(a) \in 1 .. Len(b)
      BY <1>1, <2>2
    <3>2. b[i - Len(a)] = Len(a) + (i - Len(a))
      BY <3>1 DEF Run
    <3> QED
      BY <1>1, <3>1, <3>2
  <2> QED
    BY <1>1, <2>1, <2>2
<1>3. Run(a \o b, 0)
  BY <1>2 DEF Run
<1> QED
  BY <1>1, <1>3

\* Four consecutive runs of numbers make up the numbers from 1 on.
LEMMA RunsJoin ==
  ASSUME NEW r \in Seq(Nat \ {0}), NEW p \in Seq(Nat \ {0}), NEW c \in Seq(Nat \ {0}),
         NEW m \in Seq(Nat \ {0}), NEW n \in Nat,
         Len(r) + Len(p) + Len(c) + Len(m) = n,
         Run(r, 0), Run(p, Len(r)), Run(c, Len(r) + Len(p)), Run(m, Len(r) + Len(p) + Len(c))
  PROVE  r \o p \o c \o m = [i \in 1 .. n |-> i]
<1>1. Len(r) \in Nat /\ Len(p) \in Nat /\ Len(c) \in Nat /\ Len(m) \in Nat
  OBVIOUS
<1>2. PICK a \in Seq(Nat \ {0}) : a = r \o p /\ Len(a) = Len(r) + Len(p) /\ Run(a, 0)
  BY <1>1, TwoRuns
<1>3. PICK b \in Seq(Nat \ {0}) :
        b = a \o c /\ Len(b) = Len(r) + Len(p) + Len(c) /\ Run(b, 0)
  <2>1. Len(a) \in Nat /\ Run(c, Len(a))
    BY <1>2
  <2> QED
    BY <1>2, <2>1, TwoRuns
<1>4. PICK q \in Seq(Nat \ {0}) : q = b \o m /\ Len(q) = n /\ Run(q, 0)
  <2>1. Len(b) \in Nat /\ Run(m, Len(b)) /\ Len(b) + Len(m) = n
    BY <1>3
  <2> QED
    BY <1>3, <2>1, TwoRuns, ZenonT(60)
<1>5. q = [i \in 1 .. n |-> i]
  <2>1. q \in Seq(Nat \ {0}) /\ Len(q) = n /\ n \in Nat /\ \A i \in 1 .. n : q[i] = i
    BY <1>4 DEF Run
  <2> QED
    BY ONLY <2>1
<1> QED
  BY <1>2, <1>3, <1>4, <1>5

LEMMA InvKept == ASSUME IInv PROVE MessagesKept
<1>1. LoggerTypeOK /\ Control /\ Numbering /\ Bytes /\ Route /\ NoLostWakeup
  BY DEF IInv
<1>2. /\ Len(childRead) \in Nat /\ Len(pipe) \in Nat /\ Len(messages) \in Nat /\ Len(ends) \in Nat
      /\ messages \in Seq(Nat \ {0}) /\ ends \in Seq(Nat)
      /\ Len(messages) = 0 <=> messages = <<>>
      /\ Len(ends) = 0 <=> ends = <<>>
  BY <1>1, EmptySeq DEF LoggerTypeOK
<1>3. InOrder
  <2> SUFFICES ASSUME process = "running", ~startedLate
               PROVE  childRead \o pipe \o (IF current = 0 THEN <<>> ELSE <<current>>) \o messages
                        = [i \in 1 .. Len(ends) |-> i]
    BY DEF InOrder
  <2> DEFINE c == IF current = 0 THEN <<>> ELSE <<current>>
  <2>1. /\ c \in Seq(Nat \ {0}) /\ Len(c) = IF current = 0 THEN 0 ELSE 1
        /\ current # 0 => c[1] = current
    <3>1. CASE current = 0
      BY <3>1
    <3>2. CASE current # 0
      <4>1. c = <<current>> /\ current \in Nat \ {0}
        BY <1>1, <3>2 DEF LoggerTypeOK
      <4> QED
        BY <3>2, <4>1
    <3> QED
      BY <3>1, <3>2
  <2> HIDE DEF c
  <2>2. /\ Len(childRead) + Len(pipe) + Len(c) + Len(messages) = Len(ends)
        /\ \A i \in 1 .. Len(childRead) : childRead[i] = i
        /\ \A i \in 1 .. Len(pipe) : pipe[i] = Len(childRead) + i
    BY <1>1, <2>1 DEF Route
  <2>3. ASSUME NEW i \in 1 .. Len(c) PROVE c[i] = Len(childRead) + Len(pipe) + i
    <3>1. current # 0 /\ i = 1 /\ Len(c) = 1
      BY <2>1
    <3>2. current = Len(ends) - Len(messages)
      BY <1>1, <3>1 DEF Numbering
    <3>3. current = Len(childRead) + Len(pipe) + 1
      BY ONLY <1>2, <2>2, <3>1, <3>2
    <3> QED
      BY <2>1, <3>1, <3>3
  <2>4. ASSUME NEW i \in 1 .. Len(messages)
        PROVE  messages[i] = Len(childRead) + Len(pipe) + Len(c) + i
    <3>1. messages[i] = Len(ends) - Len(messages) + i
      BY <1>1 DEF Numbering
    <3>2. Len(c) \in Nat
      BY <2>1
    <3>3. /\ i \in 1 .. Len(messages)
          /\ Len(childRead) + Len(pipe) + Len(c) + Len(messages) = Len(ends)
      BY <2>2
    <3>4. Len(ends) - Len(messages) = Len(childRead) + Len(pipe) + Len(c)
      BY ONLY <1>2, <3>2, <3>3
    <3> QED
      BY ONLY <3>1, <3>4
  <2>5. childRead \o pipe \o c \o messages = [i \in 1 .. Len(ends) |-> i]
    <3>1. childRead \in Seq(Nat \ {0}) /\ pipe \in Seq(Nat \ {0}) /\ c \in Seq(Nat \ {0})
      BY <1>1, <2>1 DEF LoggerTypeOK
    <3>2. messages \in Seq(Nat \ {0}) /\ Len(ends) \in Nat
      BY <1>2
    <3>3. /\ Run(childRead, 0) /\ Run(pipe, Len(childRead)) /\ Run(c, Len(childRead) + Len(pipe))
          /\ Run(messages, Len(childRead) + Len(pipe) + Len(c))
      BY <2>2, <2>3, <2>4 DEF Run
    <3> QED
      BY <2>2, <3>1, <3>2, <3>3, RunsJoin
  <2> QED
    BY <2>5 DEF c
<1>4. Accounting
  <2>1. CASE messages = <<>>
    <3>1. Len(ends) - Len(messages) = Len(ends)
      BY <1>2, <2>1
    <3>2. Upto(Len(ends)) \in Nat
      BY <1>2 DEF Upto
    <3> QED
      BY <1>1, <2>1, <3>1, <3>2 DEF Bytes, Control, Accounting
  <2>2. CASE messages # <<>>
    <3>1. /\ Head(messages) = messages[1] /\ 1 \in 1 .. Len(messages) /\ Len(messages) <= Len(ends)
      BY <1>1, <1>2, <2>2, SeqFacts DEF Numbering
    <3>2. Head(messages) - 1 = Len(ends) - Len(messages) /\ Head(messages) \in Nat
      <4>1. messages[1] = Len(ends) - Len(messages) + 1
        BY <1>1, <3>1 DEF Numbering
      <4>2. Len(ends) - Len(messages) \in Nat
        BY <1>2, <3>1
      <4> QED
        BY <3>1, <4>1, <4>2
    <3>3. Accepted = Upto(Len(ends))
      BY <1>2, <2>2, <3>1 DEF Accepted, Upto
    <3>4. Upto(Len(ends) - Len(messages)) =
            IF Head(messages) = 1 THEN 0 ELSE ends[Head(messages) - 1]
      BY <3>2 DEF Upto
    <3> QED
      BY <1>1, <2>2, <3>3, <3>4 DEF Bytes, Control, Accounting
  <2> QED
    BY <2>1, <2>2
<1> QED
  BY <1>1, <1>3, <1>4 DEF MessagesKept

\* SubprocessScribeLogger.cpp:103-175, for any number of logging threads, any
\* sizes and limits: while the process lives no accepted message is lost,
\* doubled or overtaken, totalBytes is exactly the size of the queue and
\* within kQueueLimitBytes, nothing is queued for a writer that has stopped,
\* and the writer does not sleep on work or on the order to stop.
THEOREM LoggerKeepsMessages == LoggerSpec => []MessagesKept
<1>1. IInv /\ [LoggerNext]_loggerVars => IInv'
  BY Inductive
<1>2. IInv => MessagesKept
  BY InvKept
<1> QED
  BY InitInv, <1>1, <1>2, PTL DEF LoggerSpec
=============================================================================
