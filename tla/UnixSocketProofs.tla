-------------------------- MODULE UnixSocketProofs --------------------------
(***************************************************************************)
(* UnixSocket for any number of sends and any depth of re-entrance: what   *)
(* the frames of the C++ stack promise each other while callbacks call the *)
(* socket whose methods are still running.                                 *)
(***************************************************************************)
EXTENDS UnixSocket, TLAPS

FrameSet == [at : Labels, n : 0 .. MaxAtOnce]

\* Frames that fail the send queue; frames after which the event loop finds
\* the socket registered for what it waits for; frames that cannot wait for
\* a callback, since they go on at once.
Fails == {"closeNowFail", "errorFail"}
Settling == {"trySend", "socketError"} \cup Fails
AtOnce == {"closeNow", "socketError"}
Loops == {"trySend", "tryReceive"}
Throwing == Loops \cup {"socketError"}
Destroying == {"destroyEnd"}
Closing == {"closeNow", "closeNowFail"}
Unused == {"user", "closeShutdown"}
ErrorStart == {"socketError"}
ErrorFail == {"errorFail"}

Has(st, labels) == \E i \in DOMAIN st : st[i].at \in labels
OnlyUnused(st) == \A i \in DOMAIN st : st[i].at \in Unused

-----------------------------------------------------------------------------
(* The inductive invariant *)

\* A frame that goes on at once is on top; below a loop is a frame with a
\* DestructorGuard; a frame that fails the queue is never below one that would
\* send; and destroy() runs once.
StackOK(st) ==
  /\ \A i \in 2 .. Len(st) : st[i].at \notin AtOnce
  /\ \A i \in 1 .. Len(st) : st[i].at \in Loops => \E j \in (i + 1) .. Len(st) : st[j].at \in Guards
  /\ \A i \in 1 .. Len(st) : st[i].at \in Throwing => \A j \in (i + 1) .. Len(st) : st[j].at \notin Fails
  /\ \A i \in 1 .. Len(st) : st[i].at \in Destroying => \A j \in (i + 1) .. Len(st) : st[j].at \notin Destroying

\* Above destroy() is a closeNow() that has not finished.
ClosesFirst(st) ==
  \A i \in 1 .. Len(st) : st[i].at \in Destroying => \E j \in 1 .. (i - 1) : st[j].at \in Closing

Quiet == registeredIOEvents = {} /\ ~isScheduled /\ ~receiveCallback /\ closeStarted

\* What the socket waits for, with frames that are still to settle it or not.
Registered ==
  /\ "READ" \in registeredIOEvents <=> receiveCallback
  /\ Has(stack, Fails) => Quiet
  /\ socket = "closed" => Quiet /\ (sendQueue # <<>> => Has(stack, ErrorFail))
  /\ Has(stack, ErrorFail) => socket = "closed"
  /\ Has(stack, ErrorStart) => socket = "open"
  /\ ~Has(stack, Settling) => /\ "WRITE" \in registeredIOEvents <=> sendQueue # <<>>
                              /\ isScheduled <=> sendQueue # <<>>
  /\ connecting \in {"idle", "waiting"} => stack = <<>> /\ sendQueue = <<>>

\* How far destroy() has come.
Destruction ==
  /\ owner => destroyed = "no" /\ ~Has(stack, Destroying)
  /\ destroyed # "no" => socket = "closed" /\ ~Has(stack, Destroying)
  /\ destroyed = "pending" => Has(stack, Guards)
  /\ destroyed = "done" => OnlyUnused(stack)
  /\ socket = "open" => ClosesFirst(stack)

\* The sends that wait are the latest, in their order.
Ordered ==
  /\ \A i, j \in DOMAIN sendQueue : i < j => sendQueue[i] < sendQueue[j]
  /\ \A i \in DOMAIN sendQueue, j \in DOMAIN answers :
       answers[j].result # "rejected" => answers[j].id < sendQueue[i]

Failed == \E i \in DOMAIN answers : answers[i].result = "error"

\* A send fails only in a loop that fails them all, and none fails in a
\* graceful close.
Failure ==
  /\ Failed => closeStarted /\ hard /\ (sendQueue # <<>> => Has(stack, Fails))
  /\ ~hard /\ Has(stack, Closing) => sendQueue = <<>>
  /\ Has(stack, ErrorFail) => hard

SendType ==
  /\ sendQueue \in Seq(1 .. MaxSends) /\ silent \subseteq 1 .. MaxSends /\ attempts \in 0 .. MaxSends
  /\ answers \in Seq([id : 1 .. MaxSends, result : {"success", "error", "rejected"}])

SendInv ==
  /\ SendType
  /\ Len(sendQueue) + Len(answers) = attempts
  /\ Waiting \union {answers[i].id : i \in DOMAIN answers} = 1 .. attempts
  /\ Ordered /\ InOrder

ControlType ==
  /\ socket \in {"open", "closed"}
  /\ registeredIOEvents \subseteq {"READ", "WRITE"}
  /\ closeStarted \in BOOLEAN /\ receiveCallback \in BOOLEAN /\ isScheduled \in BOOLEAN
  /\ owner \in BOOLEAN /\ destroyed \in {"no", "pending", "done"}
  /\ connecting \in {"idle", "waiting", "done", "failed"}
  /\ hard \in BOOLEAN /\ assertFailed \in BOOLEAN /\ connected \in BOOLEAN

StackInv == stack \in Seq(FrameSet) /\ StackOK(stack)

IInv == SendInv /\ ControlType /\ StackInv /\ Registered /\ Destruction /\ Failure

-----------------------------------------------------------------------------
(* Sequences *)

Push(f, st) == <<f>> \o st

LEMMA PushSeq ==
  ASSUME NEW f \in FrameSet, NEW st \in Seq(FrameSet)
  PROVE  /\ Push(f, st) \in Seq(FrameSet) /\ Len(Push(f, st)) = Len(st) + 1
         /\ Push(f, st)[1] = f
         /\ \A i \in 1 .. Len(st) : Push(f, st)[i + 1] = st[i]
         /\ \A i \in 2 .. (Len(st) + 1) : Push(f, st)[i] = st[i - 1]
         /\ Push(f, st) # <<>>
<1>1. <<f>> \in Seq(FrameSet) /\ Len(<<f>>) = 1 /\ <<f>>[1] = f
  OBVIOUS
<1>2. Push(f, st) \in Seq(FrameSet) /\ Len(Push(f, st)) = Len(st) + 1
  BY <1>1 DEF Push
<1>3. \A i \in 1 .. (Len(st) + 1) : Push(f, st)[i] = IF i <= 1 THEN <<f>>[i] ELSE st[i - 1]
  BY <1>1, <1>2 DEF Push
<1> QED
  BY <1>1, <1>2, <1>3

LEMMA PushTwo ==
  ASSUME NEW f \in FrameSet, NEW g \in FrameSet, NEW st \in Seq(FrameSet)
  PROVE  <<f, g>> \o st = Push(f, Push(g, st))
<1>1. <<f, g>> \o st \in Seq(FrameSet) /\ Len(<<f, g>> \o st) = Len(st) + 2
  OBVIOUS
<1>2. Push(f, Push(g, st)) \in Seq(FrameSet) /\ Len(Push(f, Push(g, st))) = Len(st) + 2
  BY PushSeq
<1>3. ASSUME NEW i \in 1 .. (Len(st) + 2) PROVE (<<f, g>> \o st)[i] = Push(f, Push(g, st))[i]
  <2>1. (<<f, g>> \o st)[i] = IF i <= 2 THEN <<f, g>>[i] ELSE st[i - 2]
    OBVIOUS
  <2>2. Push(g, st) \in Seq(FrameSet) /\ Len(Push(g, st)) = Len(st) + 1 /\ Push(g, st)[1] = g
    BY PushSeq
  <2>3. i > 2 => Push(g, st)[i - 1] = st[i - 2]
    BY PushSeq
  <2>4. Push(f, Push(g, st))[1] = f /\ (i > 1 => Push(f, Push(g, st))[i] = Push(g, st)[i - 1])
    BY <2>2, PushSeq
  <2> QED
    BY <2>1, <2>2, <2>3, <2>4
<1> QED
  BY <1>1, <1>2, <1>3

LEMMA TailSeq ==
  ASSUME NEW st \in Seq(FrameSet), st # <<>>
  PROVE  /\ Tail(st) \in Seq(FrameSet) /\ Len(Tail(st)) = Len(st) - 1 /\ Len(st) \in Nat \ {0}
         /\ Head(st) = st[1] /\ st[1] \in FrameSet
         /\ \A i \in 1 .. (Len(st) - 1) : Tail(st)[i] = st[i + 1]
         /\ \A i \in 2 .. Len(st) : Tail(st)[i - 1] = st[i]
OBVIOUS

-----------------------------------------------------------------------------
(* What a push and a pop do to the stack *)

LEMMA HasPush ==
  ASSUME NEW f \in FrameSet, NEW st \in Seq(FrameSet), NEW labels
  PROVE  Has(Push(f, st), labels) <=> f.at \in labels \/ Has(st, labels)
<1> DEFINE t == Push(f, st)
<1>1. DOMAIN st = 1 .. Len(st) /\ DOMAIN t = 1 .. (Len(st) + 1) /\ t[1] = f /\ Len(st) \in Nat
  BY PushSeq
<1>2. /\ \A i \in 1 .. Len(st) : t[i + 1] = st[i]
      /\ \A i \in 2 .. (Len(st) + 1) : t[i] = st[i - 1]
  BY PushSeq
<1> HIDE DEF t
<1>3. ASSUME Has(t, labels) PROVE f.at \in labels \/ Has(st, labels)
  BY <1>1, <1>2, <1>3 DEF Has
<1>4. ASSUME Has(st, labels) PROVE Has(t, labels)
  <2>1. PICK i \in 1 .. Len(st) : st[i].at \in labels
    BY <1>1, <1>4 DEF Has
  <2>2. i + 1 \in DOMAIN t /\ t[i + 1].at \in labels
    BY <1>1, <1>2, <2>1
  <2> QED
    BY <2>2 DEF Has
<1>5. f.at \in labels => Has(t, labels)
  BY <1>1 DEF Has
<1> QED
  BY <1>3, <1>4, <1>5 DEF t

LEMMA HasTail ==
  ASSUME NEW st \in Seq(FrameSet), st # <<>>, NEW labels
  PROVE  Has(st, labels) <=> Head(st).at \in labels \/ Has(Tail(st), labels)
<1>1. /\ DOMAIN st = 1 .. Len(st) /\ DOMAIN Tail(st) = 1 .. (Len(st) - 1) /\ Len(st) \in Nat \ {0}
      /\ Head(st) = st[1]
  BY TailSeq
<1>2. /\ \A i \in 1 .. (Len(st) - 1) : Tail(st)[i] = st[i + 1]
      /\ \A i \in 2 .. Len(st) : Tail(st)[i - 1] = st[i]
  BY TailSeq
<1>3. ASSUME Has(st, labels) PROVE Head(st).at \in labels \/ Has(Tail(st), labels)
  <2>1. PICK i \in 1 .. Len(st) : st[i].at \in labels
    BY <1>1, <1>3 DEF Has
  <2>2. i # 1 => i - 1 \in DOMAIN Tail(st) /\ Tail(st)[i - 1] = st[i]
    BY <1>1, <1>2
  <2> QED
    BY <1>1, <2>1, <2>2 DEF Has
<1>4. ASSUME Has(Tail(st), labels) PROVE Has(st, labels)
  <2>1. PICK i \in 1 .. (Len(st) - 1) : Tail(st)[i].at \in labels
    BY <1>1, <1>4 DEF Has
  <2>2. i + 1 \in DOMAIN st /\ st[i + 1].at \in labels
    BY <1>1, <1>2, <2>1
  <2> QED
    BY <2>2 DEF Has
<1>5. Head(st).at \in labels => Has(st, labels)
  BY <1>1 DEF Has
<1> QED
  BY <1>3, <1>4, <1>5

\* What a frame needs of the stack it is put on.
LEMMA PushStack ==
  ASSUME NEW f \in FrameSet, NEW st \in Seq(FrameSet), StackOK(st), ~Has(st, AtOnce),
         f.at \in Loops => Has(st, Guards),
         f.at \in Throwing => ~Has(st, Fails),
         f.at \in Destroying => ~Has(st, Destroying)
  PROVE  StackOK(Push(f, st))
<1> DEFINE t == Push(f, st)
<1>1. DOMAIN st = 1 .. Len(st) /\ Len(t) = Len(st) + 1 /\ t[1] = f /\ Len(st) \in Nat
  BY PushSeq
<1>2. \A i \in 1 .. Len(st) : t[i + 1] = st[i]
  BY PushSeq
<1>3. \A i \in 2 .. Len(t) : i - 1 \in 1 .. Len(st) /\ t[i] = st[i - 1]
  <2>1. \A i \in 2 .. (Len(st) + 1) : t[i] = st[i - 1]
    BY PushSeq
  <2> QED
    BY <1>1, <2>1
<1> HIDE DEF t
<1>4. \A i \in 2 .. Len(t) : t[i].at \notin AtOnce
  BY <1>1, <1>3 DEF Has
<1>5. ASSUME NEW i \in 1 .. Len(t), t[i].at \in Loops
      PROVE  \E j \in (i + 1) .. Len(t) : t[j].at \in Guards
  <2>1. CASE i = 1
    <3>1. PICK k \in 1 .. Len(st) : st[k].at \in Guards
      BY <1>1, <1>5, <2>1 DEF Has
    <3>2. k + 1 \in (i + 1) .. Len(t) /\ t[k + 1].at \in Guards
      BY <1>1, <1>2, <2>1, <3>1
    <3> QED
      BY <3>2
  <2>2. CASE i # 1
    <3>1. i - 1 \in 1 .. Len(st) /\ st[i - 1].at \in Loops
      BY <1>1, <1>3, <1>5, <2>2
    <3>2. PICK k \in ((i - 1) + 1) .. Len(st) : st[k].at \in Guards
      BY <3>1 DEF StackOK
    <3>3. k + 1 \in (i + 1) .. Len(t) /\ t[k + 1].at \in Guards
      BY <1>1, <1>2, <3>1, <3>2
    <3> QED
      BY <3>3
  <2> QED
    BY <2>1, <2>2
<1>6. ASSUME NEW i \in 1 .. Len(t), t[i].at \in Throwing, NEW j \in (i + 1) .. Len(t)
      PROVE  t[j].at \notin Fails
  <2>1. j - 1 \in 1 .. Len(st) /\ t[j] = st[j - 1]
    BY <1>1, <1>3
  <2>2. CASE i = 1
    BY <1>1, <1>6, <2>1, <2>2 DEF Has
  <2>3. CASE i # 1
    <3>1. i - 1 \in 1 .. Len(st) /\ st[i - 1].at \in Throwing /\ j - 1 \in ((i - 1) + 1) .. Len(st)
      BY <1>1, <1>3, <1>6, <2>3
    <3> QED
      BY <2>1, <3>1 DEF StackOK
  <2> QED
    BY <2>2, <2>3
<1>7. ASSUME NEW i \in 1 .. Len(t), t[i].at \in Destroying, NEW j \in (i + 1) .. Len(t)
      PROVE  t[j].at \notin Destroying
  <2>1. j - 1 \in 1 .. Len(st) /\ t[j] = st[j - 1]
    BY <1>1, <1>3
  <2>2. CASE i = 1
    BY <1>1, <1>7, <2>1, <2>2 DEF Has
  <2>3. CASE i # 1
    <3>1. i - 1 \in 1 .. Len(st) /\ st[i - 1].at \in Destroying /\ j - 1 \in ((i - 1) + 1) .. Len(st)
      BY <1>1, <1>3, <1>7, <2>3
    <3> QED
      BY <2>1, <3>1 DEF StackOK
  <2> QED
    BY <2>2, <2>3
<1> QED
  BY <1>4, <1>5, <1>6, <1>7 DEF StackOK, t

\* What is known of the rest of the stack when its top goes on.
LEMMA PopStack ==
  ASSUME NEW st \in Seq(FrameSet), st # <<>>, StackOK(st)
  PROVE  /\ StackOK(Tail(st)) /\ ~Has(Tail(st), AtOnce)
         /\ Head(st).at \in Loops => Has(Tail(st), Guards)
         /\ Head(st).at \in Throwing => ~Has(Tail(st), Fails)
         /\ Head(st).at \in Destroying => ~Has(Tail(st), Destroying)
<1> DEFINE t == Tail(st)
<1>1. /\ DOMAIN t = 1 .. Len(t) /\ Len(st) = Len(t) + 1 /\ Len(t) \in Nat
      /\ Head(st) = st[1] /\ 1 \in 1 .. Len(st)
  BY TailSeq
<1>2. \A i \in 1 .. Len(t) : t[i] = st[i + 1] /\ i + 1 \in 2 .. Len(st)
  BY <1>1, TailSeq
<1>3. \A i \in 2 .. Len(st) : t[i - 1] = st[i] /\ i - 1 \in 1 .. Len(t)
  BY <1>1, TailSeq
<1> HIDE DEF t
<1>4. ~Has(t, AtOnce)
  BY <1>1, <1>2 DEF Has, StackOK
<1>5. \A i \in 2 .. Len(t) : t[i].at \notin AtOnce
  BY <1>1, <1>4 DEF Has
<1>6. ASSUME NEW i \in 1 .. Len(t), t[i].at \in Loops
      PROVE  \E j \in (i + 1) .. Len(t) : t[j].at \in Guards
  <2>1. i + 1 \in 1 .. Len(st) /\ st[i + 1].at \in Loops
    BY <1>1, <1>2, <1>6
  <2>2. PICK k \in ((i + 1) + 1) .. Len(st) : st[k].at \in Guards
    BY <2>1 DEF StackOK
  <2>3. k - 1 \in (i + 1) .. Len(t) /\ t[k - 1].at \in Guards
    BY <1>1, <1>3, <2>1, <2>2
  <2> QED
    BY <2>3
<1>7. ASSUME NEW i \in 1 .. Len(t), NEW j \in (i + 1) .. Len(t)
      PROVE  /\ t[i].at \in Throwing => t[j].at \notin Fails
             /\ t[i].at \in Destroying => t[j].at \notin Destroying
  <2>1. /\ i + 1 \in 1 .. Len(st) /\ j + 1 \in ((i + 1) + 1) .. Len(st)
        /\ t[i] = st[i + 1] /\ t[j] = st[j + 1]
    BY <1>1, <1>2
  <2> QED
    BY <2>1 DEF StackOK
<1>8. Head(st).at \in Loops => Has(t, Guards)
  <2> SUFFICES ASSUME Head(st).at \in Loops PROVE Has(t, Guards)
    OBVIOUS
  <2>1. PICK k \in (1 + 1) .. Len(st) : st[k].at \in Guards
    BY <1>1 DEF StackOK
  <2>2. k - 1 \in DOMAIN t /\ t[k - 1].at \in Guards
    BY <1>1, <1>3, <2>1
  <2> QED
    BY <2>2 DEF Has
<1>9. /\ Head(st).at \in Throwing => ~Has(t, Fails)
      /\ Head(st).at \in Destroying => ~Has(t, Destroying)
  <2> SUFFICES ASSUME NEW i \in DOMAIN t
               PROVE  /\ Head(st).at \in Throwing => t[i].at \notin Fails
                      /\ Head(st).at \in Destroying => t[i].at \notin Destroying
    BY DEF Has
  <2>1. i + 1 \in (1 + 1) .. Len(st) /\ t[i] = st[i + 1]
    BY <1>1, <1>2
  <2> QED
    BY <1>1, <2>1 DEF StackOK
<1>10. StackOK(t)
  BY <1>5, <1>6, <1>7 DEF StackOK
<1> QED
  BY <1>4, <1>8, <1>9, <1>10 DEF t

LEMMA PushCloses ==
  ASSUME NEW f \in FrameSet, NEW st \in Seq(FrameSet), f.at \notin Destroying,
         f.at \in Closing \/ ClosesFirst(st)
  PROVE  ClosesFirst(Push(f, st))
<1> DEFINE t == Push(f, st)
<1>1. Len(t) = Len(st) + 1 /\ t[1] = f /\ Len(st) \in Nat
  BY PushSeq
<1>2. \A i \in 1 .. Len(st) : t[i + 1] = st[i]
  BY PushSeq
<1>3. \A i \in 2 .. Len(t) : i - 1 \in 1 .. Len(st) /\ t[i] = st[i - 1]
  BY <1>1, PushSeq
<1> HIDE DEF t
<1> SUFFICES ASSUME NEW i \in 1 .. Len(t), t[i].at \in Destroying
             PROVE  \E j \in 1 .. (i - 1) : t[j].at \in Closing
  BY DEF ClosesFirst, t
<1>4. i \in 2 .. Len(t) /\ 1 \in 1 .. (i - 1)
  BY <1>1
<1>5. CASE f.at \in Closing
  BY <1>1, <1>4, <1>5
<1>6. CASE ClosesFirst(st)
  <2>1. i - 1 \in 1 .. Len(st) /\ st[i - 1].at \in Destroying
    BY <1>3, <1>4
  <2>2. PICK k \in 1 .. ((i - 1) - 1) : st[k].at \in Closing
    BY <1>6, <2>1 DEF ClosesFirst
  <2>3. k + 1 \in 1 .. (i - 1) /\ t[k + 1].at \in Closing
    BY <1>1, <1>2, <2>1, <2>2
  <2> QED
    BY <2>3
<1> QED
  BY <1>5, <1>6

LEMMA PopCloses ==
  ASSUME NEW st \in Seq(FrameSet), st # <<>>, ClosesFirst(st)
  PROVE  /\ Head(st).at \notin Destroying
         /\ Head(st).at \notin Closing => ClosesFirst(Tail(st))
<1> DEFINE t == Tail(st)
<1>1. Len(st) = Len(t) + 1 /\ Len(t) \in Nat /\ Head(st) = st[1] /\ 1 \in 1 .. Len(st)
  BY TailSeq
<1>2. \A i \in 1 .. Len(t) : t[i] = st[i + 1]
  BY <1>1, TailSeq
<1>3. \A i \in 2 .. Len(st) : t[i - 1] = st[i]
  BY <1>1, TailSeq
<1> HIDE DEF t
<1>4. Head(st).at \notin Destroying
  BY <1>1 DEF ClosesFirst
<1>5. ASSUME Head(st).at \notin Closing, NEW i \in 1 .. Len(t), t[i].at \in Destroying
      PROVE  \E j \in 1 .. (i - 1) : t[j].at \in Closing
  <2>1. i + 1 \in 1 .. Len(st) /\ st[i + 1].at \in Destroying
    BY <1>1, <1>2, <1>5
  <2>2. PICK k \in 1 .. ((i + 1) - 1) : st[k].at \in Closing
    BY <2>1 DEF ClosesFirst
  <2>3. k \in 2 .. Len(st) /\ k - 1 \in 1 .. (i - 1) /\ t[k - 1].at \in Closing
    BY <1>1, <1>3, <1>5, <2>1, <2>2
  <2> QED
    BY <2>3
<1> QED
  BY <1>4, <1>5 DEF ClosesFirst, t

-----------------------------------------------------------------------------
(* The send queue and its answers *)

AnswerSet == [id : 1 .. MaxSends, result : {"success", "error", "rejected"}]
Answered == {answers[i].id : i \in DOMAIN answers}

\* A new answer, and what becomes of the answers there are.
LEMMA AppendAnswer ==
  ASSUME SendType, NEW a \in AnswerSet, answers' = Append(answers, a)
  PROVE  /\ answers' \in Seq(AnswerSet) /\ Len(answers') = Len(answers) + 1
         /\ DOMAIN answers' = 1 .. (Len(answers) + 1) /\ DOMAIN answers = 1 .. Len(answers)
         /\ answers'[Len(answers) + 1] = a /\ Len(answers) \in Nat
         /\ \A i \in 1 .. Len(answers) : answers'[i] = answers[i] /\ answers[i] \in AnswerSet
         /\ Answered' = Answered \cup {a.id}
         /\ Failed' <=> (Failed \/ a.result = "error")
<1>0. answers \in Seq(AnswerSet)
  BY DEF SendType, AnswerSet
<1>1. /\ answers' \in Seq(AnswerSet) /\ Len(answers') = Len(answers) + 1
      /\ DOMAIN answers' = 1 .. (Len(answers) + 1) /\ DOMAIN answers = 1 .. Len(answers)
      /\ answers'[Len(answers) + 1] = a /\ Len(answers) \in Nat
  BY <1>0
<1>2. \A i \in 1 .. Len(answers) : answers'[i] = answers[i] /\ answers[i] \in AnswerSet
  BY <1>0
<1>3. \A i \in DOMAIN answers' : i \in DOMAIN answers \/ i = Len(answers) + 1
  BY <1>1
<1>4. DOMAIN answers \subseteq DOMAIN answers' /\ Len(answers) + 1 \in DOMAIN answers'
  BY <1>1
<1>5. Answered' = Answered \cup {a.id}
  BY <1>1, <1>2, <1>3, <1>4 DEF Answered
<1>6. Failed' <=> (Failed \/ a.result = "error")
  BY <1>1, <1>2, <1>3, <1>4 DEF Failed
<1> QED
  BY <1>1, <1>2, <1>5, <1>6

LEMMA QueueLengths ==
  ASSUME SendInv
  PROVE  /\ Len(sendQueue) + Len(answers) = attempts
         /\ Len(sendQueue) \in Nat /\ Len(answers) \in Nat /\ attempts \in Nat
<1>1. sendQueue \in Seq(1 .. MaxSends) /\ answers \in Seq(AnswerSet) /\ attempts \in 0 .. MaxSends
  BY DEF SendInv, SendType, AnswerSet
<1> QED
  BY <1>1 DEF SendInv

LEMMA QueueSame ==
  ASSUME SendInv, UNCHANGED sendVars
  PROVE  SendInv' /\ (Failed' <=> Failed)
BY DEF SendInv, sendVars, SendType, Waiting, Ordered, InOrder, Failed

LEMMA QueueEnqueue ==
  ASSUME SendInv, attempts < MaxSends, attempts' = attempts + 1, UNCHANGED answers,
         silent' \subseteq silent \cup {attempts + 1}, sendQueue' = Append(sendQueue, attempts + 1)
  PROVE  SendInv' /\ (Failed' <=> Failed) /\ sendQueue' # <<>>
<1>1. /\ attempts \in 0 .. MaxSends /\ attempts + 1 \in 1 .. MaxSends /\ MaxSends \in Nat
      /\ sendQueue \in Seq(1 .. MaxSends)
  BY BoundAssumption DEF SendInv, SendType
<1>2. /\ sendQueue' \in Seq(1 .. MaxSends) /\ Len(sendQueue') = Len(sendQueue) + 1
      /\ DOMAIN sendQueue' = 1 .. (Len(sendQueue) + 1) /\ DOMAIN sendQueue = 1 .. Len(sendQueue)
      /\ sendQueue'[Len(sendQueue) + 1] = attempts + 1 /\ Len(sendQueue) \in Nat
      /\ \A i \in 1 .. Len(sendQueue) : sendQueue'[i] = sendQueue[i]
  BY <1>1
<1>3. Waiting' = Waiting \cup {attempts + 1}
  <2>1. \A i \in DOMAIN sendQueue' : i \in DOMAIN sendQueue \/ i = Len(sendQueue) + 1
    BY <1>2
  <2>2. DOMAIN sendQueue \subseteq DOMAIN sendQueue' /\ Len(sendQueue) + 1 \in DOMAIN sendQueue'
    BY <1>2
  <2> QED
    BY <1>2, <2>1, <2>2 DEF Waiting
<1>4. SendType'
  BY <1>1, <1>2 DEF SendInv, SendType
<1>5. Len(sendQueue') + Len(answers') = attempts'
  BY <1>2, QueueLengths
<1>6. (Waiting \union Answered)' = 1 .. attempts'
  <2>1. 1 .. (attempts + 1) = (1 .. attempts) \cup {attempts + 1}
    BY <1>1
  <2> QED
    BY <1>3, <2>1 DEF SendInv, Answered
<1>7. \A i \in DOMAIN sendQueue : sendQueue[i] \in 1 .. attempts
  BY DEF SendInv, Waiting
<1>8. \A j \in DOMAIN answers : answers[j].id \in 1 .. attempts
  BY DEF SendInv
<1>9. Ordered'
  <2>1. ASSUME NEW i \in DOMAIN sendQueue', NEW j \in DOMAIN sendQueue', i < j
        PROVE  sendQueue'[i] < sendQueue'[j]
    BY <1>1, <1>2, <1>7, <2>1 DEF SendInv, Ordered
  <2>2. ASSUME NEW i \in DOMAIN sendQueue', NEW j \in DOMAIN answers, answers[j].result # "rejected"
        PROVE  answers[j].id < sendQueue'[i]
    BY <1>1, <1>2, <1>8, <2>2 DEF SendInv, Ordered
  <2> QED
    BY <2>1, <2>2 DEF Ordered
<1>10. InOrder' /\ (Failed' <=> Failed)
  BY DEF SendInv, InOrder, Failed
<1>11. sendQueue' # <<>>
  BY <1>2
<1> QED
  BY <1>4, <1>5, <1>6, <1>9, <1>10, <1>11 DEF SendInv, Answered

LEMMA QueueReject ==
  ASSUME SendInv, attempts < MaxSends, attempts' = attempts + 1, UNCHANGED <<sendQueue, silent>>,
         Answer(attempts + 1, "rejected")
  PROVE  SendInv' /\ (Failed' <=> Failed)
<1> DEFINE a == [id |-> attempts + 1, result |-> "rejected"]
<1>1. /\ attempts \in 0 .. MaxSends /\ attempts + 1 \in 1 .. MaxSends /\ MaxSends \in Nat
      /\ a \in AnswerSet /\ answers' = Append(answers, a) /\ SendType
  BY BoundAssumption DEF SendInv, SendType, AnswerSet, Answer
<1>2. /\ answers' \in Seq(AnswerSet) /\ Len(answers') = Len(answers) + 1
      /\ DOMAIN answers' = 1 .. (Len(answers) + 1) /\ DOMAIN answers = 1 .. Len(answers)
      /\ answers'[Len(answers) + 1] = a /\ Len(answers) \in Nat
      /\ \A i \in 1 .. Len(answers) : answers'[i] = answers[i] /\ answers[i] \in AnswerSet
      /\ Answered' = Answered \cup {a.id}
      /\ Failed' <=> (Failed \/ a.result = "error")
  BY <1>1, AppendAnswer
<1>3. SendType'
  BY <1>1, <1>2 DEF SendType, AnswerSet
<1>4. Len(sendQueue') + Len(answers') = attempts'
  BY <1>2, QueueLengths
<1>5. (Waiting \union Answered)' = 1 .. attempts'
  <2>1. 1 .. (attempts + 1) = (1 .. attempts) \cup {attempts + 1}
    BY <1>1
  <2> QED
    BY <1>2, <2>1 DEF SendInv, Answered, Waiting
<1>6. a.result = "rejected" /\ "rejected" # "error"
  OBVIOUS
<1> HIDE DEF a
<1>7. Ordered'
  BY <1>2, <1>6 DEF SendInv, Ordered
<1>8. InOrder'
  BY <1>2, <1>6 DEF SendInv, InOrder
<1> QED
  BY <1>2, <1>3, <1>4, <1>5, <1>6, <1>7, <1>8 DEF SendInv, Answered

LEMMA QueueAnswer ==
  ASSUME SendInv, sendQueue # <<>>, sendQueue' = Tail(sendQueue), UNCHANGED <<attempts, silent>>,
         NEW r \in {"success", "error"}, r = "success" => ~Failed, Answer(Head(sendQueue), r)
  PROVE  SendInv' /\ (Failed' <=> (Failed \/ r = "error"))
<1> DEFINE a == [id |-> Head(sendQueue), result |-> r]
<1>1. /\ sendQueue \in Seq(1 .. MaxSends) /\ SendType /\ attempts \in Nat
      /\ DOMAIN sendQueue = 1 .. Len(sendQueue) /\ Len(sendQueue) \in Nat \ {0}
      /\ Head(sendQueue) = sendQueue[1] /\ sendQueue[1] \in 1 .. MaxSends
  BY BoundAssumption DEF SendInv, SendType
<1>2. /\ sendQueue' \in Seq(1 .. MaxSends) /\ Len(sendQueue') = Len(sendQueue) - 1
      /\ DOMAIN sendQueue' = 1 .. (Len(sendQueue) - 1)
      /\ \A i \in 1 .. (Len(sendQueue) - 1) : sendQueue'[i] = sendQueue[i + 1]
      /\ \A i \in 2 .. Len(sendQueue) : sendQueue[i] = sendQueue'[i - 1]
  BY <1>1
<1>3. a \in AnswerSet /\ answers' = Append(answers, a)
  BY <1>1 DEF AnswerSet, Answer
<1>4. /\ answers' \in Seq(AnswerSet) /\ Len(answers') = Len(answers) + 1
      /\ DOMAIN answers' = 1 .. (Len(answers) + 1) /\ DOMAIN answers = 1 .. Len(answers)
      /\ answers'[Len(answers) + 1] = a /\ Len(answers) \in Nat
      /\ \A i \in 1 .. Len(answers) : answers'[i] = answers[i] /\ answers[i] \in AnswerSet
      /\ Answered' = Answered \cup {a.id}
      /\ Failed' <=> (Failed \/ a.result = "error")
  BY <1>1, <1>3, AppendAnswer
<1>5. a.id = sendQueue[1] /\ a.result = r /\ r # "rejected"
  BY <1>1
<1> HIDE DEF a
<1>6. SendType'
  BY <1>1, <1>2, <1>4 DEF SendType, AnswerSet
<1>7. Len(sendQueue') + Len(answers') = attempts'
  BY <1>2, <1>4, QueueLengths
<1>8. Waiting = Waiting' \cup {sendQueue[1]}
  <2>1. \A i \in DOMAIN sendQueue : i = 1 \/ (i - 1 \in DOMAIN sendQueue' /\ sendQueue[i] = sendQueue'[i - 1])
    BY <1>1, <1>2
  <2>2. \A i \in DOMAIN sendQueue' : i + 1 \in DOMAIN sendQueue /\ sendQueue'[i] = sendQueue[i + 1]
    BY <1>1, <1>2
  <2>3. 1 \in DOMAIN sendQueue
    BY <1>1
  <2>4. Waiting \subseteq Waiting' \cup {sendQueue[1]}
    BY <2>1 DEF Waiting
  <2>5. Waiting' \subseteq Waiting
    BY <2>2 DEF Waiting
  <2>6. sendQueue[1] \in Waiting
    BY <2>3 DEF Waiting
  <2> QED
    BY <2>4, <2>5, <2>6
<1>9. (Waiting \union Answered)' = 1 .. attempts'
  BY <1>4, <1>5, <1>8 DEF SendInv, Answered
<1>10. Ordered'
  <2>1. ASSUME NEW i \in DOMAIN sendQueue', NEW j \in DOMAIN sendQueue', i < j
        PROVE  sendQueue'[i] < sendQueue'[j]
    <3>1. i + 1 \in DOMAIN sendQueue /\ j + 1 \in DOMAIN sendQueue /\ i + 1 < j + 1
      BY <1>1, <1>2, <2>1
    <3>2. sendQueue[i + 1] < sendQueue[j + 1]
      BY <3>1 DEF SendInv, Ordered
    <3> QED
      BY <1>2, <3>2
  <2>2. ASSUME NEW i \in DOMAIN sendQueue', NEW j \in DOMAIN answers', answers'[j].result # "rejected"
        PROVE  answers'[j].id < sendQueue'[i]
    <3>1. i + 1 \in DOMAIN sendQueue /\ 1 \in DOMAIN sendQueue /\ 1 < i + 1 /\ sendQueue'[i] = sendQueue[i + 1]
      BY <1>1, <1>2
    <3>2. CASE j = Len(answers) + 1
      <4>1. sendQueue[1] < sendQueue[i + 1]
        BY <3>1 DEF SendInv, Ordered
      <4> QED
        BY <1>4, <1>5, <3>1, <3>2, <4>1
    <3>3. CASE j # Len(answers) + 1
      <4>1. j \in DOMAIN answers /\ answers'[j] = answers[j]
        BY <1>4, <3>3
      <4> QED
        BY <2>2, <3>1, <4>1 DEF SendInv, Ordered
    <3> QED
      BY <3>2, <3>3
  <2> QED
    BY <2>1, <2>2 DEF Ordered
<1>11. InOrder'
  <2> SUFFICES ASSUME NEW i \in DOMAIN answers', NEW j \in DOMAIN answers', i < j,
                      answers'[i].result # "rejected", answers'[j].result # "rejected"
               PROVE  /\ answers'[i].id < answers'[j].id
                      /\ answers'[i].result = "error" => answers'[j].result = "error"
    BY DEF InOrder
  <2>1. i \in DOMAIN answers /\ answers'[i] = answers[i]
    BY <1>4
  <2>2. CASE j = Len(answers) + 1
    <3>1. 1 \in DOMAIN sendQueue
      BY <1>1
    <3>2. answers[i].id < sendQueue[1]
      BY <2>1, <3>1 DEF SendInv, Ordered
    <3>3. answers[i].result = "error" => r = "error"
      BY <2>1 DEF Failed
    <3> QED
      BY <1>4, <1>5, <2>1, <2>2, <3>2, <3>3
  <2>3. CASE j # Len(answers) + 1
    <3>1. j \in DOMAIN answers /\ answers'[j] = answers[j]
      BY <1>4, <2>3
    <3> QED
      BY <2>1, <3>1 DEF SendInv, InOrder
  <2> QED
    BY <2>2, <2>3
<1> QED
  BY <1>4, <1>5, <1>6, <1>7, <1>9, <1>10, <1>11 DEF SendInv, Answered

-----------------------------------------------------------------------------
(* The stack, and the destruction that waits for its guards *)

LEMMA FrameType ==
  ASSUME NEW l \in Labels
  PROVE  Frame(l) \in FrameSet /\ Frame(l).at = l
BY BoundAssumption DEF Frame, FrameSet

LEMMA UnguardedUnused ==
  ASSUME NEW st \in Seq(FrameSet), StackOK(st), ~Has(st, Guards), ~Has(st, AtOnce), ~Has(st, Destroying)
  PROVE  OnlyUnused(st)
<1> SUFFICES ASSUME NEW i \in DOMAIN st PROVE st[i].at \in Unused
  BY DEF OnlyUnused
<1>1. DOMAIN st = 1 .. Len(st) /\ Len(st) \in Nat /\ st[i] \in FrameSet
  OBVIOUS
<1>2. st[i].at \in Labels
  BY <1>1 DEF FrameSet
<1>3. st[i].at \notin Guards /\ st[i].at \notin AtOnce /\ st[i].at \notin Destroying
  BY DEF Has
<1>4. st[i].at \notin Loops
  <2> SUFFICES ASSUME st[i].at \in Loops PROVE FALSE
    OBVIOUS
  <2>1. PICK j \in (i + 1) .. Len(st) : st[j].at \in Guards
    BY <1>1 DEF StackOK
  <2>2. j \in DOMAIN st
    BY <1>1, <2>1
  <2> QED
    BY <2>1, <2>2 DEF Has
<1> QED
  BY <1>2, <1>3, <1>4 DEF Labels, Guards, AtOnce, Destroying, Loops, Unused

LEMMA DestructionKept ==
  ASSUME Destruction, ControlType, NEW st, Resume(st), owner' = owner, socket' \in {socket, "closed"},
         Has(st, Destroying) => Has(stack, Destroying),
         destroyed = "pending" /\ ~Has(st, Guards) => OnlyUnused(st),
         destroyed = "done" => OnlyUnused(st),
         socket' = "open" => ClosesFirst(st)
  PROVE  Destruction' /\ destroyed' \in {"no", "pending", "done"}
<1>1. /\ stack' = st
      /\ destroyed' = IF destroyed = "pending" /\ ~Has(st, Guards) THEN "done" ELSE destroyed
  BY DEF Resume, Guarded, Has
<1>2. destroyed' \in {"no", "pending", "done"}
  BY <1>1 DEF ControlType
<1>3. destroyed' # "no" => destroyed # "no"
  BY <1>1
<1>4. /\ owner' => destroyed' = "no" /\ ~Has(stack', Destroying)
      /\ destroyed' # "no" => socket' = "closed" /\ ~Has(stack', Destroying)
  BY <1>1, <1>3 DEF Destruction
<1>5. /\ destroyed' = "pending" => Has(stack', Guards)
      /\ destroyed' = "done" => OnlyUnused(stack')
  BY <1>1 DEF Destruction
<1> QED
  BY <1>1, <1>2, <1>4, <1>5 DEF Destruction

\* The top frame returns.
LEMMA PopResume ==
  ASSUME StackInv, ControlType, Destruction, stack # <<>>, Resume(Tail(stack)), owner' = owner,
         Head(stack).at \notin Destroying,
         socket' = "closed" \/ (socket' = socket /\ Head(stack).at \notin Closing)
  PROVE  StackInv' /\ Destruction' /\ destroyed' \in {"no", "pending", "done"} /\ stack' = Tail(stack)
<1> DEFINE t == Tail(stack)
<1>1. stack \in Seq(FrameSet) /\ StackOK(stack) /\ t \in Seq(FrameSet) /\ stack' = t
  BY TailSeq DEF StackInv, Resume
<1>2. StackOK(t) /\ ~Has(t, AtOnce)
  BY <1>1, PopStack
<1>3. \A labels : Has(stack, labels) <=> Head(stack).at \in labels \/ Has(t, labels)
  BY <1>1, HasTail
<1>4. socket' = "open" => ClosesFirst(t)
  BY <1>1, PopCloses DEF Destruction, ControlType
<1>5. OnlyUnused(stack) => OnlyUnused(t)
  <2>1. \A i \in DOMAIN t : i + 1 \in DOMAIN stack /\ t[i] = stack[i + 1]
    BY <1>1, TailSeq
  <2> QED
    BY <2>1 DEF OnlyUnused
<1>6. destroyed = "pending" /\ ~Has(t, Guards) => OnlyUnused(t)
  BY <1>1, <1>2, <1>3, UnguardedUnused DEF Destruction
<1> HIDE DEF t
<1>7. Destruction' /\ destroyed' \in {"no", "pending", "done"}
  <2>1. Resume(t) /\ socket' \in {socket, "closed"}
    BY DEF t
  <2>2. destroyed = "done" => OnlyUnused(t)
    BY <1>5 DEF Destruction
  <2>3. Has(t, Destroying) => Has(stack, Destroying)
    BY <1>3
  <2> QED
    BY <1>4, <1>6, <2>1, <2>2, <2>3, DestructionKept
<1> QED
  BY <1>1, <1>2, <1>7 DEF StackInv, t

\* The stack grows, or its top is replaced above the guard that its caller holds.
LEMMA GrowResume ==
  ASSUME ControlType, Destruction, NEW st \in Seq(FrameSet), StackOK(st), Resume(st), owner' = owner,
         socket' \in {socket, "closed"},
         Has(st, Destroying) => Has(stack, Destroying),
         destroyed # "done",
         destroyed = "pending" => Has(st, Guards),
         socket' = "open" => ClosesFirst(st)
  PROVE  StackInv' /\ Destruction' /\ destroyed' \in {"no", "pending", "done"} /\ stack' = st
<1>1. Destruction' /\ destroyed' \in {"no", "pending", "done"}
  BY DestructionKept
<1>2. stack' = st
  BY DEF Resume
<1> QED
  BY <1>1, <1>2 DEF StackInv

\* User code is on top, or nothing is.
LEMMA MayCallStack ==
  ASSUME StackInv, MayCall
  PROVE  stack \in Seq(FrameSet) /\ StackOK(stack) /\ ~Has(stack, AtOnce) /\ destroyed # "done"
<1>1. CASE stack = <<>>
  BY <1>1 DEF StackInv, Has, MayCall
<1>2. CASE stack # <<>>
  <2>1. Head(stack).at = "user" /\ ~Has(Tail(stack), AtOnce)
    BY <1>2, PopStack DEF MayCall, Top, StackInv
  <2>2. ~Has(stack, AtOnce)
    BY <1>2, <2>1, HasTail DEF StackInv, AtOnce
  <2> QED
    BY <2>2 DEF StackInv, MayCall
<1> QED
  BY <1>1, <1>2

LEMMA HasSubset ==
  ASSUME NEW st, NEW A, NEW B, A \subseteq B, Has(st, A)
  PROVE  Has(st, B)
BY DEF Has

\* Nothing but the stack changes, in frames that the registration does not depend on.
LEMMA SameRegistered ==
  ASSUME Registered, Failure, stack # <<>> \/ connecting = "done",
         UNCHANGED <<memberVars, sendVars, hard, connecting>>,
         Has(stack', Fails) <=> Has(stack, Fails),
         Has(stack', ErrorFail) <=> Has(stack, ErrorFail),
         Has(stack', ErrorStart) <=> Has(stack, ErrorStart),
         Has(stack', Settling) <=> Has(stack, Settling),
         Has(stack', Closing) => Has(stack, Closing)
  PROVE  Registered' /\ Failure'
<1>1. Quiet' <=> Quiet
  BY DEF Quiet, memberVars
<1>2. Failed' <=> Failed
  BY DEF Failed, sendVars
<1>3. Registered'
  BY <1>1 DEF Registered, memberVars, sendVars
<1>4. Failure'
  BY <1>2 DEF Failure, memberVars, sendVars
<1> QED
  BY <1>3, <1>4

\* A callback, a guard or a call that has nothing to do returns.
LEMMA PopStep ==
  ASSUME IInv, stack # <<>>, Resume(Tail(stack)),
         \/ Head(stack).at \in {"user", "sendCatch", "handlerEnd", "closeShutdown", "tryReceive"}
         \/ Head(stack).at = "closeNow" /\ socket = "closed",
         UNCHANGED <<memberVars, sendVars, owner, hard, connVars>>, assertFailed' \in BOOLEAN
  PROVE  IInv'
<1>1. StackInv /\ ControlType /\ Destruction /\ Registered /\ Failure /\ SendInv
  BY DEF IInv
<1>2. StackInv' /\ Destruction' /\ destroyed' \in {"no", "pending", "done"} /\ stack' = Tail(stack)
  BY <1>1, PopResume DEF memberVars, Destroying, Closing
<1>3. \A labels : Has(stack, labels) <=> Head(stack).at \in labels \/ Has(stack', labels)
  BY <1>1, <1>2, HasTail DEF StackInv
<1>4. Registered' /\ Failure'
  <2>1. Head(stack).at \notin Fails \cup ErrorFail \cup ErrorStart \cup Settling
    BY DEF Fails, ErrorFail, ErrorStart, Settling
  <2> QED
    BY <1>1, <1>3, <2>1, SameRegistered DEF connVars
<1>5. SendInv'
  BY <1>1, QueueSame
<1>6. ControlType'
  BY <1>1, <1>2 DEF ControlType, memberVars, connVars
<1> QED
  BY <1>2, <1>4, <1>5, <1>6 DEF IInv

\* Where there is something to send, nothing fails.
LEMMA TryingOpen ==
  ASSUME IInv, Top("trySend"), sendQueue # <<>>
  PROVE  /\ stack # <<>> /\ Head(stack).at = "trySend" /\ socket = "open" /\ ~Failed
         /\ ~Has(stack, Fails) /\ ~Has(stack, ErrorFail)
<1>1. stack # <<>> /\ Head(stack).at = "trySend" /\ StackInv
  BY DEF IInv, Top
<1>2. ~Has(Tail(stack), Fails)
  BY <1>1, PopStack DEF StackInv, Throwing, Loops
<1>3. ~Has(stack, Fails)
  BY <1>1, <1>2, HasTail DEF StackInv, Fails
<1>4. ~Has(stack, ErrorFail)
  BY <1>3, HasSubset DEF ErrorFail, Fails
<1>5. socket = "open"
  BY <1>4 DEF IInv, Registered, ControlType
<1>6. ~Failed
  BY <1>3 DEF IInv, Failure
<1> QED
  BY <1>1, <1>3, <1>4, <1>5, <1>6

\* The end of trySend() with something left to send.
LEMMA AwaitStep ==
  ASSUME IInv, Top("trySend"), sendQueue # <<>>, AwaitWritable,
         UNCHANGED <<socket, closeStarted, receiveCallback, sendVars, owner, histVars, connVars>>
  PROVE  IInv'
<1>1. StackInv /\ ControlType /\ Destruction /\ Registered /\ Failure /\ SendInv
  BY DEF IInv
<1>2. /\ stack # <<>> /\ Head(stack).at = "trySend" /\ socket = "open" /\ ~Failed
      /\ ~Has(stack, Fails) /\ ~Has(stack, ErrorFail)
  BY TryingOpen
<1>3. StackInv' /\ Destruction' /\ destroyed' \in {"no", "pending", "done"} /\ stack' = Tail(stack)
  BY <1>1, <1>2, PopResume DEF AwaitWritable, Rest, Destroying, Closing
<1>4. \A labels : Has(stack, labels) <=> Head(stack).at \in labels \/ Has(stack', labels)
  BY <1>1, <1>2, <1>3, HasTail DEF StackInv
<1>5. SendInv' /\ (Failed' <=> Failed)
  BY <1>1, QueueSame
<1>6. /\ isScheduled' = TRUE /\ registeredIOEvents' = registeredIOEvents \union {"WRITE"}
      /\ sendQueue' = sendQueue
  BY DEF AwaitWritable, sendVars
<1>7. ~Has(stack', Fails) /\ ~Has(stack', ErrorFail) /\ (Has(stack', Closing) => Has(stack, Closing))
  BY <1>2, <1>4
<1>8. Registered'
  <2>1. "READ" \in registeredIOEvents' <=> receiveCallback'
    BY <1>1, <1>6 DEF Registered
  <2>2. socket' = "open"
    BY <1>2
  <2>3. connecting' \notin {"idle", "waiting"}
    BY <1>1, <1>2 DEF Registered, connVars
  <2> QED
    BY <1>6, <1>7, <2>1, <2>2, <2>3 DEF Registered
<1>9. Failure'
  BY <1>1, <1>2, <1>5, <1>6, <1>7 DEF Failure, histVars
<1>10. ControlType'
  BY <1>1, <1>3, <1>6 DEF ControlType, connVars, histVars
<1> QED
  BY <1>3, <1>5, <1>8, <1>9, <1>10 DEF IInv

\* The end of trySend() with nothing left: a graceful close goes on.
LEMMA DrainedStep ==
  ASSUME IInv, Top("trySend"), sendQueue = <<>>, Drained,
         UNCHANGED <<socket, closeStarted, receiveCallback, sendVars, owner, histVars, connVars>>
  PROVE  IInv'
<1>1. StackInv /\ ControlType /\ Destruction /\ Registered /\ Failure /\ SendInv
  BY DEF IInv
<1>2. stack # <<>> /\ Head(stack).at = "trySend"
  BY DEF Top
<1>3. Tail(stack) \in Seq(FrameSet) /\ stack \in Seq(FrameSet) /\ StackOK(Tail(stack))
  BY <1>1, <1>2, TailSeq, PopStack DEF StackInv
<1>4. /\ ~Has(Tail(stack), AtOnce) /\ Has(Tail(stack), Guards) /\ ~Has(Tail(stack), Fails)
  BY <1>1, <1>2, PopStack DEF StackInv, Throwing, Loops
<1>5. \A labels : Has(stack, labels) <=> Head(stack).at \in labels \/ Has(Tail(stack), labels)
  BY <1>2, <1>3, HasTail
<1>6. ~Has(Tail(stack), ErrorFail) /\ ~Has(Tail(stack), ErrorStart)
  BY <1>4, HasSubset DEF ErrorFail, Fails, ErrorStart, AtOnce
<1>7. /\ StackInv' /\ Destruction' /\ destroyed' \in {"no", "pending", "done"}
      /\ ~Has(stack', Fails) /\ ~Has(stack', ErrorFail) /\ ~Has(stack', ErrorStart)
  <2>1. CASE closeStarted
    <3> DEFINE f == Frame("closeNow")
               t == Push(f, Tail(stack))
    <3>1. f \in FrameSet /\ f.at = "closeNow"
      BY FrameType DEF Labels
    <3> HIDE DEF f
    <3>2. Resume(t)
      BY <2>1 DEF Drained, Push, Rest, f
    <3>3. t \in Seq(FrameSet) /\ StackOK(t)
      BY <1>3, <1>4, <3>1, PushSeq, PushStack DEF Loops, Throwing, Destroying
    <3>4. \A labels : Has(t, labels) <=> f.at \in labels \/ Has(Tail(stack), labels)
      BY <1>3, <3>1, HasPush
    <3>5. ClosesFirst(t)
      BY <1>3, <3>1, PushCloses DEF Closing, Destroying
    <3>6. Has(t, Guards) /\ (Has(t, Destroying) => Has(stack, Destroying))
      BY <1>4, <1>5, <3>1, <3>4 DEF Destroying
    <3>7. destroyed # "done"
      <4>1. 1 \in DOMAIN stack /\ stack[1].at = "trySend"
        BY <1>2, <1>3, TailSeq
      <4> QED
        BY <1>1, <4>1 DEF Destruction, OnlyUnused, Unused
    <3>8. ~Has(t, Fails) /\ ~Has(t, ErrorFail) /\ ~Has(t, ErrorStart)
      BY <1>4, <1>6, <3>1, <3>4 DEF Fails, ErrorFail, ErrorStart
    <3> HIDE DEF t
    <3> QED
      BY <1>1, <3>2, <3>3, <3>5, <3>6, <3>7, <3>8, GrowResume
  <2>2. CASE ~closeStarted
    <3>1. StackInv' /\ Destruction' /\ destroyed' \in {"no", "pending", "done"} /\ stack' = Tail(stack)
      BY <1>1, <1>2, <2>2, PopResume DEF Drained, Rest, Destroying, Closing
    <3> QED
      BY <1>4, <1>6, <3>1
  <2> QED
    BY <2>1, <2>2 DEF IInv, ControlType
<1>8. SendInv' /\ (Failed' <=> Failed)
  BY <1>1, QueueSame
<1>9. /\ isScheduled' = FALSE /\ registeredIOEvents' = registeredIOEvents \ {"WRITE"}
      /\ sendQueue' = <<>>
  BY DEF Drained, sendVars
<1>10. Registered'
  <2>1. "READ" \in registeredIOEvents' <=> receiveCallback'
    BY <1>1, <1>9 DEF Registered
  <2>2. socket' = "closed" => Quiet'
    BY <1>1, <1>9 DEF Registered, Quiet
  <2>3. connecting' \notin {"idle", "waiting"}
    BY <1>1, <1>2 DEF Registered, connVars
  <2> QED
    BY <1>7, <1>9, <2>1, <2>2, <2>3 DEF Registered
<1>11. Failure'
  BY <1>1, <1>7, <1>8, <1>9 DEF Failure, histVars
<1>12. ControlType'
  BY <1>1, <1>7, <1>9 DEF ControlType, connVars, histVars
<1> QED
  BY <1>7, <1>8, <1>10, <1>11, <1>12 DEF IInv

LEMMA PushFrame ==
  ASSUME NEW f \in FrameSet, NEW st \in Seq(FrameSet), StackOK(st), ~Has(st, AtOnce),
         f.at \in Loops => Has(st, Guards),
         f.at \in Throwing => ~Has(st, Fails),
         f.at \in Destroying => ~Has(st, Destroying)
  PROVE  /\ Push(f, st) \in Seq(FrameSet) /\ StackOK(Push(f, st))
         /\ \A labels : Has(Push(f, st), labels) <=> f.at \in labels \/ Has(st, labels)
         /\ f.at \notin Destroying /\ (f.at \in Closing \/ ClosesFirst(st)) => ClosesFirst(Push(f, st))
BY PushSeq, PushStack, HasPush, PushCloses

\* A callback is called, or there is none.
LEMMA MaybeUser ==
  ASSUME NEW st \in Seq(FrameSet), StackOK(st), ~Has(st, AtOnce), NEW t \in {st, Push(User, st)}
  PROVE  /\ t \in Seq(FrameSet) /\ StackOK(t)
         /\ \A labels : "user" \notin labels => (Has(t, labels) <=> Has(st, labels))
         /\ ClosesFirst(st) => ClosesFirst(t)
<1>1. User \in FrameSet /\ User.at = "user"
  BY FrameType DEF User, Labels
<1>2. "user" \notin Loops \cup Throwing \cup Destroying
  BY DEF Loops, Throwing, Destroying
<1>3. /\ Push(User, st) \in Seq(FrameSet) /\ StackOK(Push(User, st))
      /\ \A labels : Has(Push(User, st), labels) <=> User.at \in labels \/ Has(st, labels)
      /\ User.at \notin Destroying /\ (User.at \in Closing \/ ClosesFirst(st)) => ClosesFirst(Push(User, st))
  BY <1>1, <1>2, PushFrame
<1> QED
  BY <1>1, <1>2, <1>3

LEMMA NotUser ==
  "user" \notin Fails \cup ErrorFail \cup ErrorStart \cup Settling \cup Closing \cup Guards \cup Destroying \cup AtOnce
BY DEF Fails, ErrorFail, ErrorStart, Settling, Closing, Guards, Destroying, AtOnce

LEMMA TopUsed ==
  ASSUME StackInv, Destruction, stack # <<>>, Head(stack).at \notin Unused
  PROVE  destroyed # "done"
<1>1. 1 \in DOMAIN stack /\ stack[1] = Head(stack)
  BY TailSeq DEF StackInv
<1> QED
  BY <1>1 DEF Destruction, OnlyUnused

\* The stack below the top, with what it is known to have.
LEMMA TopFacts ==
  ASSUME StackInv, stack # <<>>
  PROVE  /\ stack \in Seq(FrameSet) /\ Tail(stack) \in Seq(FrameSet) /\ StackOK(Tail(stack))
         /\ Head(stack) \in FrameSet /\ ~Has(Tail(stack), AtOnce)
         /\ \A labels : Has(stack, labels) <=> Head(stack).at \in labels \/ Has(Tail(stack), labels)
BY TailSeq, PopStack, HasTail DEF StackInv

\* A message is sent, and its callback called above the loop.
LEMMA SendCompleteStep ==
  ASSUME IInv, SendComplete PROVE IInv'
<1>1. StackInv /\ ControlType /\ Destruction /\ Registered /\ Failure /\ SendInv
  BY DEF IInv
<1>2. sendQueue # <<>> /\ Top("trySend") /\ Head(stack).n < MaxAtOnce
  BY DEF SendComplete, Trying
<1>3. /\ stack # <<>> /\ Head(stack).at = "trySend" /\ socket = "open" /\ ~Failed
      /\ ~Has(stack, Fails) /\ ~Has(stack, ErrorFail)
  BY <1>2, TryingOpen
<1>4. /\ stack \in Seq(FrameSet) /\ Tail(stack) \in Seq(FrameSet) /\ StackOK(Tail(stack))
      /\ Head(stack) \in FrameSet /\ ~Has(Tail(stack), AtOnce)
      /\ \A labels : Has(stack, labels) <=> Head(stack).at \in labels \/ Has(Tail(stack), labels)
  BY <1>1, <1>3, TopFacts
<1>5. Has(Tail(stack), Guards) /\ ~Has(Tail(stack), Fails)
  BY <1>1, <1>3, PopStack DEF StackInv, Throwing, Loops
<1> DEFINE f == [Head(stack) EXCEPT !.n = @ + 1]
           u == Push(f, Tail(stack))
           t == Notify(Head(sendQueue), <<f>> \o Tail(stack))
<1>6. f \in FrameSet /\ f.at = "trySend"
  BY <1>2, <1>3, <1>4, BoundAssumption DEF FrameSet
<1>7. Resume(t) /\ t \in {u, Push(User, u)}
  BY DEF SendComplete, Notify, Rest, Push
<1> HIDE DEF f, t
<1>8. /\ u \in Seq(FrameSet) /\ StackOK(u)
      /\ \A labels : Has(u, labels) <=> f.at \in labels \/ Has(Tail(stack), labels)
      /\ f.at \notin Destroying /\ (f.at \in Closing \/ ClosesFirst(Tail(stack))) => ClosesFirst(u)
  BY <1>4, <1>5, <1>6, PushFrame DEF Loops, Throwing, Destroying
<1> HIDE DEF u
<1>9. \A labels : Has(u, labels) <=> Has(stack, labels)
  BY <1>3, <1>4, <1>6, <1>8
<1>10. /\ t \in Seq(FrameSet) /\ StackOK(t)
       /\ \A labels : "user" \notin labels => (Has(t, labels) <=> Has(u, labels))
       /\ ClosesFirst(u) => ClosesFirst(t)
  <2>1. ~Has(u, AtOnce)
    BY <1>4, <1>6, <1>8 DEF AtOnce
  <2> QED
    BY <1>7, <1>8, <2>1, MaybeUser
<1>11. /\ Has(t, Fails) <=> Has(stack, Fails)
       /\ Has(t, ErrorFail) <=> Has(stack, ErrorFail)
       /\ Has(t, ErrorStart) <=> Has(stack, ErrorStart)
       /\ Has(t, Settling)
       /\ Has(t, Closing) <=> Has(stack, Closing)
       /\ Has(t, Guards)
       /\ Has(t, Destroying) <=> Has(stack, Destroying)
  <2>1. Has(stack, Settling)
    BY <1>3, <1>4 DEF Settling
  <2>2. Has(stack, Guards)
    BY <1>4, <1>5
  <2> QED
    BY <1>9, <1>10, <2>1, <2>2, NotUser
<1>12. ClosesFirst(t)
  <2>1. ClosesFirst(stack)
    BY <1>1, <1>3 DEF Destruction
  <2>2. ClosesFirst(Tail(stack))
    BY <1>3, <1>4, <2>1, PopCloses DEF Closing
  <2> QED
    BY <1>6, <1>8, <1>10, <2>2 DEF Destroying
<1>13. StackInv' /\ Destruction' /\ destroyed' \in {"no", "pending", "done"} /\ stack' = t
  <2>1. destroyed # "done"
    BY <1>1, <1>3, TopUsed DEF Unused
  <2>2. owner' = owner /\ socket' = socket
    BY DEF SendComplete, memberVars
  <2> QED
    BY <1>1, <1>7, <1>10, <1>11, <1>12, <2>1, <2>2, GrowResume
<1>14. SendInv' /\ (Failed' <=> Failed)
  <2>1. /\ sendQueue' = Tail(sendQueue) /\ UNCHANGED <<attempts, silent>>
        /\ Answer(Head(sendQueue), "success")
    BY DEF SendComplete
  <2> QED
    BY <1>1, <1>2, <1>3, <2>1, QueueAnswer
<1>15. UNCHANGED <<memberVars, hard, assertFailed, connecting, connected, owner>>
  BY DEF SendComplete, histVars, connVars
<1>16. Registered'
  <2>1. connecting' \notin {"idle", "waiting"}
    BY <1>1, <1>3, <1>15 DEF Registered
  <2>2. "READ" \in registeredIOEvents' <=> receiveCallback'
    BY <1>1, <1>15 DEF Registered, memberVars
  <2>3. socket' = "open"
    BY <1>3, <1>15 DEF memberVars
  <2> QED
    BY <1>3, <1>11, <1>13, <2>1, <2>2, <2>3 DEF Registered
<1>17. Failure'
  BY <1>1, <1>2, <1>3, <1>11, <1>13, <1>14, <1>15 DEF Failure
<1>18. ControlType'
  BY <1>1, <1>13, <1>15 DEF ControlType, memberVars
<1> QED
  BY <1>13, <1>14, <1>16, <1>17, <1>18 DEF IInv

\* sendmsg() fails: the loop is left with an exception.
LEMMA SendThrowsStep ==
  ASSUME IInv, SendThrows PROVE IInv'
<1>1. StackInv /\ ControlType /\ Destruction /\ Registered /\ Failure /\ SendInv
  BY DEF IInv
<1>2. sendQueue # <<>> /\ Top("trySend")
  BY DEF SendThrows, Trying
<1>3. /\ stack # <<>> /\ Head(stack).at = "trySend" /\ socket = "open" /\ ~Failed
      /\ ~Has(stack, Fails) /\ ~Has(stack, ErrorFail)
  BY <1>2, TryingOpen
<1>4. /\ stack \in Seq(FrameSet) /\ Tail(stack) \in Seq(FrameSet) /\ StackOK(Tail(stack))
      /\ Head(stack) \in FrameSet /\ ~Has(Tail(stack), AtOnce)
      /\ \A labels : Has(stack, labels) <=> Head(stack).at \in labels \/ Has(Tail(stack), labels)
  BY <1>1, <1>3, TopFacts
<1>5. Has(Tail(stack), Guards) /\ ~Has(Tail(stack), Fails)
  BY <1>1, <1>3, PopStack DEF StackInv, Throwing, Loops
<1> DEFINE f == Frame("socketError")
           t == Push(f, Tail(stack))
<1>6. f \in FrameSet /\ f.at = "socketError"
  BY FrameType DEF Labels
<1>7. Resume(t)
  BY DEF SendThrows, Rest, Push
<1> HIDE DEF f
<1>8. /\ t \in Seq(FrameSet) /\ StackOK(t)
      /\ \A labels : Has(t, labels) <=> f.at \in labels \/ Has(Tail(stack), labels)
      /\ f.at \notin Destroying /\ (f.at \in Closing \/ ClosesFirst(Tail(stack))) => ClosesFirst(t)
  BY <1>4, <1>5, <1>6, PushFrame DEF Loops, Destroying
<1> HIDE DEF t
<1>9. ClosesFirst(t)
  <2>1. ClosesFirst(stack)
    BY <1>1, <1>3 DEF Destruction
  <2>2. ClosesFirst(Tail(stack))
    BY <1>3, <1>4, <2>1, PopCloses DEF Closing
  <2> QED
    BY <1>6, <1>8, <2>2 DEF Destroying
<1>10. /\ ~Has(t, Fails) /\ ~Has(t, ErrorFail) /\ Has(t, Settling) /\ Has(t, Guards)
       /\ Has(t, Closing) => Has(stack, Closing)
       /\ Has(t, Destroying) => Has(stack, Destroying)
  BY <1>3, <1>4, <1>5, <1>6, <1>8 DEF Fails, ErrorFail, Settling, Closing, Destroying
<1>11. StackInv' /\ Destruction' /\ destroyed' \in {"no", "pending", "done"} /\ stack' = t
  <2>1. destroyed # "done"
    BY <1>1, <1>3, TopUsed DEF Unused
  <2>2. owner' = owner /\ socket' = socket
    BY DEF SendThrows, memberVars
  <2> QED
    BY <1>1, <1>7, <1>8, <1>9, <1>10, <2>1, <2>2, GrowResume
<1>12. SendInv' /\ (Failed' <=> Failed) /\ sendQueue' = sendQueue
  BY <1>1, QueueSame DEF SendThrows, sendVars
<1>13. UNCHANGED <<memberVars, hard, assertFailed, connecting, connected, owner>>
  BY DEF SendThrows, histVars, connVars
<1>14. Registered'
  <2>1. connecting' \notin {"idle", "waiting"}
    BY <1>1, <1>3, <1>13 DEF Registered
  <2>2. "READ" \in registeredIOEvents' <=> receiveCallback'
    BY <1>1, <1>13 DEF Registered, memberVars
  <2>3. socket' = "open"
    BY <1>3, <1>13 DEF memberVars
  <2> QED
    BY <1>10, <1>11, <2>1, <2>2, <2>3 DEF Registered
<1>15. Failure'
  BY <1>1, <1>2, <1>3, <1>10, <1>11, <1>12, <1>13 DEF Failure
<1>16. ControlType'
  BY <1>1, <1>11, <1>13 DEF ControlType, memberVars
<1> QED
  BY <1>11, <1>12, <1>14, <1>15, <1>16 DEF IInv

\* A message or the end of the stream is given to the receive callback.
LEMMA ReceiveStep ==
  ASSUME IInv, ReceiveMessage \/ ReceiveEof PROVE IInv'
<1>1. StackInv /\ ControlType /\ Destruction /\ Registered /\ Failure /\ SendInv
  BY DEF IInv
<1>2. stack # <<>> /\ Head(stack).at = "tryReceive" /\ Head(stack).n < MaxAtOnce
  BY DEF ReceiveMessage, ReceiveEof, Receiving, Top
<1>3. /\ stack \in Seq(FrameSet) /\ Tail(stack) \in Seq(FrameSet) /\ StackOK(Tail(stack))
      /\ Head(stack) \in FrameSet /\ ~Has(Tail(stack), AtOnce)
      /\ \A labels : Has(stack, labels) <=> Head(stack).at \in labels \/ Has(Tail(stack), labels)
  BY <1>1, <1>2, TopFacts
<1>4. Has(Tail(stack), Guards) /\ ~Has(Tail(stack), Fails)
  BY <1>1, <1>2, PopStack DEF StackInv, Throwing, Loops
<1> DEFINE f == [Head(stack) EXCEPT !.n = @ + 1]
<1>5. f \in FrameSet /\ f.at = "tryReceive" /\ User \in FrameSet
  <2>1. f \in FrameSet /\ f.at = "tryReceive"
    BY <1>2, <1>3, BoundAssumption DEF FrameSet
  <2>2. User \in FrameSet
    BY FrameType DEF User, Labels
  <2> QED
    BY <2>1, <2>2
<1>6. PICK u \in {Tail(stack), Push(f, Tail(stack))} : Resume(Push(User, u))
  <2>1. CASE ReceiveMessage
    <3>1. <<User, f>> \o Tail(stack) = Push(User, Push(f, Tail(stack)))
      BY <1>3, <1>5, PushTwo
    <3> QED
      BY <2>1, <3>1 DEF ReceiveMessage, Rest
  <2>2. CASE ReceiveEof
    BY <2>2 DEF ReceiveEof, Rest, Push
  <2> QED
    BY <2>1, <2>2
<1> HIDE DEF f
<1>7. /\ Push(f, Tail(stack)) \in Seq(FrameSet) /\ StackOK(Push(f, Tail(stack)))
      /\ \A labels : Has(Push(f, Tail(stack)), labels) <=> f.at \in labels \/ Has(Tail(stack), labels)
      /\ f.at \notin Destroying /\ (f.at \in Closing \/ ClosesFirst(Tail(stack))) => ClosesFirst(Push(f, Tail(stack)))
  BY <1>3, <1>4, <1>5, PushFrame DEF Loops, Throwing, Destroying
<1>8. /\ u \in Seq(FrameSet) /\ StackOK(u)
      /\ \A labels : "tryReceive" \notin labels => (Has(u, labels) <=> Has(stack, labels))
      /\ ClosesFirst(Tail(stack)) => ClosesFirst(u)
  <2>1. CASE u = Tail(stack)
    BY <1>2, <1>3, <2>1
  <2>2. CASE u = Push(f, Tail(stack))
    <3>1. f.at \notin Destroying
      BY <1>5 DEF Destroying
    <3>2. \A labels : Has(u, labels) <=> Has(stack, labels)
      BY <1>2, <1>3, <1>5, <1>7, <2>2
    <3> QED
      BY <1>7, <2>2, <3>1, <3>2
  <2> QED
    BY <1>6, <2>1, <2>2
<1>9. "tryReceive" \notin Fails \cup ErrorFail \cup ErrorStart \cup Settling \cup Closing \cup Guards \cup Destroying \cup AtOnce
  BY DEF Fails, ErrorFail, ErrorStart, Settling, Closing, Guards, Destroying, AtOnce
<1> DEFINE t == Push(User, u)
<1>10. /\ t \in Seq(FrameSet) /\ StackOK(t)
       /\ \A labels : "user" \notin labels => (Has(t, labels) <=> Has(u, labels))
       /\ ClosesFirst(u) => ClosesFirst(t)
  <2>1. ~Has(u, AtOnce)
    BY <1>2, <1>3, <1>8, <1>9
  <2> QED
    BY <1>8, <2>1, MaybeUser
<1> HIDE DEF t
<1>11. /\ Has(t, Fails) <=> Has(stack, Fails)
       /\ Has(t, ErrorFail) <=> Has(stack, ErrorFail)
       /\ Has(t, ErrorStart) <=> Has(stack, ErrorStart)
       /\ Has(t, Settling) <=> Has(stack, Settling)
       /\ Has(t, Closing) <=> Has(stack, Closing)
       /\ Has(t, Guards)
       /\ Has(t, Destroying) <=> Has(stack, Destroying)
  BY <1>3, <1>4, <1>8, <1>9, <1>10, NotUser
<1>12. socket = "open" => ClosesFirst(t)
  <2>1. socket = "open" => ClosesFirst(stack)
    BY <1>1 DEF Destruction
  <2>2. ClosesFirst(stack) => ClosesFirst(Tail(stack))
    BY <1>2, <1>3, PopCloses DEF Closing
  <2> QED
    BY <1>8, <1>10, <2>1, <2>2
<1>13. UNCHANGED <<memberVars, sendVars, owner, hard, assertFailed, connecting, connected>>
  BY DEF ReceiveMessage, ReceiveEof, histVars, connVars
<1>14. StackInv' /\ Destruction' /\ destroyed' \in {"no", "pending", "done"} /\ stack' = t
  <2>1. destroyed # "done"
    BY <1>1, <1>2, TopUsed DEF Unused
  <2>2. Resume(t) /\ owner' = owner /\ socket' = socket
    BY <1>6, <1>13 DEF t, memberVars
  <2> QED
    BY <1>1, <1>10, <1>11, <1>12, <2>1, <2>2, GrowResume
<1>15. Registered' /\ Failure'
  BY <1>1, <1>2, <1>11, <1>13, <1>14, SameRegistered
<1>16. SendInv'
  BY <1>1, <1>13, QueueSame
<1>17. ControlType'
  BY <1>1, <1>13, <1>14 DEF ControlType, memberVars
<1> QED
  BY <1>14, <1>15, <1>16, <1>17 DEF IInv

\* closeNow() and socketError() disarm the socket, tell the receive callback and
\* go on with the send queue.
LEMMA DisarmStep ==
  ASSUME IInv, stack # <<>>, socket = "open", Disarm,
         NEW l \in Fails, Resume(SocketClosed(<<Frame(l)>> \o Rest)),
         \/ /\ Head(stack).at = "closeNow" /\ l = "closeNowFail"
            /\ UNCHANGED <<socket, hard>>
         \/ /\ Head(stack).at = "socketError" /\ l = "errorFail"
            /\ socket' = "closed" /\ hard' = TRUE,
         UNCHANGED <<sendVars, owner, assertFailed, connVars>>
  PROVE  IInv'
<1>1. StackInv /\ ControlType /\ Destruction /\ Registered /\ Failure /\ SendInv
  BY DEF IInv
<1>2. /\ stack \in Seq(FrameSet) /\ Tail(stack) \in Seq(FrameSet) /\ StackOK(Tail(stack))
      /\ Head(stack) \in FrameSet /\ ~Has(Tail(stack), AtOnce)
      /\ \A labels : Has(stack, labels) <=> Head(stack).at \in labels \/ Has(Tail(stack), labels)
  BY <1>1, TopFacts
<1> DEFINE f == Frame(l)
           u == Push(f, Tail(stack))
           t == SocketClosed(<<f>> \o Tail(stack))
<1>3. f \in FrameSet /\ f.at = l
  BY FrameType DEF Labels, Fails
<1>4. Resume(t) /\ t \in {u, Push(User, u)}
  <2>1. Resume(t)
    BY DEF Rest
  <2>2. u \in Seq(FrameSet)
    BY <1>2, <1>3, PushSeq
  <2>3. <<>> \o u = u
    BY <2>2
  <2>4. t = IF receiveCallback THEN <<User>> \o u ELSE <<>> \o u
    BY DEF SocketClosed, Push
  <2> QED
    BY <2>1, <2>3, <2>4 DEF Push
<1> HIDE DEF f, t
<1>5. /\ u \in Seq(FrameSet) /\ StackOK(u)
      /\ \A labels : Has(u, labels) <=> f.at \in labels \/ Has(Tail(stack), labels)
      /\ f.at \notin Destroying /\ (f.at \in Closing \/ ClosesFirst(Tail(stack))) => ClosesFirst(u)
  BY <1>2, <1>3, PushFrame DEF Loops, Throwing, Destroying, Fails
<1> HIDE DEF u
<1>6. /\ t \in Seq(FrameSet) /\ StackOK(t)
      /\ \A labels : "user" \notin labels => (Has(t, labels) <=> Has(u, labels))
      /\ ClosesFirst(u) => ClosesFirst(t)
  <2>1. ~Has(u, AtOnce)
    BY <1>2, <1>3, <1>5 DEF AtOnce, Fails
  <2> QED
    BY <1>4, <1>5, <2>1, MaybeUser
<1>7. Head(stack).at \notin Destroying \cup Guards \cup ErrorFail /\ l \notin Destroying \cup AtOnce
      /\ Fails \subseteq Settling
  BY DEF Destroying, Guards, ErrorFail, AtOnce, Fails, Settling
<1>8. ~Has(t, ErrorStart)
  <2>1. ~Has(Tail(stack), ErrorStart)
    BY <1>2, HasSubset DEF ErrorStart, AtOnce
  <2> QED
    BY <1>3, <1>5, <1>6, <2>1, NotUser DEF ErrorStart, Fails
<1>9. /\ Has(t, Fails) /\ Has(t, Settling)
      /\ Has(t, Destroying) <=> Has(stack, Destroying)
      /\ Has(t, ErrorFail) <=> (l \in ErrorFail \/ Has(stack, ErrorFail))
      /\ Has(t, Closing) => (l = "closeNowFail" \/ Has(stack, Closing))
  <2>1. Has(u, Fails) /\ Has(u, Settling)
    BY <1>3, <1>5, <1>7
  <2>2. Has(u, Destroying) <=> Has(stack, Destroying)
    BY <1>2, <1>3, <1>5, <1>7
  <2>3. Has(u, ErrorFail) <=> (l \in ErrorFail \/ Has(stack, ErrorFail))
    BY <1>2, <1>3, <1>5, <1>7
  <2>4. Has(u, Closing) => (l = "closeNowFail" \/ Has(stack, Closing))
    BY <1>2, <1>3, <1>5 DEF Closing, Fails
  <2> QED
    BY <1>6, <2>1, <2>2, <2>3, <2>4, NotUser
<1>10. ~Has(stack, ErrorFail) /\ destroyed = "no"
  BY <1>1 DEF Registered, Destruction, ControlType
<1>11. socket' = "open" => ClosesFirst(t)
  <2>1. socket' = "open" => l = "closeNowFail"
    OBVIOUS
  <2> QED
    BY <1>3, <1>5, <1>6, <1>7, <2>1 DEF Closing
<1>12. StackInv' /\ Destruction' /\ destroyed' \in {"no", "pending", "done"} /\ stack' = t
  <2>1. socket' \in {socket, "closed"}
    OBVIOUS
  <2> QED
    BY <1>1, <1>4, <1>6, <1>9, <1>10, <1>11, <2>1, GrowResume
<1>13. SendInv' /\ (Failed' <=> Failed) /\ sendQueue' = sendQueue
  BY <1>1, QueueSame DEF sendVars
<1>14. /\ closeStarted' = TRUE /\ registeredIOEvents' = {} /\ isScheduled' = FALSE
       /\ receiveCallback' = FALSE
  BY DEF Disarm
<1>15. Quiet'
  BY <1>14 DEF Quiet
<1>16. Registered'
  <2>1. connecting' \notin {"idle", "waiting"}
    BY <1>1 DEF Registered, connVars
  <2>2. Has(stack', ErrorFail) => socket' = "closed"
    BY <1>9, <1>10, <1>12 DEF ErrorFail
  <2>3. socket' = "closed" => Has(stack', ErrorFail)
    BY <1>9, <1>12 DEF ErrorFail
  <2> QED
    BY <1>8, <1>9, <1>12, <1>14, <1>15, <2>1, <2>2, <2>3 DEF Registered
<1>17. Failure'
  <2>1. CASE l = "closeNowFail"
    <3>1. ~Has(stack', ErrorFail) /\ Has(stack, Closing) /\ hard' = hard
      BY <1>2, <1>9, <1>10, <1>12, <2>1 DEF ErrorFail, Closing
    <3> QED
      BY <1>1, <1>9, <1>12, <1>13, <1>14, <3>1 DEF Failure
  <2>2. CASE l = "errorFail"
    BY <1>1, <1>9, <1>12, <1>13, <1>14, <2>2 DEF Failure
  <2> QED
    BY <2>1, <2>2 DEF Fails
<1>18. ControlType'
  BY <1>1, <1>12, <1>14 DEF ControlType, connVars
<1> QED
  BY <1>12, <1>13, <1>16, <1>17, <1>18 DEF IInv

\* failAllSends() answers one send above its frame.
LEMMA FailSendStep ==
  ASSUME IInv, FailSend PROVE IInv'
<1>1. StackInv /\ ControlType /\ Destruction /\ Registered /\ Failure /\ SendInv
  BY DEF IInv
<1>2. stack # <<>> /\ Head(stack).at \in Fails /\ sendQueue # <<>>
  BY DEF FailSend, Top, Fails
<1>3. /\ stack \in Seq(FrameSet) /\ ~Has(Tail(stack), AtOnce) /\ StackOK(stack)
      /\ \A labels : Has(stack, labels) <=> Head(stack).at \in labels \/ Has(Tail(stack), labels)
  BY <1>1, <1>2, TopFacts DEF StackInv
<1>4. Has(stack, Fails) /\ ~Has(stack, AtOnce) /\ Has(stack, Guards) /\ Has(stack, Settling)
  BY <1>2, <1>3 DEF AtOnce, Fails, Guards, Settling
<1> DEFINE t == Notify(Head(sendQueue), stack)
<1>5. Resume(t) /\ t \in {stack, Push(User, stack)}
  BY DEF FailSend, Notify, Push
<1> HIDE DEF t
<1>6. /\ t \in Seq(FrameSet) /\ StackOK(t)
      /\ \A labels : "user" \notin labels => (Has(t, labels) <=> Has(stack, labels))
      /\ ClosesFirst(stack) => ClosesFirst(t)
  BY <1>3, <1>4, <1>5, MaybeUser
<1>7. /\ Has(t, Fails) /\ Has(t, Settling) /\ Has(t, Guards)
      /\ Has(t, ErrorFail) <=> Has(stack, ErrorFail)
      /\ Has(t, ErrorStart) <=> Has(stack, ErrorStart)
      /\ Has(t, Closing) <=> Has(stack, Closing)
      /\ Has(t, Destroying) <=> Has(stack, Destroying)
  BY <1>4, <1>6, NotUser
<1>8. UNCHANGED <<memberVars, hard, assertFailed, connecting, connected, owner>>
  BY DEF FailSend, histVars, connVars
<1>9. StackInv' /\ Destruction' /\ destroyed' \in {"no", "pending", "done"} /\ stack' = t
  <2>1. destroyed # "done"
    BY <1>1, <1>2, TopUsed DEF Unused, Fails
  <2>2. socket' = "open" => ClosesFirst(t)
    BY <1>1, <1>6, <1>8 DEF Destruction, memberVars
  <2>3. owner' = owner /\ socket' = socket
    BY <1>8 DEF memberVars
  <2> QED
    BY <1>1, <1>5, <1>6, <1>7, <2>1, <2>2, <2>3, GrowResume
<1>10. SendInv' /\ Failed'
  <2>1. /\ sendQueue' = Tail(sendQueue) /\ UNCHANGED <<attempts, silent>>
        /\ Answer(Head(sendQueue), "error")
    BY DEF FailSend, PopFailed
  <2> QED
    BY <1>1, <1>2, <2>1, QueueAnswer
<1>11. Quiet /\ Quiet' /\ hard
  <2>1. Quiet
    BY <1>1, <1>4 DEF Registered
  <2>2. Quiet'
    BY <1>8, <2>1 DEF Quiet, memberVars
  <2>3. hard
    <3>1. Head(stack).at = "errorFail" => Has(stack, ErrorFail)
      BY <1>3 DEF ErrorFail
    <3>2. Head(stack).at = "closeNowFail" => Has(stack, Closing)
      BY <1>3 DEF Closing
    <3> QED
      BY <1>1, <1>2, <3>1, <3>2 DEF Failure, Fails
  <2> QED
    BY <2>1, <2>2, <2>3
<1>12. Registered'
  <2>1. connecting' \notin {"idle", "waiting"}
    BY <1>1, <1>2, <1>8 DEF Registered
  <2>2. "READ" \in registeredIOEvents' <=> receiveCallback'
    BY <1>1, <1>8 DEF Registered, memberVars
  <2>3. socket' = "closed" => Has(stack', ErrorFail)
    BY <1>1, <1>2, <1>7, <1>8, <1>9 DEF Registered, memberVars
  <2>4. /\ Has(stack', ErrorFail) => socket' = "closed"
        /\ Has(stack', ErrorStart) => socket' = "open"
    BY <1>1, <1>7, <1>8, <1>9 DEF Registered, memberVars
  <2> QED
    BY <1>7, <1>9, <1>11, <2>1, <2>2, <2>3, <2>4 DEF Registered
<1>13. Failure'
  BY <1>7, <1>8, <1>9, <1>10, <1>11 DEF Failure, Quiet
<1>14. ControlType'
  BY <1>1, <1>8, <1>9 DEF ControlType, memberVars
<1> QED
  BY <1>9, <1>10, <1>12, <1>13, <1>14 DEF IInv

\* The end of failAllSends() and of its caller.
LEMMA FailDoneStep ==
  ASSUME IInv, FailDone PROVE IInv'
<1>1. StackInv /\ ControlType /\ Destruction /\ Registered /\ Failure /\ SendInv
  BY DEF IInv
<1>2. stack # <<>> /\ Head(stack).at \in Fails /\ sendQueue = <<>>
  BY DEF FailDone, Top, Fails
<1>3. /\ ~Has(Tail(stack), AtOnce)
      /\ \A labels : Has(stack, labels) <=> Head(stack).at \in labels \/ Has(Tail(stack), labels)
  BY <1>1, <1>2, TopFacts
<1>4. /\ socket' = "closed" /\ Resume(Tail(stack)) /\ owner' = owner
      /\ UNCHANGED <<registeredIOEvents, closeStarted, receiveCallback, isScheduled, sendVars,
                     hard, assertFailed, connecting, connected>>
  BY DEF FailDone, Rest, histVars, connVars
<1>5. StackInv' /\ Destruction' /\ destroyed' \in {"no", "pending", "done"} /\ stack' = Tail(stack)
  BY <1>1, <1>2, <1>4, PopResume DEF Destroying, Fails
<1>6. SendInv' /\ (Failed' <=> Failed) /\ sendQueue' = <<>>
  BY <1>1, <1>2, <1>4, QueueSame DEF sendVars
<1>7. Quiet'
  <2>1. Quiet
    BY <1>1, <1>2, <1>3 DEF Registered
  <2> QED
    BY <1>4, <2>1 DEF Quiet
<1>8. ~Has(stack', ErrorStart)
  BY <1>3, <1>5, HasSubset DEF ErrorStart, AtOnce
<1>9. Registered'
  <2>1. connecting' \notin {"idle", "waiting"}
    BY <1>1, <1>2, <1>4 DEF Registered
  <2> QED
    BY <1>4, <1>6, <1>7, <1>8, <2>1 DEF Registered, Quiet
<1>10. Failure'
  BY <1>1, <1>3, <1>4, <1>5, <1>6 DEF Failure
<1>11. ControlType'
  BY <1>1, <1>4, <1>5 DEF ControlType
<1> QED
  BY <1>5, <1>6, <1>9, <1>10, <1>11 DEF IInv

\* DelayedDestruction::destroy(), when closeNow() has returned.
LEMMA DestroyEndStep ==
  ASSUME IInv, DestroyEnd PROVE IInv'
<1>1. StackInv /\ ControlType /\ Destruction /\ Registered /\ Failure /\ SendInv
  BY DEF IInv
<1>2. stack # <<>> /\ Head(stack).at = "destroyEnd"
  BY DEF DestroyEnd, Top
<1> DEFINE t == Tail(stack)
<1>3. /\ stack \in Seq(FrameSet) /\ t \in Seq(FrameSet) /\ StackOK(t) /\ ~Has(t, AtOnce)
      /\ \A labels : Has(stack, labels) <=> Head(stack).at \in labels \/ Has(t, labels)
  BY <1>1, <1>2, TopFacts
<1>4. ~Has(t, Destroying)
  BY <1>1, <1>2, PopStack DEF StackInv, Destroying
<1>5. socket = "closed" /\ ~owner
  <2>1. Has(stack, Destroying)
    BY <1>2, <1>3 DEF Destroying
  <2>2. ~ClosesFirst(stack)
    BY <1>2, <1>3, PopCloses DEF Destroying
  <2> QED
    BY <1>1, <2>1, <2>2 DEF Destruction, ControlType
<1>6. stack' = t /\ destroyed' = IF Has(t, Guards) THEN "pending" ELSE "done"
  BY DEF DestroyEnd, DelayedDestroy, Rest, Guarded, Has
<1>7. ~Has(t, Guards) => OnlyUnused(t)
  BY <1>3, <1>4, UnguardedUnused
<1> HIDE DEF t
<1>8. UNCHANGED <<memberVars, sendVars, owner, hard, assertFailed, connecting, connected>>
  BY DEF DestroyEnd, histVars, connVars
<1>9. Destruction'
  BY <1>4, <1>5, <1>6, <1>7, <1>8 DEF Destruction, memberVars
<1>10. Head(stack).at \notin Fails \cup ErrorFail \cup ErrorStart \cup Settling
  BY <1>2 DEF Fails, ErrorFail, ErrorStart, Settling
<1>11. Registered' /\ Failure'
  BY <1>1, <1>2, <1>3, <1>6, <1>8, <1>10, SameRegistered
<1>12. SendInv'
  BY <1>1, <1>8, QueueSame
<1>13. ControlType'
  BY <1>1, <1>6, <1>8 DEF ControlType, memberVars
<1>14. StackInv'
  BY <1>3, <1>6 DEF StackInv
<1> QED
  BY <1>9, <1>11, <1>12, <1>13, <1>14 DEF IInv

-----------------------------------------------------------------------------
(* Calls by the user *)

LEMMA HasUnion ==
  ASSUME NEW st, NEW A, NEW B, NEW C, A \subseteq B \cup C, Has(st, A)
  PROVE  Has(st, B) \/ Has(st, C)
BY DEF Has

\* Before a close nothing fails.
LEMMA NotClosing ==
  ASSUME IInv, MayCall, ~closeStarted
  PROVE  /\ socket = "open" /\ ~Failed /\ ~Has(stack, Fails) /\ ~Has(stack, ErrorFail)
         /\ ~Has(stack, Closing) /\ destroyed = "no"
<1>1. ~Has(stack, Fails) /\ socket = "open"
  BY DEF IInv, Registered, Quiet, ControlType
<1>2. ~Has(stack, ErrorFail)
  BY <1>1, HasSubset DEF ErrorFail, Fails
<1>3. ~Has(stack, AtOnce)
  BY MayCallStack DEF IInv
<1>4. Closing \subseteq AtOnce \cup Fails
  BY DEF Closing, AtOnce, Fails
<1>5. ~Has(stack, Closing)
  BY <1>1, <1>3, <1>4, HasUnion
<1>6. ~Failed /\ destroyed = "no"
  BY <1>1 DEF IInv, Failure, Destruction, ControlType
<1> QED
  BY <1>1, <1>2, <1>5, <1>6

LEMMA SendStep ==
  ASSUME IInv, NEW null \in BOOLEAN, Send(null) PROVE IInv'
<1>1. StackInv /\ ControlType /\ Destruction /\ Registered /\ Failure /\ SendInv
  BY DEF IInv
<1>2. MayCall /\ ~closeStarted
  BY DEF Send
<1>3. stack \in Seq(FrameSet) /\ StackOK(stack) /\ ~Has(stack, AtOnce) /\ destroyed # "done"
  BY <1>1, <1>2, MayCallStack
<1>4. /\ socket = "open" /\ ~Failed /\ ~Has(stack, Fails) /\ ~Has(stack, ErrorFail)
      /\ ~Has(stack, Closing) /\ destroyed = "no"
  BY <1>2, NotClosing
<1> DEFINE f == Frame("trySend")
           g == Frame("sendCatch")
           u == Push(g, stack)
           v == Push(f, u)
<1>5. f \in FrameSet /\ f.at = "trySend" /\ g \in FrameSet /\ g.at = "sendCatch"
  BY FrameType DEF Labels
<1>6. Resume(IF sendQueue = <<>> THEN v ELSE stack)
  BY <1>3, <1>5, PushTwo DEF Send
<1> HIDE DEF f, g
<1>7. /\ u \in Seq(FrameSet) /\ StackOK(u)
      /\ \A labels : Has(u, labels) <=> g.at \in labels \/ Has(stack, labels)
      /\ g.at \notin Destroying /\ (g.at \in Closing \/ ClosesFirst(stack)) => ClosesFirst(u)
  BY <1>3, <1>5, PushFrame DEF Loops, Throwing, Destroying
<1> HIDE DEF u
<1>8. /\ v \in Seq(FrameSet) /\ StackOK(v)
      /\ \A labels : Has(v, labels) <=> f.at \in labels \/ Has(u, labels)
      /\ f.at \notin Destroying /\ (f.at \in Closing \/ ClosesFirst(u)) => ClosesFirst(v)
  <2>1. ~Has(u, AtOnce) /\ Has(u, Guards) /\ ~Has(u, Fails)
    BY <1>3, <1>4, <1>5, <1>7 DEF AtOnce, Guards, Fails
  <2> QED
    BY <1>5, <1>7, <2>1, PushFrame DEF Destroying
<1> HIDE DEF v
<1>9. /\ ~Has(v, Fails) /\ ~Has(v, ErrorFail) /\ ~Has(v, Closing) /\ Has(v, Settling)
      /\ Has(v, Destroying) => Has(stack, Destroying)
  BY <1>4, <1>5, <1>7, <1>8 DEF Fails, ErrorFail, Closing, Settling, Destroying
<1>10. ClosesFirst(v) /\ ClosesFirst(stack)
  BY <1>1, <1>4, <1>5, <1>7, <1>8 DEF Destruction, Destroying
<1>11. PICK t \in Seq(FrameSet) :
         /\ Resume(t) /\ StackOK(t) /\ ClosesFirst(t)
         /\ ~Has(t, Fails) /\ ~Has(t, ErrorFail) /\ ~Has(t, Closing)
         /\ Has(t, Destroying) => Has(stack, Destroying)
         /\ Has(t, Settling) \/ (sendQueue # <<>> /\ t = stack)
  <2>1. CASE sendQueue = <<>>
    BY <1>6, <1>8, <1>9, <1>10, <2>1
  <2>2. CASE sendQueue # <<>>
    BY <1>3, <1>4, <1>6, <1>10, <2>2
  <2> QED
    BY <2>1, <2>2
<1>12. UNCHANGED <<memberVars, owner, hard, assertFailed, connecting, connected>>
  BY DEF Send, histVars, connVars
<1>13. StackInv' /\ Destruction' /\ destroyed' \in {"no", "pending", "done"} /\ stack' = t
  <2>1. owner' = owner /\ socket' = socket /\ destroyed # "pending"
    BY <1>4, <1>12 DEF memberVars
  <2> QED
    BY <1>1, <1>3, <1>11, <2>1, GrowResume
<1>14. SendInv' /\ (Failed' <=> Failed) /\ sendQueue' # <<>>
  <2>1. /\ attempts < MaxSends /\ attempts' = attempts + 1 /\ UNCHANGED answers
        /\ silent' \subseteq silent \cup {attempts + 1} /\ sendQueue' = Append(sendQueue, attempts + 1)
    BY DEF Send, Enqueue
  <2> QED
    BY <1>1, <2>1, QueueEnqueue
<1>15. Registered'
  <2>1. connecting' \notin {"idle", "waiting"}
    BY <1>2, <1>12 DEF MayCall
  <2>2. "READ" \in registeredIOEvents' <=> receiveCallback'
    BY <1>1, <1>12 DEF Registered, memberVars
  <2>3. socket' = "open"
    BY <1>4, <1>12 DEF memberVars
  <2>4. ~Has(stack', Settling) => "WRITE" \in registeredIOEvents' /\ isScheduled'
    BY <1>1, <1>11, <1>12, <1>13 DEF Registered, memberVars
  <2> QED
    BY <1>11, <1>13, <1>14, <2>1, <2>2, <2>3, <2>4 DEF Registered
<1>16. Failure'
  BY <1>4, <1>11, <1>13, <1>14 DEF Failure
<1>17. ControlType'
  BY <1>1, <1>12, <1>13 DEF ControlType, memberVars
<1> QED
  BY <1>13, <1>14, <1>15, <1>16, <1>17 DEF IInv

LEMMA SendRejectedStep ==
  ASSUME IInv, SendRejected PROVE IInv'
<1>1. StackInv /\ ControlType /\ Destruction /\ Registered /\ Failure /\ SendInv
  BY DEF IInv
<1>2. MayCall
  BY DEF SendRejected
<1>3. stack \in Seq(FrameSet) /\ StackOK(stack) /\ ~Has(stack, AtOnce) /\ destroyed # "done"
  BY <1>1, <1>2, MayCallStack
<1> DEFINE t == Push(User, stack)
<1>4. Resume(t)
  BY DEF SendRejected, Push
<1> HIDE DEF t
<1>5. /\ t \in Seq(FrameSet) /\ StackOK(t)
      /\ \A labels : "user" \notin labels => (Has(t, labels) <=> Has(stack, labels))
      /\ ClosesFirst(stack) => ClosesFirst(t)
  BY <1>3, MaybeUser DEF t
<1>6. /\ Has(t, Fails) <=> Has(stack, Fails)
      /\ Has(t, ErrorFail) <=> Has(stack, ErrorFail)
      /\ Has(t, ErrorStart) <=> Has(stack, ErrorStart)
      /\ Has(t, Settling) <=> Has(stack, Settling)
      /\ Has(t, Closing) <=> Has(stack, Closing)
      /\ Has(t, Guards) <=> Has(stack, Guards)
      /\ Has(t, Destroying) <=> Has(stack, Destroying)
  BY <1>5, NotUser
<1>7. UNCHANGED <<memberVars, sendQueue, owner, hard, assertFailed, connecting, connected>>
  BY DEF SendRejected, histVars, connVars
<1>8. StackInv' /\ Destruction' /\ destroyed' \in {"no", "pending", "done"} /\ stack' = t
  <2>1. owner' = owner /\ socket' = socket
    BY <1>7 DEF memberVars
  <2>2. /\ destroyed = "pending" => Has(t, Guards)
        /\ socket' = "open" => ClosesFirst(t)
    BY <1>1, <1>5, <1>6, <2>1 DEF Destruction
  <2> QED
    BY <1>1, <1>3, <1>4, <1>5, <1>6, <2>1, <2>2, GrowResume
<1>9. SendInv' /\ (Failed' <=> Failed)
  <2>1. /\ attempts < MaxSends /\ attempts' = attempts + 1 /\ UNCHANGED <<sendQueue, silent>>
        /\ Answer(attempts + 1, "rejected")
    BY DEF SendRejected
  <2> QED
    BY <1>1, <2>1, QueueReject
<1>10. Quiet' <=> Quiet
  BY <1>7 DEF Quiet, memberVars
<1>11. Registered'
  <2>1. connecting' \notin {"idle", "waiting"}
    BY <1>2, <1>7 DEF MayCall
  <2> QED
    BY <1>1, <1>6, <1>7, <1>8, <1>10, <2>1 DEF Registered, memberVars
<1>12. Failure'
  BY <1>1, <1>6, <1>7, <1>8, <1>9 DEF Failure, memberVars
<1>13. ControlType'
  BY <1>1, <1>7, <1>8 DEF ControlType, memberVars
<1> QED
  BY <1>8, <1>9, <1>11, <1>12, <1>13 DEF IInv

\* closeNow() is called; by close() only with nothing pending.
LEMMA CallCloseNowStep ==
  ASSUME IInv, MayCall, Resume(<<Frame("closeNow")>> \o stack), hard' \in {hard, TRUE},
         sendQueue = <<>> \/ hard' = TRUE,
         UNCHANGED <<memberVars, sendVars, owner, assertFailed, connVars>>
  PROVE  IInv'
<1>1. StackInv /\ ControlType /\ Destruction /\ Registered /\ Failure /\ SendInv
  BY DEF IInv
<1>2. stack \in Seq(FrameSet) /\ StackOK(stack) /\ ~Has(stack, AtOnce) /\ destroyed # "done"
  BY <1>1, MayCallStack
<1> DEFINE f == Frame("closeNow")
           t == Push(f, stack)
<1>3. f \in FrameSet /\ f.at = "closeNow" /\ Resume(t)
  BY FrameType DEF Labels, Push
<1> HIDE DEF f
<1>4. /\ t \in Seq(FrameSet) /\ StackOK(t)
      /\ \A labels : Has(t, labels) <=> f.at \in labels \/ Has(stack, labels)
      /\ f.at \notin Destroying /\ (f.at \in Closing \/ ClosesFirst(stack)) => ClosesFirst(t)
  BY <1>2, <1>3, PushFrame DEF Loops, Throwing, Destroying
<1> HIDE DEF t
<1>5. f.at \notin Fails \cup ErrorFail \cup ErrorStart \cup Settling \cup Guards \cup Destroying
  BY <1>3 DEF Fails, ErrorFail, ErrorStart, Settling, Guards, Destroying
<1>6. /\ Has(t, Fails) <=> Has(stack, Fails)
      /\ Has(t, ErrorFail) <=> Has(stack, ErrorFail)
      /\ Has(t, ErrorStart) <=> Has(stack, ErrorStart)
      /\ Has(t, Settling) <=> Has(stack, Settling)
      /\ Has(t, Guards) <=> Has(stack, Guards)
      /\ Has(t, Destroying) <=> Has(stack, Destroying)
  BY <1>4, <1>5
<1>7. ClosesFirst(t)
  BY <1>3, <1>4, <1>5 DEF Closing
<1>8. StackInv' /\ Destruction' /\ destroyed' \in {"no", "pending", "done"} /\ stack' = t
  <2>1. owner' = owner /\ socket' = socket
    BY DEF memberVars
  <2>2. destroyed = "pending" => Has(t, Guards)
    BY <1>1, <1>6 DEF Destruction
  <2> QED
    BY <1>1, <1>2, <1>3, <1>4, <1>6, <1>7, <2>1, <2>2, GrowResume
<1>9. SendInv' /\ (Failed' <=> Failed) /\ sendQueue' = sendQueue
  BY <1>1, QueueSame DEF sendVars
<1>10. Quiet' <=> Quiet
  BY DEF Quiet, memberVars
<1>11. Registered'
  <2>1. connecting' \notin {"idle", "waiting"}
    BY DEF MayCall, connVars
  <2> QED
    BY <1>1, <1>6, <1>8, <1>9, <1>10, <2>1 DEF Registered, memberVars
<1>12. Failure'
  BY <1>1, <1>6, <1>8, <1>9 DEF Failure, memberVars, ControlType
<1>13. ControlType'
  BY <1>1, <1>8 DEF ControlType, memberVars, connVars
<1> QED
  BY <1>8, <1>9, <1>11, <1>12, <1>13 DEF IInv

\* close() with sends pending.
LEMMA GracefulCloseStep ==
  ASSUME IInv, Close, sendQueue # <<>> PROVE IInv'
<1>1. StackInv /\ ControlType /\ Destruction /\ Registered /\ Failure /\ SendInv
  BY DEF IInv
<1>2. MayCall /\ ~closeStarted
  BY DEF Close
<1>3. stack \in Seq(FrameSet) /\ StackOK(stack) /\ ~Has(stack, AtOnce) /\ destroyed # "done"
  BY <1>1, <1>2, MayCallStack
<1>4. /\ socket = "open" /\ ~Failed /\ ~Has(stack, Fails) /\ ~Has(stack, ErrorFail)
      /\ ~Has(stack, Closing) /\ destroyed = "no"
  BY <1>2, NotClosing
<1> DEFINE f == Frame("closeShutdown")
           u == Push(f, stack)
           t == SocketClosed(<<f>> \o stack)
<1>5. f \in FrameSet /\ f.at = "closeShutdown"
  BY FrameType DEF Labels
<1>6. /\ Resume(t) /\ closeStarted' = TRUE /\ receiveCallback' = FALSE
      /\ registeredIOEvents' = registeredIOEvents \ {"READ"} /\ UNCHANGED <<socket, isScheduled>>
  BY DEF Close, NothingPending
<1>7. t \in {u, Push(User, u)}
  <2>1. u \in Seq(FrameSet)
    BY <1>3, <1>5, PushSeq
  <2>2. <<>> \o u = u
    BY <2>1
  <2>3. t = IF receiveCallback THEN <<User>> \o u ELSE <<>> \o u
    BY DEF SocketClosed, Push
  <2> QED
    BY <2>2, <2>3 DEF Push
<1> HIDE DEF f, t
<1>8. /\ u \in Seq(FrameSet) /\ StackOK(u)
      /\ \A labels : Has(u, labels) <=> f.at \in labels \/ Has(stack, labels)
      /\ f.at \notin Destroying /\ (f.at \in Closing \/ ClosesFirst(stack)) => ClosesFirst(u)
  BY <1>3, <1>5, PushFrame DEF Loops, Throwing, Destroying
<1> HIDE DEF u
<1>9. f.at \notin Fails \cup ErrorFail \cup ErrorStart \cup Settling \cup Closing \cup Destroying \cup AtOnce
  BY <1>5 DEF Fails, ErrorFail, ErrorStart, Settling, Closing, Destroying, AtOnce
<1>10. /\ t \in Seq(FrameSet) /\ StackOK(t)
       /\ \A labels : "user" \notin labels => (Has(t, labels) <=> Has(u, labels))
       /\ ClosesFirst(u) => ClosesFirst(t)
  <2>1. ~Has(u, AtOnce)
    BY <1>3, <1>8, <1>9
  <2> QED
    BY <1>7, <1>8, <2>1, MaybeUser
<1>11. /\ ~Has(t, Fails) /\ ~Has(t, ErrorFail) /\ ~Has(t, Closing)
       /\ Has(t, Settling) <=> Has(stack, Settling)
       /\ Has(t, Destroying) <=> Has(stack, Destroying)
  BY <1>4, <1>8, <1>9, <1>10, NotUser
<1>12. ClosesFirst(t)
  BY <1>1, <1>4, <1>8, <1>9, <1>10 DEF Destruction
<1>13. UNCHANGED <<sendVars, owner, hard, assertFailed, connecting, connected>>
  BY DEF Close, histVars, connVars
<1>14. StackInv' /\ Destruction' /\ destroyed' \in {"no", "pending", "done"} /\ stack' = t
  <2>1. owner' = owner /\ socket' = socket /\ destroyed # "pending"
    BY <1>4, <1>6, <1>13
  <2> QED
    BY <1>1, <1>3, <1>6, <1>10, <1>11, <1>12, <2>1, GrowResume
<1>15. SendInv' /\ (Failed' <=> Failed) /\ sendQueue' = sendQueue
  BY <1>1, <1>13, QueueSame DEF sendVars
<1>16. Registered'
  <2>1. connecting' \notin {"idle", "waiting"}
    BY <1>2, <1>13 DEF MayCall
  <2>2. "READ" \in registeredIOEvents' <=> receiveCallback'
    BY <1>6
  <2>3. ~Has(stack', Settling) => "WRITE" \in registeredIOEvents' /\ isScheduled'
    BY <1>1, <1>6, <1>11, <1>14 DEF Registered
  <2> QED
    BY <1>4, <1>6, <1>11, <1>14, <1>15, <2>1, <2>2, <2>3 DEF Registered
<1>17. Failure'
  BY <1>4, <1>11, <1>14, <1>15 DEF Failure
<1>18. ControlType'
  BY <1>1, <1>6, <1>13, <1>14 DEF ControlType
<1> QED
  BY <1>14, <1>15, <1>16, <1>17, <1>18 DEF IInv

LEMMA DestroyStep ==
  ASSUME IInv, Destroy PROVE IInv'
<1>1. StackInv /\ ControlType /\ Destruction /\ Registered /\ Failure /\ SendInv
  BY DEF IInv
<1>2. MayCall /\ owner
  BY DEF Destroy
<1>3. stack \in Seq(FrameSet) /\ StackOK(stack) /\ ~Has(stack, AtOnce) /\ destroyed = "no" /\ ~Has(stack, Destroying)
  BY <1>1, <1>2, MayCallStack DEF Destruction
<1> DEFINE f == Frame("closeNow")
           g == Frame("destroyEnd")
           u == Push(g, stack)
           t == Push(f, u)
<1>4. f \in FrameSet /\ f.at = "closeNow" /\ g \in FrameSet /\ g.at = "destroyEnd"
  BY FrameType DEF Labels
<1>5. Resume(t)
  BY <1>3, <1>4, PushTwo DEF Destroy
<1> HIDE DEF f, g
<1>6. /\ u \in Seq(FrameSet) /\ StackOK(u)
      /\ \A labels : Has(u, labels) <=> g.at \in labels \/ Has(stack, labels)
  BY <1>3, <1>4, PushFrame DEF Loops, Throwing
<1> HIDE DEF u
<1>7. /\ t \in Seq(FrameSet) /\ StackOK(t)
      /\ \A labels : Has(t, labels) <=> f.at \in labels \/ Has(u, labels)
      /\ ClosesFirst(t)
  <2>1. ~Has(u, AtOnce)
    BY <1>3, <1>4, <1>6 DEF AtOnce
  <2> QED
    BY <1>4, <1>6, <2>1, PushFrame DEF Loops, Throwing, Destroying, Closing
<1> HIDE DEF t
<1>8. {f.at, g.at} \cap (Fails \cup ErrorFail \cup ErrorStart \cup Settling) = {}
  BY <1>4 DEF Fails, ErrorFail, ErrorStart, Settling
<1>9. /\ Has(t, Fails) <=> Has(stack, Fails)
      /\ Has(t, ErrorFail) <=> Has(stack, ErrorFail)
      /\ Has(t, ErrorStart) <=> Has(stack, ErrorStart)
      /\ Has(t, Settling) <=> Has(stack, Settling)
  BY <1>6, <1>7, <1>8
<1>10. stack' = t /\ destroyed' = "no"
  BY <1>3, <1>5 DEF Resume
<1>11. UNCHANGED <<memberVars, sendVars, assertFailed, connecting, connected>> /\ owner' = FALSE /\ hard' = TRUE
  BY DEF Destroy, connVars
<1>12. Destruction'
  BY <1>7, <1>10, <1>11 DEF Destruction
<1>13. SendInv' /\ (Failed' <=> Failed) /\ sendQueue' = sendQueue
  BY <1>1, <1>11, QueueSame DEF sendVars
<1>14. Quiet' <=> Quiet
  BY <1>11 DEF Quiet, memberVars
<1>15. Registered'
  <2>1. connecting' \notin {"idle", "waiting"}
    BY <1>2, <1>11 DEF MayCall
  <2> QED
    BY <1>1, <1>9, <1>10, <1>11, <1>13, <1>14, <2>1 DEF Registered, memberVars
<1>16. Failure'
  BY <1>1, <1>9, <1>10, <1>11, <1>13 DEF Failure, memberVars
<1>17. ControlType'
  BY <1>1, <1>10, <1>11 DEF ControlType, memberVars
<1>18. StackInv'
  BY <1>7, <1>10 DEF StackInv
<1> QED
  BY <1>12, <1>13, <1>15, <1>16, <1>17, <1>18 DEF IInv

-----------------------------------------------------------------------------
(* Events *)

LEMMA EmptyStack ==
  /\ <<>> \in Seq(FrameSet) /\ StackOK(<<>>) /\ ClosesFirst(<<>>)
  /\ \A labels : ~Has(<<>>, labels)
BY DEF StackOK, ClosesFirst, Has

LEMMA PushEmpty ==
  ASSUME NEW f \in FrameSet, f.at \notin Loops, f.at \notin Destroying
  PROVE  /\ Push(f, <<>>) \in Seq(FrameSet) /\ StackOK(Push(f, <<>>)) /\ ClosesFirst(Push(f, <<>>))
         /\ \A labels : Has(Push(f, <<>>), labels) <=> f.at \in labels
<1>1. ~Has(<<>>, AtOnce) /\ ~Has(<<>>, Fails) /\ <<>> \in Seq(FrameSet) /\ StackOK(<<>>)
  BY EmptyStack
<1>2. /\ Push(f, <<>>) \in Seq(FrameSet) /\ StackOK(Push(f, <<>>))
      /\ \A labels : Has(Push(f, <<>>), labels) <=> f.at \in labels \/ Has(<<>>, labels)
      /\ f.at \notin Destroying /\ (f.at \in Closing \/ ClosesFirst(<<>>)) => ClosesFirst(Push(f, <<>>))
  BY <1>1, PushFrame
<1> QED
  BY <1>2, EmptyStack

\* What can be on the stack right after an event.
LEMMA EventStack ==
  ASSUME NEW l \in {"trySend", "tryReceive", "socketError"},
         NEW m \in {"trySend", "handlerEnd"},
         m = "trySend" => l = "tryReceive"
  PROVE  LET base == Push(Frame("handlerEnd"), <<>>)
             u == IF m = "trySend" THEN Push(Frame("trySend"), base) ELSE base
             t == Push(Frame(l), u)
         IN /\ t \in Seq(FrameSet) /\ StackOK(t) /\ ClosesFirst(t)
            /\ \A labels : Has(t, labels) <=> "handlerEnd" \in labels \/ m \in labels \/ l \in labels
<1> DEFINE h == Frame("handlerEnd")
           w == Frame("trySend")
           f == Frame(l)
           base == Push(h, <<>>)
           v == Push(w, base)
           u == IF m = "trySend" THEN v ELSE base
           t == Push(f, u)
<1>1. h \in FrameSet /\ h.at = "handlerEnd" /\ w \in FrameSet /\ w.at = "trySend" /\ f \in FrameSet /\ f.at = l
  BY FrameType DEF Labels
<1> HIDE DEF h, w, f
<1>2. /\ base \in Seq(FrameSet) /\ StackOK(base) /\ ClosesFirst(base)
      /\ \A labels : Has(base, labels) <=> "handlerEnd" \in labels
  BY <1>1, PushEmpty DEF Loops, Destroying
<1> HIDE DEF base
<1>3. ~Has(base, AtOnce) /\ Has(base, Guards) /\ ~Has(base, Fails)
  BY <1>2 DEF AtOnce, Guards, Fails
<1>4. /\ v \in Seq(FrameSet) /\ StackOK(v) /\ ClosesFirst(v)
      /\ \A labels : Has(v, labels) <=> "trySend" \in labels \/ "handlerEnd" \in labels
  BY <1>1, <1>2, <1>3, PushFrame DEF Destroying
<1> HIDE DEF v
<1>5. /\ u \in Seq(FrameSet) /\ StackOK(u) /\ ClosesFirst(u)
      /\ \A labels : Has(u, labels) <=> m \in labels \/ "handlerEnd" \in labels
  <2>1. CASE m = "trySend"
    BY <1>4, <2>1
  <2>2. CASE m = "handlerEnd"
    BY <1>2, <2>2
  <2> QED
    BY <2>1, <2>2
<1> HIDE DEF u
<1>6. ~Has(u, AtOnce) /\ Has(u, Guards) /\ ~Has(u, Fails)
  BY <1>5 DEF AtOnce, Guards, Fails
<1>7. /\ t \in Seq(FrameSet) /\ StackOK(t) /\ ClosesFirst(t)
      /\ \A labels : Has(t, labels) <=> l \in labels \/ Has(u, labels)
  BY <1>1, <1>5, <1>6, PushFrame DEF Destroying
<1> QED
  BY <1>5, <1>7 DEF t, u, v, base, h, w, f

\* What an event does, and an exception that unwinds the stack to it.
LEMMA EventStep ==
  ASSUME IInv, NEW t \in Seq(FrameSet), StackOK(t), ClosesFirst(t), Resume(t),
         socket = "open", ~Has(stack, Fails), stack # <<>> \/ connecting \notin {"idle", "waiting"},
         ~Has(t, Fails), ~Has(t, ErrorFail), ~Has(t, Destroying), ~Has(t, Closing),
         Has(t, Settling) \/ (~Has(stack, Settling) /\ isScheduled' = isScheduled),
         isScheduled' \in BOOLEAN,
         UNCHANGED <<socket, registeredIOEvents, closeStarted, receiveCallback, sendVars, owner, histVars, connVars>>
  PROVE  IInv'
<1>1. StackInv /\ ControlType /\ Destruction /\ Registered /\ Failure /\ SendInv
  BY DEF IInv
<1>2. destroyed = "no"
  BY <1>1 DEF Destruction, ControlType
<1>3. StackInv' /\ Destruction' /\ destroyed' \in {"no", "pending", "done"} /\ stack' = t
  BY <1>1, <1>2, GrowResume
<1>4. SendInv' /\ (Failed' <=> Failed) /\ sendQueue' = sendQueue
  BY <1>1, QueueSame DEF sendVars
<1>5. UNCHANGED <<hard, assertFailed, connecting, connected>>
  BY DEF histVars, connVars
<1>6. Registered'
  BY <1>1, <1>3, <1>4, <1>5 DEF Registered
<1>7. Failure'
  BY <1>1, <1>3, <1>4, <1>5 DEF Failure
<1>8. ControlType'
  BY <1>1, <1>3, <1>5 DEF ControlType
<1> QED
  BY <1>3, <1>4, <1>6, <1>7, <1>8 DEF IInv

LEMMA HandlerReadyStep ==
  ASSUME IInv, NEW events \in SUBSET {"READ", "WRITE"}, HandlerReady(events) PROVE IInv'
<1>1. stack = <<>> /\ connecting = "done" /\ events # {} /\ events \subseteq registeredIOEvents
  BY DEF HandlerReady
<1>2. socket = "open"
  BY <1>1 DEF IInv, Registered, Quiet, ControlType
<1>3. ~Has(stack, Fails) /\ ~Has(stack, Settling)
  BY <1>1, EmptyStack
<1> DEFINE l == IF "READ" \in events THEN "tryReceive" ELSE "trySend"
           m == IF events = {"READ", "WRITE"} THEN "trySend" ELSE "handlerEnd"
           base == Push(Frame("handlerEnd"), <<>>)
           u == IF m = "trySend" THEN Push(Frame("trySend"), base) ELSE base
           t == Push(Frame(l), u)
<1>4. /\ t \in Seq(FrameSet) /\ StackOK(t) /\ ClosesFirst(t)
      /\ \A labels : Has(t, labels) <=> "handlerEnd" \in labels \/ m \in labels \/ l \in labels
  <2>1. l \in {"trySend", "tryReceive", "socketError"} /\ m \in {"trySend", "handlerEnd"} /\ (m = "trySend" => l = "tryReceive")
    OBVIOUS
  <2> HIDE DEF l, m
  <2> QED
    BY <2>1, EventStack
<1>5. Resume(t)
  <2> DEFINE h == Frame("handlerEnd")
             w == Frame("trySend")
             r == Frame("tryReceive")
  <2>1. h \in FrameSet /\ w \in FrameSet /\ r \in FrameSet
    BY FrameType DEF Labels
  <2>2. Resume(((IF "READ" \in events THEN <<r>> ELSE <<>>) \o (IF "WRITE" \in events THEN <<w>> ELSE <<>>)) \o <<h>>)
    BY DEF HandlerReady, Dispatch
  <2> HIDE DEF h, w, r
  <2>3. (<<r>> \o <<>>) \o <<h>> = <<r>> \o (<<h>> \o <<>>)
    BY <2>1
  <2>4. (<<>> \o <<w>>) \o <<h>> = <<w>> \o (<<h>> \o <<>>)
    BY <2>1
  <2>5. (<<r>> \o <<w>>) \o <<h>> = <<r>> \o (<<w>> \o (<<h>> \o <<>>))
    BY <2>1
  <2>6. CASE "READ" \in events /\ "WRITE" \in events
    <3>1. events = {"READ", "WRITE"}
      BY <2>6
    <3> QED
      BY <2>2, <2>5, <2>6, <3>1 DEF Push, h, w, r
  <2>7. CASE "READ" \in events /\ "WRITE" \notin events
    <3>1. events # {"READ", "WRITE"}
      BY <2>7
    <3> QED
      BY <2>2, <2>3, <2>7, <3>1 DEF Push, h, w, r
  <2>8. CASE "READ" \notin events
    <3>1. events # {"READ", "WRITE"} /\ "WRITE" \in events
      BY <1>1, <2>8
    <3> QED
      BY <2>2, <2>4, <2>8, <3>1 DEF Push, h, w, r
  <2> QED
    BY <2>6, <2>7, <2>8
<1> HIDE DEF t
<1>6. ~Has(t, Fails) /\ ~Has(t, ErrorFail) /\ ~Has(t, Destroying) /\ ~Has(t, Closing)
  BY <1>4 DEF Fails, ErrorFail, Destroying, Closing
<1>7. UNCHANGED <<memberVars, sendVars, owner, histVars, connVars>>
  BY DEF HandlerReady
<1>8. isScheduled \in BOOLEAN
  BY DEF IInv, ControlType
<1> QED
  BY <1>1, <1>2, <1>3, <1>4, <1>5, <1>6, <1>7, <1>8, EventStep DEF memberVars

LEMMA ReceiveThrowsStep ==
  ASSUME IInv, ReceiveThrows PROVE IInv'
<1>1. stack # <<>> /\ Head(stack).at = "tryReceive" /\ receiveCallback
  BY DEF ReceiveThrows, Receiving, Top
<1>2. socket = "open" /\ ~Has(stack, Fails)
  BY <1>1 DEF IInv, Registered, Quiet, ControlType
<1> DEFINE t == Push(Frame("socketError"), Push(Frame("handlerEnd"), <<>>))
<1>3. /\ t \in Seq(FrameSet) /\ StackOK(t) /\ ClosesFirst(t)
      /\ \A labels : Has(t, labels) <=> "handlerEnd" \in labels \/ "socketError" \in labels
  <2>1. "handlerEnd" # "trySend"
    OBVIOUS
  <2> QED
    BY <2>1, EventStack
<1>4. Resume(t)
  <2>1. Frame("socketError") \in FrameSet /\ Frame("handlerEnd") \in FrameSet
    BY FrameType DEF Labels
  <2>2. <<Frame("socketError"), Frame("handlerEnd")>> \o <<>> = t
    BY <2>1, EmptyStack, PushTwo
  <2>3. <<Frame("socketError"), Frame("handlerEnd")>> \o <<>> = <<Frame("socketError"), Frame("handlerEnd")>>
    BY <2>1
  <2> QED
    BY <2>2, <2>3 DEF ReceiveThrows
<1> HIDE DEF t
<1>5. ~Has(t, Fails) /\ ~Has(t, ErrorFail) /\ ~Has(t, Destroying) /\ ~Has(t, Closing) /\ Has(t, Settling)
  BY <1>3 DEF Fails, ErrorFail, Destroying, Closing, Settling
<1>6. UNCHANGED <<memberVars, sendVars, owner, histVars, connVars>>
  BY DEF ReceiveThrows
<1>7. isScheduled \in BOOLEAN
  BY DEF IInv, ControlType
<1> QED
  BY <1>1, <1>2, <1>3, <1>4, <1>5, <1>6, <1>7, EventStep DEF memberVars

LEMMA TimeoutStep ==
  ASSUME IInv, TimeoutExpired PROVE IInv'
<1>1. stack = <<>> /\ isScheduled /\ isScheduled' = FALSE
  BY DEF TimeoutExpired
<1>2. socket = "open"
  BY <1>1 DEF IInv, Registered, Quiet, ControlType
<1>3. ~Has(stack, Fails) /\ ~Has(stack, Settling)
  BY <1>1, EmptyStack
<1>4. sendQueue # <<>>
  BY <1>1, <1>3 DEF IInv, Registered
<1>5. connecting \notin {"idle", "waiting"}
  BY <1>4 DEF IInv, Registered
<1> DEFINE f == Frame("socketError")
           t == Push(f, <<>>)
<1>6. f \in FrameSet /\ f.at = "socketError"
  BY FrameType DEF Labels
<1>7. Resume(t)
  <2>1. <<f>> \o <<>> = <<f>>
    BY <1>6
  <2> QED
    BY <2>1 DEF TimeoutExpired, Push
<1> HIDE DEF f
<1>8. /\ t \in Seq(FrameSet) /\ StackOK(t) /\ ClosesFirst(t)
      /\ \A labels : Has(t, labels) <=> "socketError" \in labels
  BY <1>6, PushEmpty DEF Loops, Destroying
<1> HIDE DEF t
<1>9. ~Has(t, Fails) /\ ~Has(t, ErrorFail) /\ ~Has(t, Destroying) /\ ~Has(t, Closing) /\ Has(t, Settling)
  BY <1>8 DEF Fails, ErrorFail, Destroying, Closing, Settling
<1>10. UNCHANGED <<socket, registeredIOEvents, closeStarted, receiveCallback, sendVars, owner, histVars, connVars>>
  BY DEF TimeoutExpired
<1>11. isScheduled' \in BOOLEAN /\ (stack # <<>> \/ connecting \notin {"idle", "waiting"})
  BY <1>1, <1>5
<1> QED
  BY <1>2, <1>3, <1>7, <1>8, <1>9, <1>10, <1>11, EventStep

\* connectSuccess() hands out a socket that nobody has used.
LEMMA ConnectSuccessStep ==
  ASSUME IInv, connecting \in {"idle", "waiting"}, NEW really \in BOOLEAN, ConnectSuccess(really)
  PROVE  IInv'
<1>1. StackInv /\ ControlType /\ Destruction /\ Registered /\ Failure /\ SendInv
  BY DEF IInv
<1>2. stack = <<>> /\ sendQueue = <<>>
  BY <1>1 DEF Registered
<1> DEFINE t == Push(User, <<>>)
<1>3. stack' = t
  <2>1. <<User>> \o <<>> = <<User>>
    BY FrameType DEF User, Labels
  <2> QED
    BY <2>1 DEF ConnectSuccess, Push
<1>4. /\ t \in Seq(FrameSet) /\ StackOK(t) /\ ClosesFirst(t)
      /\ \A labels : "user" \notin labels => ~Has(t, labels)
  BY EmptyStack, MaybeUser
<1>5. OnlyUnused(t)
  <2>1. User \in FrameSet /\ User.at = "user"
    BY FrameType DEF User, Labels
  <2>2. t = <<User>>
    BY <2>1 DEF Push
  <2>3. \A i \in DOMAIN <<User>> : <<User>>[i] = User
    OBVIOUS
  <2> QED
    BY <2>1, <2>2, <2>3 DEF OnlyUnused, Unused
<1> HIDE DEF t
<1>6. /\ UNCHANGED <<memberVars, sendVars, owner, destroyed, hard, assertFailed>>
      /\ connecting' = "done" /\ connected' \in BOOLEAN
  BY DEF ConnectSuccess, histVars
<1>7. ~Has(t, Fails) /\ ~Has(t, ErrorFail) /\ ~Has(t, ErrorStart) /\ ~Has(t, Destroying) /\ ~Has(t, Closing)
      /\ ~Has(stack, Settling)
  BY <1>2, <1>4, EmptyStack, NotUser
<1>8. Destruction'
  <2>1. destroyed # "pending"
    BY <1>1, <1>2, EmptyStack DEF Destruction
  <2> QED
    BY <1>1, <1>3, <1>4, <1>5, <1>6, <1>7, <2>1 DEF Destruction, memberVars
<1>9. SendInv' /\ (Failed' <=> Failed) /\ sendQueue' = <<>>
  BY <1>1, <1>2, <1>6, QueueSame DEF sendVars
<1>10. Quiet' <=> Quiet
  BY <1>6 DEF Quiet, memberVars
<1>11. Registered'
  BY <1>1, <1>2, <1>3, <1>6, <1>7, <1>9, <1>10 DEF Registered, memberVars
<1>12. Failure'
  BY <1>1, <1>3, <1>6, <1>7, <1>9 DEF Failure, memberVars
<1>13. ControlType' /\ StackInv'
  BY <1>1, <1>3, <1>4, <1>6 DEF ControlType, memberVars, StackInv
<1> QED
  BY <1>8, <1>9, <1>11, <1>12, <1>13 DEF IInv

\* The stack and the destruction stay as they are.
LEMMA StillStep ==
  ASSUME IInv, UNCHANGED <<socket, isScheduled, closeStarted, sendVars, owner, destroyed, stack, histVars>>,
         registeredIOEvents' \subseteq {"READ", "WRITE"}, receiveCallback' \in BOOLEAN,
         "READ" \in registeredIOEvents' <=> receiveCallback',
         "WRITE" \in registeredIOEvents' <=> "WRITE" \in registeredIOEvents,
         closeStarted => registeredIOEvents' \subseteq registeredIOEvents,
         connecting' \in {"idle", "waiting"} => connecting \in {"idle", "waiting"},
         connecting' \in {"idle", "waiting", "done", "failed"}, connected' \in BOOLEAN
  PROVE  IInv'
<1>1. StackInv /\ ControlType /\ Destruction /\ Registered /\ Failure /\ SendInv
  BY DEF IInv
<1>2. SendInv' /\ (Failed' <=> Failed) /\ sendQueue' = sendQueue
  BY <1>1, QueueSame DEF sendVars
<1>3. Quiet => Quiet'
  BY DEF Quiet
<1>4. Registered'
  BY <1>1, <1>2, <1>3 DEF Registered
<1>5. Failure'
  BY <1>1, <1>2 DEF Failure, histVars
<1>6. Destruction' /\ StackInv' /\ ControlType'
  BY <1>1 DEF Destruction, StackInv, ControlType, histVars
<1> QED
  BY <1>2, <1>4, <1>5, <1>6 DEF IInv

-----------------------------------------------------------------------------
(* The theorems *)

LEMMA InvInit == Init => IInv
<1> SUFFICES ASSUME Init PROVE IInv
  OBVIOUS
<1>1. SendInv
  <2>1. /\ sendQueue = <<>> /\ answers = <<>> /\ attempts = 0 /\ silent = {} /\ Len(sendQueue) = 0 /\ Len(answers) = 0
        /\ DOMAIN sendQueue = {} /\ DOMAIN answers = {}
    BY DEF Init
  <2>2. SendType
    BY <2>1, BoundAssumption DEF SendType
  <2>3. Waiting \union {answers[i].id : i \in DOMAIN answers} = 1 .. attempts
    BY <2>1 DEF Waiting
  <2> QED
    BY <2>1, <2>2, <2>3 DEF SendInv, Ordered, InOrder
<1>2. ControlType
  BY DEF Init, ControlType
<1>3. stack = <<>> /\ StackInv
  BY EmptyStack DEF Init, StackInv
<1>4. ~Failed
  BY DEF Init, Failed
<1>5. Registered /\ Destruction /\ Failure
  BY <1>3, <1>4, EmptyStack DEF Init, Registered, Destruction, Failure, Quiet
<1> QED
  BY <1>1, <1>2, <1>3, <1>5 DEF IInv

LEMMA UserCallStep ==
  ASSUME IInv, UserCall PROVE IInv'
<1>1. ASSUME NEW null \in BOOLEAN, Send(null) PROVE IInv'
  BY <1>1, SendStep
<1>2. CASE SendRejected
  BY <1>2, SendRejectedStep
<1>3. CASE SetReceiveCallback \/ ClearReceiveCallback
  <2>1. UNCHANGED <<socket, isScheduled, closeStarted, sendVars, owner, destroyed, stack, histVars, connVars>>
    BY <1>3 DEF SetReceiveCallback, ClearReceiveCallback
  <2>2. /\ registeredIOEvents' \subseteq {"READ", "WRITE"} /\ receiveCallback' \in BOOLEAN
        /\ "READ" \in registeredIOEvents' <=> receiveCallback'
        /\ "WRITE" \in registeredIOEvents' <=> "WRITE" \in registeredIOEvents
        /\ closeStarted => registeredIOEvents' \subseteq registeredIOEvents
    BY <1>3 DEF SetReceiveCallback, ClearReceiveCallback, IInv, ControlType
  <2>3. connecting \in {"idle", "waiting", "done", "failed"} /\ connected \in BOOLEAN
    BY DEF IInv, ControlType
  <2> QED
    BY <2>1, <2>2, <2>3, StillStep DEF connVars
<1>4. CASE Close
  <2>1. CASE sendQueue # <<>>
    BY <1>4, <2>1, GracefulCloseStep
  <2>2. CASE sendQueue = <<>>
    <3>1. /\ MayCall /\ Resume(<<Frame("closeNow")>> \o stack)
          /\ UNCHANGED <<memberVars, sendVars, owner, hard, assertFailed, connVars>>
      BY <1>4, <2>2 DEF Close, NothingPending, histVars
    <3> QED
      BY <2>2, <3>1, CallCloseNowStep
  <2> QED
    BY <2>1, <2>2
<1>5. CASE CallCloseNow
  BY <1>5, CallCloseNowStep DEF CallCloseNow
<1>6. CASE Destroy
  BY <1>6, DestroyStep
<1> QED
  BY <1>1, <1>2, <1>3, <1>4, <1>5, <1>6 DEF UserCall

LEMMA ContinueStep ==
  ASSUME IInv, Continue PROVE IInv'
<1>0. assertFailed \in BOOLEAN
  BY DEF IInv, ControlType
<1>1. CASE UserReturn \/ CatchEnd \/ CloseShutdown
  BY <1>0, <1>1, PopStep DEF UserReturn, CatchEnd, CloseShutdown, Top, Rest, histVars
<1>2. CASE SendComplete
  BY <1>2, SendCompleteStep
<1>3. CASE SendBlocked
  BY <1>3, AwaitStep DEF SendBlocked, Trying
<1>4. CASE TrySendEnd
  BY <1>4, AwaitStep, DrainedStep DEF TrySendEnd
<1>5. CASE SendThrows
  BY <1>5, SendThrowsStep
<1>6. CASE ReceiveMessage \/ ReceiveEof
  BY <1>6, ReceiveStep
<1>7. CASE ReceiveEnd
  <2>1. assertFailed' \in BOOLEAN
    BY <1>0, <1>7 DEF ReceiveEnd, IInv, ControlType
  <2> QED
    BY <1>7, <2>1, PopStep DEF ReceiveEnd, Top, Rest
<1>8. CASE ReceiveThrows
  BY <1>8, ReceiveThrowsStep
<1>9. CASE CloseNow
  <2>1. stack # <<>> /\ Head(stack).at = "closeNow" /\ UNCHANGED <<sendVars, owner, hard, connVars>>
    BY <1>9 DEF CloseNow, Top
  <2>2. CASE socket = "closed"
    <3>1. Resume(Tail(stack)) /\ UNCHANGED memberVars /\ assertFailed' \in BOOLEAN
      BY <1>0, <1>9, <2>2 DEF CloseNow, Rest, ClosedAsserts
    <3> QED
      BY <2>1, <2>2, <3>1, PopStep
  <2>3. CASE socket # "closed"
    <3>1. /\ socket = "open" /\ Disarm /\ Resume(SocketClosed(<<Frame("closeNowFail")>> \o Rest))
          /\ UNCHANGED <<socket, assertFailed>> /\ "closeNowFail" \in Fails
      BY <1>9, <2>3 DEF CloseNow, Fails
    <3> QED
      BY <2>1, <3>1, DisarmStep
  <2> QED
    BY <2>2, <2>3
<1>10. CASE SocketError
  <2>1. stack # <<>> /\ Head(stack).at = "socketError" /\ UNCHANGED <<sendVars, owner, connVars>>
    BY <1>10 DEF SocketError, Top
  <2>2. socket = "open"
    <3>1. Has(stack, ErrorStart)
      BY <2>1, TopFacts DEF IInv, ErrorStart
    <3> QED
      BY <3>1 DEF IInv, Registered
  <2>3. /\ Disarm /\ Resume(SocketClosed(<<Frame("errorFail")>> \o Rest)) /\ socket' = "closed" /\ hard' = TRUE
        /\ UNCHANGED assertFailed /\ "errorFail" \in Fails
    BY <1>10, <2>2 DEF SocketError, Fails
  <2> QED
    BY <2>1, <2>2, <2>3, DisarmStep
<1>11. CASE FailSend
  BY <1>11, FailSendStep
<1>12. CASE FailDone
  BY <1>12, FailDoneStep
<1>13. CASE DestroyEnd
  BY <1>13, DestroyEndStep
<1> QED
  BY <1>1, <1>2, <1>3, <1>4, <1>5, <1>6, <1>7, <1>8, <1>9, <1>10, <1>11, <1>12, <1>13 DEF Continue

LEMMA InvNext == IInv /\ [Next]_vars => IInv'
<1> SUFFICES ASSUME IInv, [Next]_vars PROVE IInv'
  OBVIOUS
<1>0. /\ registeredIOEvents \subseteq {"READ", "WRITE"} /\ receiveCallback \in BOOLEAN
      /\ "READ" \in registeredIOEvents <=> receiveCallback
      /\ connecting \in {"idle", "waiting", "done", "failed"} /\ connected \in BOOLEAN
  BY DEF IInv, ControlType, Registered
<1>1. CASE UserCall
  BY <1>1, UserCallStep
<1>2. CASE Continue
  BY <1>2, ContinueStep
<1>3. ASSUME NEW events \in SUBSET {"READ", "WRITE"}, HandlerReady(events) PROVE IInv'
  BY <1>3, HandlerReadyStep
<1>4. CASE TimeoutExpired
  BY <1>4, TimeoutStep
<1>5. CASE Adopt
  <2>1. /\ UNCHANGED <<memberVars, sendVars, owner, destroyed, stack, histVars>>
        /\ connecting' = "done" /\ connected' = TRUE
    BY <1>5 DEF Adopt
  <2> QED
    BY <1>0, <2>1, StillStep DEF memberVars
<1>6. ASSUME connecting \in {"idle", "waiting"}, ConnectError PROVE IInv'
  <2>1. /\ UNCHANGED <<memberVars, sendVars, owner, destroyed, stack, histVars, connected>>
        /\ connecting' = "failed"
    BY <1>6 DEF ConnectError
  <2> QED
    BY <1>0, <2>1, StillStep DEF memberVars
<1>7. CASE Connect
  <2>1. CASE ConnectSuccess(TRUE)
    BY <1>7, <2>1, ConnectSuccessStep DEF Connect
  <2>2. CASE ConnectError
    BY <1>6, <1>7, <2>2 DEF Connect
  <2>3. CASE /\ connecting' = "waiting" 
             /\ UNCHANGED <<memberVars, sendVars, owner, destroyed, stack, histVars, connected>>
    BY <1>0, <1>7, <2>3, StillStep DEF memberVars, Connect
  <2> QED
    BY <1>7, <2>1, <2>2, <2>3 DEF Connect
<1>8. CASE ConnectorReady
  <2>1. ASSUME NEW error \in BOOLEAN, ConnectSuccess(~error) PROVE IInv'
    BY <1>8, <2>1, ConnectSuccessStep DEF ConnectorReady
  <2> QED
    BY <1>6, <1>8, <2>1 DEF ConnectorReady
<1>9. CASE ConnectorTimeout
  BY <1>6, <1>9 DEF ConnectorTimeout
<1>10. CASE Terminated \/ UNCHANGED vars
  <2>1. UNCHANGED <<memberVars, sendVars, owner, destroyed, stack, histVars, connVars>>
    BY <1>10 DEF Terminated, vars
  <2> QED
    BY <1>0, <2>1, StillStep DEF memberVars, connVars
<1> QED
  BY <1>1, <1>2, <1>3, <1>4, <1>5, <1>7, <1>8, <1>9, <1>10 DEF Next

LEMMA InvHolds == Spec => []IInv
BY InvInit, InvNext, PTL DEF Spec

\* UnixSocket.cpp:342-394, 500-527, 978-1030, for any number of sends, however deep
\* callbacks re-enter the socket: every send() waits or has one answer, answers come in
\* the order of the sends, none succeeds after one has failed, and a graceful close
\* fails none.
THEOREM SocketAnswersOnce == Spec => []SendsAnsweredOnce
<1>1. IInv => SendsAnsweredOnce
  <2> SUFFICES ASSUME IInv PROVE SendsAnsweredOnce
    OBVIOUS
  <2>1. TypeOK
    BY DEF IInv, SendInv, SendType, ControlType, StackInv, FrameSet, TypeOK
  <2>2. AnsweredOnce /\ InOrder
    BY <2>1 DEF IInv, SendInv, AnsweredOnce
  <2>3. GracefulClose
    BY DEF IInv, Failure, Failed, GracefulClose
  <2> QED
    BY <2>2, <2>3 DEF SendsAnsweredOnce
<1> QED
  BY <1>1, InvHolds, PTL

\* UnixSocket.cpp:183-272, 944-1054, for any depth of re-entrance: back in the event loop
\* the socket is registered for exactly what it waits for; a closed socket is registered
\* for nothing, even while the callbacks of its closing run; and no method but close()
\* goes on with an object that is gone.
THEOREM SocketQuietWhenDone == Spec => []QuietWhenDone
<1>1. IInv => QuietWhenDone
  <2> SUFFICES ASSUME IInv PROVE QuietWhenDone
    OBVIOUS
  <2>1. Settled
    <3> SUFFICES ASSUME stack = <<>>
                 PROVE  /\ ("READ" \in registeredIOEvents) = receiveCallback
                        /\ ("WRITE" \in registeredIOEvents) = (sendQueue # <<>>)
                        /\ isScheduled = (sendQueue # <<>>)
      BY DEF Settled
    <3>1. /\ "READ" \in registeredIOEvents <=> receiveCallback
          /\ "WRITE" \in registeredIOEvents <=> sendQueue # <<>>
          /\ isScheduled <=> sendQueue # <<>>
      BY EmptyStack DEF IInv, Registered
    <3>2. receiveCallback \in BOOLEAN /\ isScheduled \in BOOLEAN
      BY DEF IInv, ControlType
    <3> QED
      BY <3>1, <3>2
  <2>2. ClosedIsQuiet
    BY TryingOpen DEF ClosedIsQuiet, IInv, Registered, Quiet, Trying
  <2>3. DestroyedIsUnused
    BY DEF IInv, Destruction, DestroyedIsUnused, OnlyUnused, Unused
  <2> QED
    BY <2>1, <2>2, <2>3 DEF QuietWhenDone
<1> QED
  BY <1>1, InvHolds, PTL

-----------------------------------------------------------------------------
(* The assertions *)

\* A receive loop that has not called back yet is on top, and has its callback.
Fresh(f) == f.at = "tryReceive" /\ f.n = 0
NoFresh(st) == \A i \in DOMAIN st : ~Fresh(st[i])
FirstRound == stack # <<>> => NoFresh(Tail(stack)) /\ (Fresh(Head(stack)) => receiveCallback)

LEMMA FreshPush ==
  ASSUME NEW f \in FrameSet, NEW st \in Seq(FrameSet), NoFresh(st)
  PROVE  /\ Push(f, st) \in Seq(FrameSet) /\ Push(f, st) # <<>> /\ Head(Push(f, st)) = f /\ Tail(Push(f, st)) = st
         /\ ~Fresh(f) => NoFresh(Push(f, st))
<1>1. PICK t : t = Push(f, st)
  OBVIOUS
<1>2. /\ t \in Seq(FrameSet) /\ Len(t) = Len(st) + 1 /\ t[1] = f /\ t # <<>>
      /\ \A i \in 2 .. (Len(st) + 1) : t[i] = st[i - 1]
  BY <1>1, PushSeq
<1>3. Head(t) = f /\ Tail(t) \in Seq(FrameSet) /\ Len(Tail(t)) = Len(st) /\ \A i \in 1 .. Len(st) : Tail(t)[i] = t[i + 1]
  BY <1>2
<1>4. Tail(t) = st
  <2>1. \A i \in 1 .. Len(st) : Tail(t)[i] = st[i]
    BY <1>2, <1>3
  <2> QED
    BY <1>3, <2>1
<1>5. ASSUME ~Fresh(f), NEW i \in DOMAIN t PROVE ~Fresh(t[i])
  <2>1. CASE i = 1
    BY <1>2, <1>5, <2>1
  <2>2. CASE i # 1
    <3>1. i - 1 \in DOMAIN st /\ t[i] = st[i - 1]
      BY <1>2, <2>2
    <3> QED
      BY <3>1 DEF NoFresh
  <2> QED
    BY <2>1, <2>2
<1> QED
  BY <1>1, <1>2, <1>3, <1>4, <1>5 DEF NoFresh

LEMMA FreshTail ==
  ASSUME NEW st \in Seq(FrameSet), st # <<>>
  PROVE  NoFresh(st) <=> NoFresh(Tail(st)) /\ ~Fresh(Head(st))
<1>1. /\ Len(st) \in Nat \ {0} /\ Len(Tail(st)) = Len(st) - 1 /\ Head(st) = st[1]
      /\ \A i \in 1 .. (Len(st) - 1) : Tail(st)[i] = st[i + 1]
      /\ \A i \in 2 .. Len(st) : Tail(st)[i - 1] = st[i]
      /\ DOMAIN st = 1 .. Len(st) /\ DOMAIN Tail(st) = 1 .. (Len(st) - 1)
  BY TailSeq
<1>2. ASSUME NoFresh(st) PROVE NoFresh(Tail(st)) /\ ~Fresh(Head(st))
  BY <1>1, <1>2 DEF NoFresh
<1>3. ASSUME NoFresh(Tail(st)), ~Fresh(Head(st)), NEW i \in DOMAIN st PROVE ~Fresh(st[i])
  <2>1. CASE i = 1
    BY <1>1, <1>3, <2>1
  <2>2. CASE i # 1
    <3>1. i - 1 \in DOMAIN Tail(st) /\ Tail(st)[i - 1] = st[i]
      BY <1>1, <2>2
    <3> QED
      BY <1>3, <3>1 DEF NoFresh
  <2> QED
    BY <2>1, <2>2
<1> QED
  BY <1>2, <1>3 DEF NoFresh

\* The frames that methods push on a stack without a fresh receive loop.
LEMMA FreshFrames ==
  ASSUME NEW st \in Seq(FrameSet), NoFresh(st)
  PROVE  /\ \A l \in Labels \ {"tryReceive"} :
              <<Frame(l)>> \o st \in Seq(FrameSet) /\ NoFresh(<<Frame(l)>> \o st)
         /\ \A l, m \in Labels \ {"tryReceive"} :
              <<Frame(l), Frame(m)>> \o st \in Seq(FrameSet) /\ NoFresh(<<Frame(l), Frame(m)>> \o st)
         /\ <<User>> \o st \in Seq(FrameSet) /\ NoFresh(<<User>> \o st)
         /\ SocketClosed(st) \in Seq(FrameSet) /\ NoFresh(SocketClosed(st))
<1>1. ASSUME NEW l \in Labels \ {"tryReceive"}, NEW t \in Seq(FrameSet), NoFresh(t)
      PROVE  Push(Frame(l), t) \in Seq(FrameSet) /\ NoFresh(Push(Frame(l), t)) /\ Frame(l) \in FrameSet
  <2>1. Frame(l) \in FrameSet /\ Frame(l).at = l
    BY FrameType
  <2>2. ~Fresh(Frame(l))
    BY <2>1 DEF Fresh
  <2> QED
    BY <1>1, <2>1, <2>2, FreshPush
<1>2. ASSUME NEW l \in Labels \ {"tryReceive"}, NEW m \in Labels \ {"tryReceive"}
      PROVE  <<Frame(l), Frame(m)>> \o st \in Seq(FrameSet) /\ NoFresh(<<Frame(l), Frame(m)>> \o st)
  <2>1. Push(Frame(m), st) \in Seq(FrameSet) /\ NoFresh(Push(Frame(m), st)) /\ Frame(m) \in FrameSet
    BY <1>1
  <2>2. /\ Push(Frame(l), Push(Frame(m), st)) \in Seq(FrameSet) /\ NoFresh(Push(Frame(l), Push(Frame(m), st)))
        /\ Frame(l) \in FrameSet
    BY <1>1, <2>1
  <2> QED
    BY <2>1, <2>2, PushTwo
<1>3. "user" \in Labels \ {"tryReceive"}
  BY DEF Labels
<1>4. <<User>> \o st \in Seq(FrameSet) /\ NoFresh(<<User>> \o st)
  BY <1>1, <1>3 DEF User, Push
<1>5. SocketClosed(st) \in {st, <<User>> \o st}
  BY DEF SocketClosed
<1> QED
  BY <1>1, <1>2, <1>4, <1>5 DEF Push

LEMMA FreshKept ==
  ASSUME NEW st \in Seq(FrameSet), NoFresh(st), stack' = st
  PROVE  FirstRound'
BY FreshTail DEF FirstRound

\* The methods that run on or are called find no fresh receive loop.
LEMMA FreshStep ==
  ASSUME IInv, FirstRound, UserCall \/ Continue, ~Top("tryReceive")
  PROVE  FirstRound'
<1>1. stack \in Seq(FrameSet)
  BY DEF IInv, StackInv
<1>2. NoFresh(stack)
  <2>1. CASE stack = <<>>
    BY <2>1 DEF NoFresh
  <2>2. CASE stack # <<>>
    BY <1>1, <2>2, FreshTail DEF FirstRound, Top, Fresh
  <2> QED
    BY <2>1, <2>2
<1>3. stack # <<>> => Rest \in Seq(FrameSet) /\ NoFresh(Rest)
  BY <1>1, <1>2, FreshTail, TailSeq DEF Rest
<1>4. /\ \A l \in Labels \ {"tryReceive"} : <<Frame(l)>> \o stack \in Seq(FrameSet) /\ NoFresh(<<Frame(l)>> \o stack)
      /\ \A l, m \in Labels \ {"tryReceive"} :
           <<Frame(l), Frame(m)>> \o stack \in Seq(FrameSet) /\ NoFresh(<<Frame(l), Frame(m)>> \o stack)
      /\ <<User>> \o stack \in Seq(FrameSet) /\ NoFresh(<<User>> \o stack)
  BY <1>1, <1>2, FreshFrames
<1>5. stack # <<>> => \A l \in Labels \ {"tryReceive"} : <<Frame(l)>> \o Rest \in Seq(FrameSet) /\ NoFresh(<<Frame(l)>> \o Rest)
  BY <1>3, FreshFrames
<1>6. {"trySend", "sendCatch", "closeNow", "closeShutdown", "closeNowFail", "errorFail", "socketError", "destroyEnd"}
        \subseteq Labels \ {"tryReceive"}
  BY DEF Labels
\* Calls of the user.
<1>7. ASSUME NEW null \in BOOLEAN, Send(null) PROVE FirstRound'
  <2>1. stack' \in {stack, <<Frame("trySend"), Frame("sendCatch")>> \o stack}
    BY <1>7 DEF Send, Resume
  <2> QED
    BY <1>1, <1>2, <1>4, <1>6, <2>1, FreshKept
<1>8. CASE SendRejected
  BY <1>4, <1>8, FreshKept DEF SendRejected, Resume
<1>9. CASE SetReceiveCallback \/ ClearReceiveCallback
  BY <1>1, <1>2, <1>9, FreshKept DEF SetReceiveCallback, ClearReceiveCallback
<1>10. CASE Close
  <2>1. PICK t : t = <<Frame("closeShutdown")>> \o stack
    OBVIOUS
  <2>2. t \in Seq(FrameSet) /\ NoFresh(t)
    BY <1>4, <1>6, <2>1
  <2>3. stack' \in {<<Frame("closeNow")>> \o stack, SocketClosed(t)}
    BY <1>10, <2>1 DEF Close, Resume
  <2>4. SocketClosed(t) \in Seq(FrameSet) /\ NoFresh(SocketClosed(t))
    BY <2>2, FreshFrames
  <2> QED
    BY <1>4, <1>6, <2>3, <2>4, FreshKept
<1>11. CASE CallCloseNow
  BY <1>4, <1>6, <1>11, FreshKept DEF CallCloseNow, Resume
<1>12. CASE Destroy
  BY <1>4, <1>6, <1>12, FreshKept DEF Destroy, Resume
\* Methods that run on.
<1>13. CASE UserReturn \/ CatchEnd \/ CloseShutdown \/ DestroyEnd \/ FailDone \/ SendBlocked
  <2>1. stack # <<>> /\ stack' = Rest
    BY <1>13 DEF UserReturn, CatchEnd, CloseShutdown, DestroyEnd, FailDone, SendBlocked, Trying, AwaitWritable, Top, Resume
  <2> QED
    BY <1>3, <2>1, FreshKept
<1>14. CASE SendComplete
  <2>1. PICK f : f = [Head(stack) EXCEPT !.n = @ + 1]
    OBVIOUS
  <2>2. stack # <<>> /\ Head(stack).at = "trySend" /\ Head(stack).n < MaxAtOnce /\ Head(stack) \in FrameSet
    BY <1>1, <1>14, TailSeq DEF SendComplete, Trying, Top
  <2>3. f \in FrameSet /\ f.at = "trySend"
    BY <2>1, <2>2, BoundAssumption DEF FrameSet
  <2>4. ~Fresh(f)
    BY <2>3 DEF Fresh
  <2>5. Push(f, Rest) \in Seq(FrameSet) /\ NoFresh(Push(f, Rest))
    BY <1>3, <2>2, <2>3, <2>4, FreshPush
  <2>6. stack' \in {Push(f, Rest), <<User>> \o Push(f, Rest)}
    BY <1>14, <2>1 DEF SendComplete, Resume, Notify, Push
  <2>7. <<User>> \o Push(f, Rest) \in Seq(FrameSet) /\ NoFresh(<<User>> \o Push(f, Rest))
    BY <2>5, FreshFrames
  <2> QED
    BY <2>5, <2>6, <2>7, FreshKept
<1>15. CASE TrySendEnd
  <2>1. stack # <<>> /\ stack' \in {Rest, <<Frame("closeNow")>> \o Rest}
    BY <1>15 DEF TrySendEnd, Drained, AwaitWritable, Top, Resume
  <2> QED
    BY <1>3, <1>5, <1>6, <2>1, FreshKept
<1>16. CASE SendThrows
  BY <1>5, <1>6, <1>16, FreshKept DEF SendThrows, Trying, Top, Resume
<1>17. CASE ReceiveMessage \/ ReceiveEof \/ ReceiveEnd \/ ReceiveThrows
  BY <1>17 DEF ReceiveMessage, ReceiveEof, ReceiveEnd, ReceiveThrows, Receiving
<1>18. CASE CloseNow
  <2>1. PICK t : t = <<Frame("closeNowFail")>> \o Rest
    OBVIOUS
  <2>2. stack # <<>> /\ stack' \in {Rest, SocketClosed(t)}
    BY <1>18, <2>1 DEF CloseNow, Resume, Top
  <2>3. t \in Seq(FrameSet) /\ NoFresh(t)
    BY <1>5, <1>6, <2>1, <2>2
  <2>4. SocketClosed(t) \in Seq(FrameSet) /\ NoFresh(SocketClosed(t))
    BY <2>3, FreshFrames
  <2> QED
    BY <1>3, <2>2, <2>4, FreshKept
<1>19. CASE SocketError
  <2>1. PICK t : t = <<Frame("errorFail")>> \o Rest
    OBVIOUS
  <2>2. stack # <<>> /\ stack' \in {Rest, SocketClosed(t)}
    BY <1>19, <2>1 DEF SocketError, Resume, Top
  <2>3. t \in Seq(FrameSet) /\ NoFresh(t)
    BY <1>5, <1>6, <2>1, <2>2
  <2>4. SocketClosed(t) \in Seq(FrameSet) /\ NoFresh(SocketClosed(t))
    BY <2>3, FreshFrames
  <2> QED
    BY <1>3, <2>2, <2>4, FreshKept
<1>20. CASE FailSend
  <2>1. stack' \in {stack, <<User>> \o stack}
    BY <1>20 DEF FailSend, Resume, Notify
  <2> QED
    BY <1>1, <1>2, <1>4, <2>1, FreshKept
<1> QED
  BY <1>7, <1>8, <1>9, <1>10, <1>11, <1>12, <1>13, <1>14, <1>15, <1>16, <1>17, <1>18, <1>19, <1>20 DEF UserCall, Continue

LEMMA FreshReceive ==
  ASSUME IInv, FirstRound, UserCall \/ Continue, Top("tryReceive")
  PROVE  FirstRound'
<1>1. stack \in Seq(FrameSet) /\ stack # <<>> /\ Head(stack) \in FrameSet /\ Head(stack).at = "tryReceive"
  BY TailSeq DEF IInv, StackInv, Top
<1>2. Rest \in Seq(FrameSet) /\ NoFresh(Rest)
  BY <1>1, TailSeq DEF FirstRound, Rest
<1>3. ReceiveMessage \/ ReceiveEof \/ ReceiveEnd \/ ReceiveThrows
  <2>1. ~MayCall
    BY <1>1 DEF MayCall, Top
  <2>2. ~UserCall
    BY <2>1 DEF UserCall, Send, SendRejected, SetReceiveCallback, ClearReceiveCallback, Close, CallCloseNow, Destroy
  <2> QED
    BY <1>1, <2>2 DEF Continue, UserReturn, CatchEnd, SendComplete, SendBlocked, TrySendEnd, SendThrows, Trying,
                      CloseNow, SocketError, FailSend, FailDone, CloseShutdown, DestroyEnd, Top
<1>4. CASE ReceiveMessage
  <2>1. PICK f : f = [Head(stack) EXCEPT !.n = @ + 1]
    OBVIOUS
  <2>2. f \in FrameSet /\ f.n = Head(stack).n + 1 /\ Head(stack).n \in Nat
    BY <1>1, <1>4, <2>1, BoundAssumption DEF ReceiveMessage, Receiving, FrameSet
  <2>3. ~Fresh(f)
    BY <2>2 DEF Fresh
  <2>4. Push(f, Rest) \in Seq(FrameSet) /\ NoFresh(Push(f, Rest))
    BY <1>2, <2>2, <2>3, FreshPush
  <2>5. <<User>> \o Push(f, Rest) \in Seq(FrameSet) /\ NoFresh(<<User>> \o Push(f, Rest))
    BY <2>4, FreshFrames
  <2>6. stack' = <<User, f>> \o Rest
    BY <1>4, <2>1 DEF ReceiveMessage, Resume
  <2>7. User \in FrameSet
    BY FrameType DEF User, Labels
  <2>8. <<User, f>> \o Rest = <<User>> \o Push(f, Rest)
    BY <1>2, <2>2, <2>7, PushTwo DEF Push
  <2> QED
    BY <2>5, <2>6, <2>8, FreshKept
<1>5. CASE ReceiveEof
  <2>1. <<User>> \o Rest \in Seq(FrameSet) /\ NoFresh(<<User>> \o Rest)
    BY <1>2, FreshFrames
  <2> QED
    BY <1>5, <2>1, FreshKept DEF ReceiveEof, Resume
<1>6. CASE ReceiveEnd
  BY <1>2, <1>6, FreshKept DEF ReceiveEnd, Resume
<1>7. CASE ReceiveThrows
  <2>1. <<>> \in Seq(FrameSet) /\ NoFresh(<<>>) /\ "socketError" \in Labels \ {"tryReceive"} /\ "handlerEnd" \in Labels \ {"tryReceive"}
    BY EmptyStack DEF NoFresh, Labels
  <2>2. PICK t : t = <<Frame("socketError"), Frame("handlerEnd")>> \o <<>>
    OBVIOUS
  <2>3. t \in Seq(FrameSet) /\ NoFresh(t)
    BY <2>1, <2>2, FreshFrames
  <2>4. Frame("socketError") \in FrameSet /\ Frame("handlerEnd") \in FrameSet
    BY <2>1, FrameType
  <2>5. t = <<Frame("socketError"), Frame("handlerEnd")>>
    BY <2>2, <2>4
  <2> QED
    BY <1>7, <2>3, <2>5, FreshKept DEF ReceiveThrows, Resume
<1> QED
  BY <1>3, <1>4, <1>5, <1>6, <1>7

\* A receive loop starts for a READ event, and the socket has that only with a callback.
LEMMA FreshEvent ==
  ASSUME IInv, FirstRound, NEW events \in SUBSET {"READ", "WRITE"}, HandlerReady(events)
  PROVE  FirstRound'
<1>1. /\ stack = <<>> /\ events # {} /\ events \subseteq registeredIOEvents
      /\ stack' = Dispatch(events) \o <<Frame("handlerEnd")>> /\ receiveCallback' = receiveCallback
  BY DEF HandlerReady, Resume, memberVars
<1>2. "READ" \in events => receiveCallback
  BY <1>1 DEF IInv, Registered
<1>3. /\ <<>> \in Seq(FrameSet) /\ NoFresh(<<>>)
      /\ "handlerEnd" \in Labels \ {"tryReceive"} /\ "trySend" \in Labels \ {"tryReceive"} /\ "tryReceive" \in Labels
  BY EmptyStack DEF NoFresh, Labels
<1>4. PICK h, w, r : h = Frame("handlerEnd") /\ w = Frame("trySend") /\ r = Frame("tryReceive")
  OBVIOUS
<1>5. h \in FrameSet /\ w \in FrameSet /\ r \in FrameSet /\ h.at = "handlerEnd" /\ w.at = "trySend"
  BY <1>3, <1>4, FrameType
<1>6. ~Fresh(h) /\ ~Fresh(w)
  BY <1>5 DEF Fresh
<1>7. PICK base : base = Push(h, <<>>)
  OBVIOUS
<1>8. base \in Seq(FrameSet) /\ NoFresh(base) /\ base = <<h>>
  <2>1. base = <<h>>
    BY <1>5, <1>7 DEF Push
  <2> QED
    BY <1>3, <1>5, <1>6, <1>7, <2>1, FreshPush
<1>9. PICK below : below = IF "WRITE" \in events THEN Push(w, base) ELSE base
  OBVIOUS
<1>10. below \in Seq(FrameSet) /\ NoFresh(below)
  BY <1>5, <1>6, <1>8, <1>9, FreshPush
<1>11. CASE "READ" \notin events
  <2>1. stack' = below
    <3>1. "WRITE" \in events
      BY <1>1, <1>11
    <3>2. stack' = (<<>> \o <<w>>) \o base
      BY <1>1, <1>4, <1>8, <1>11, <3>1 DEF Dispatch
    <3> QED
      BY <1>5, <1>9, <3>1, <3>2 DEF Push
  <2> QED
    BY <1>10, <2>1, FreshKept
<1>12. CASE "READ" \in events
  <2>1. stack' = Push(r, below)
    <3>1. CASE "WRITE" \in events
      <4>1. stack' = (<<r>> \o <<w>>) \o base
        BY <1>1, <1>4, <1>8, <1>12, <3>1 DEF Dispatch
      <4>2. (<<r>> \o <<w>>) \o base = <<r>> \o (<<w>> \o base)
        BY ONLY <1>5, <1>8
      <4> QED
        BY <1>9, <3>1, <4>1, <4>2 DEF Push
    <3>2. CASE "WRITE" \notin events
      <4>1. stack' = (<<r>> \o <<>>) \o base
        BY <1>1, <1>4, <1>8, <1>12, <3>2 DEF Dispatch
      <4>2. <<r>> \o <<>> = <<r>>
        BY <1>5
      <4> QED
        BY <1>9, <3>2, <4>1, <4>2 DEF Push
    <3> QED
      BY <3>1, <3>2
  <2>2. stack' # <<>> /\ Head(stack') = r /\ Tail(stack') = below
    BY <1>5, <1>10, <2>1, FreshPush
  <2> QED
    BY <1>1, <1>2, <1>10, <1>12, <2>2 DEF FirstRound
<1> QED
  BY <1>11, <1>12

LEMMA FirstRoundNext == IInv /\ FirstRound /\ [Next]_vars => FirstRound'
<1> SUFFICES ASSUME IInv, FirstRound, [Next]_vars PROVE FirstRound'
  OBVIOUS
<1>1. CASE UserCall \/ Continue
  BY <1>1, FreshStep, FreshReceive
<1>2. ASSUME NEW events \in SUBSET {"READ", "WRITE"}, HandlerReady(events) PROVE FirstRound'
  BY <1>2, FreshEvent
<1>3. /\ <<>> \in Seq(FrameSet) /\ NoFresh(<<>>) /\ "socketError" \in Labels \ {"tryReceive"} /\ "user" \in Labels \ {"tryReceive"}
  BY EmptyStack DEF NoFresh, Labels
<1>4. ASSUME NEW l \in {"socketError", "user"}, stack' = <<Frame(l)>> PROVE FirstRound'
  <2>1. PICK t : t = <<Frame(l)>> \o <<>>
    OBVIOUS
  <2>2. t \in Seq(FrameSet) /\ NoFresh(t)
    BY <1>3, <2>1, FreshFrames
  <2>3. Frame(l) \in FrameSet
    BY <1>3, FrameType
  <2>4. t = <<Frame(l)>>
    BY <2>1, <2>3
  <2> QED
    BY <1>4, <2>2, <2>4, FreshKept
<1>5. CASE TimeoutExpired
  BY <1>4, <1>5 DEF TimeoutExpired, Resume
<1>6. CASE stack' = stack /\ receiveCallback' = receiveCallback
  BY <1>6 DEF FirstRound
<1>7. CASE Adopt
  BY <1>6, <1>7 DEF Adopt, memberVars
<1>8. ASSUME NEW really, ConnectSuccess(really) PROVE FirstRound'
  BY <1>4, <1>8 DEF ConnectSuccess, User
<1>9. CASE ConnectError
  BY <1>6, <1>9 DEF ConnectError, memberVars
<1>10. CASE Connect \/ ConnectorReady \/ ConnectorTimeout
  BY <1>6, <1>8, <1>9, <1>10 DEF Connect, ConnectorReady, ConnectorTimeout, memberVars
<1>11. CASE Terminated \/ UNCHANGED vars
  BY <1>6, <1>11 DEF Terminated, vars, memberVars
<1> QED
  BY <1>1, <1>2, <1>5, <1>7, <1>10, <1>11 DEF Next

LEMMA AssertsStep ==
  ASSUME IInv, FirstRound, [Next]_vars, assertFailed' # assertFailed
  PROVE  sendQueue # <<>> /\ \E i \in DOMAIN stack : stack[i].at = "errorFail"
<1>1. assertFailed \in BOOLEAN /\ Registered
  BY DEF IInv, ControlType
<1>2. CASE ReceiveEnd
  <2>1. stack # <<>> /\ Fresh(Head(stack)) /\ ~receiveCallback
    BY <1>1, <1>2 DEF ReceiveEnd, Top, Fresh
  <2> QED
    BY <2>1 DEF FirstRound
<1>3. CASE CloseNow
  <2>1. socket = "closed" /\ (~ClosedAsserts \/ ~closeStarted)
    BY <1>1, <1>3 DEF CloseNow
  <2>2. sendQueue # <<>> /\ Has(stack, ErrorFail)
    BY <1>1, <2>1 DEF Registered, Quiet, ClosedAsserts
  <2> QED
    BY <2>2 DEF Has, ErrorFail
<1>4. CASE SocketError
  <2>1. socket = "closed"
    BY <1>4 DEF SocketError
  <2>2. stack # <<>> /\ Head(stack).at = "socketError" /\ StackInv
    BY <1>4 DEF SocketError, Top, IInv
  <2>3. Has(stack, ErrorStart)
    BY <2>2, TopFacts DEF ErrorStart
  <2> QED
    BY <1>1, <2>1, <2>3 DEF Registered
<1>5. ASSUME NEW null \in BOOLEAN, Send(null) PROVE FALSE
  BY <1>5 DEF Send, histVars
<1>6. CASE UserCall
  BY <1>5, <1>6 DEF UserCall, SendRejected, SetReceiveCallback, ClearReceiveCallback, Close, CallCloseNow, Destroy, histVars
<1>7. CASE Continue
  BY <1>2, <1>3, <1>4, <1>7
     DEF Continue, UserReturn, CatchEnd, SendComplete, SendBlocked, TrySendEnd, SendThrows, ReceiveMessage, ReceiveEof,
         ReceiveThrows, FailSend, FailDone, CloseShutdown, DestroyEnd, histVars
<1>8. ASSUME NEW events \in SUBSET {"READ", "WRITE"}, HandlerReady(events) PROVE FALSE
  BY <1>8 DEF HandlerReady, histVars
<1>9. CASE TimeoutExpired \/ Adopt \/ Connect \/ ConnectorReady \/ ConnectorTimeout
  BY <1>9 DEF TimeoutExpired, Adopt, Connect, ConnectorReady, ConnectorTimeout, ConnectSuccess, ConnectError, histVars
<1>10. CASE Terminated \/ UNCHANGED vars
  BY <1>10 DEF Terminated, vars, histVars
<1> QED
  BY <1>6, <1>7, <1>8, <1>9, <1>10 DEF Next

\* UnixSocket.cpp:242-247, 701, 983-987, for any depth of re-entrance: the XDCHECKs of
\* closeNow(), socketError() and tryReceive() fail in one situation only, when a callback that
\* socketError() runs closes or destroys the socket while sends are left to be failed.
THEOREM AssertionsFailOnlyInErrors == Spec => AssertsFailOnlyInErrors
<1>1. Init => FirstRound
  BY DEF Init, FirstRound
<1>2. Spec => [](IInv /\ FirstRound)
  BY <1>1, InvInit, InvNext, FirstRoundNext, PTL DEF Spec
<1>3. IInv /\ FirstRound /\ [Next]_vars =>
        [assertFailed' # assertFailed => sendQueue # <<>> /\ \E i \in DOMAIN stack : stack[i].at = "errorFail"]_vars
  BY AssertsStep
<1> QED
  BY <1>2, <1>3, PTL DEF Spec, AssertsFailOnlyInErrors
=============================================================================
