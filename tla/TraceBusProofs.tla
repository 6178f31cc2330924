--------------------------- MODULE TraceBusProofs ---------------------------
(* Invariants of TraceBus for every set of threads and every capacity. *)
EXTENDS TraceBus, TLAPS

LEMMA TypePreserved ==
  ASSUME TypeOK, [Next]_vars PROVE TypeOK'
<1> USE CapacityAssumption DEF CapacityAssumption, TypeOK, stateVars, subVars, threadVars, ownVars, histVars
<1>1. ASSUME NEW p \in Publishers, Publish(p) \/ PublishWoken(p) PROVE TypeOK'
  <2>1. Append(writeBuffer, sequenceNumber) \in Seq(Nat)
        /\ Len(Append(writeBuffer, sequenceNumber)) = Len(writeBuffer) + 1
    OBVIOUS
  <2>2. CASE BlockOnFull(p)
    BY <1>1, <2>2 DEF Publish, PublishWoken, BlockOnFull
  <2>3. CASE Len(writeBuffer) # Capacity /\ Append1(p)
    <3>1. writeBuffer' \in Seq(Nat) /\ Len(writeBuffer') <= Capacity
      BY <2>1, <2>3 DEF Append1
    <3> QED
      BY <1>1, <2>3, <3>1 DEF Publish, PublishWoken, Append1
  <2> QED
    BY <1>1, <2>2, <2>3 DEF Publish, PublishWoken, EnterPublish
<1>2. ASSUME NEW p \in Publishers, PublishNotify(p) PROVE TypeOK'
  BY <1>2 DEF PublishNotify, NotifyEmptyCV
<1>3. ASSUME NEW s \in Subs, Subscribe(s) PROVE TypeOK'
  BY <1>3 DEF Subscribe
<1>4. ASSUME NEW s \in Subs, HandleLock(s) \/ Unsubscribe(s) PROVE TypeOK'
  BY <1>4, ZenonT(60) DEF HandleLock, Unsubscribe
<1>5. CASE ThreadTop
  BY <1>5 DEF ThreadTop, Deletable, SwapBuffers, BlockOnEmpty, StoreHasSubscription
<1>6. CASE ThreadWoken
  BY <1>6 DEF ThreadWoken, SwapBuffers, BlockOnEmpty
<1>7. CASE ThreadNotifyFull
  BY <1>7 DEF ThreadNotifyFull, NotifyFullCV
<1>8. ASSUME NEW s \in Subs, Observe(s) PROVE TypeOK'
  <2>1. observed[s] \o readBuffer \in Seq(Nat)
    OBVIOUS
  <2>2. \A n \in 0 .. (Len(readBuffer) - 1) :
          observed[s] \o SubSeq(readBuffer, 1, n) \in Seq(Nat)
    OBVIOUS
  <2>3. observed' \in [Subs -> Seq(Nat)]
    BY <1>8, <2>1, <2>2, ZenonT(60) DEF Observe
  <2> QED
    BY <1>8, <2>3 DEF Observe
<1>9. CASE ThreadClear
  BY <1>9 DEF ThreadClear, ClearReadBuffer
<1>10. CASE OwnerRelease \/ DestroyBegin \/ DestroyNotify \/ DestroyJoin
  BY <1>10 DEF OwnerRelease, DestroyBegin, DestroyNotify, DestroyJoin, NotifyEmptyCV
<1>11. CASE Spurious
  BY <1>11 DEF Spurious, SpuriousWakeup
<1>12. CASE Terminated \/ UNCHANGED vars
  BY <1>12 DEF Terminated, vars
<1> QED
  BY <1>1, <1>2, <1>3, <1>4, <1>5, <1>6, <1>7, <1>8, <1>9, <1>10, <1>11, <1>12
     DEF Next, ThreadStep

\* TraceBus is type correct: in particular neither buffer outgrows
\* bufferCapacity_, because publish() blocks on a full one.
THEOREM TypeCorrect == Spec => []TypeOK
<1>1. Init => TypeOK
  <2>1. <<>> \in Seq(Nat) /\ Len(<<>>) = 0
    OBVIOUS
  <2>2. Init => observed \in [Subs -> Seq(Nat)]
    BY <2>1 DEF Init
  <2>3. Init => /\ writeBuffer \in Seq(Nat) /\ Len(writeBuffer) <= Capacity
                /\ readBuffer \in Seq(Nat) /\ Len(readBuffer) <= Capacity
    BY <2>1, CapacityAssumption DEF CapacityAssumption, Init
  <2>4. Init => hasThrownException \in [Subs -> BOOLEAN]
    BY DEF Init
  <2>5. Init => /\ publisherPc \in [Publishers -> {"idle", "waiting", "woken", "notify"}]
                /\ handle \in [Subs -> {"none", "held", "locked", "dropped"}]
                /\ unsubscribe \in [Subs -> Nat]
                /\ subscribedAt \in [Subs -> Nat]
    BY DEF Init
  <2>6. Init => sequenceNumber \in Nat \ {0} /\ lastObserved \in Nat
    BY DEF Init
  <2>7. Init => /\ subscriptions \subseteq Subs /\ toVisit \subseteq Subs
                /\ freed \subseteq Subs
    BY DEF Init
  <2>8. Init => /\ done \in BOOLEAN /\ hasSubscription \in BOOLEAN
                /\ threadDone \in BOOLEAN /\ ownerRef \in BOOLEAN
    BY DEF Init
  <2>9. Init => /\ threadPc \in {"top", "waiting", "woken", "notifyFull", "observe", "exited"}
                /\ dtorPc \in {"alive", "notify", "join", "destroyed"}
    BY DEF Init
  <2> QED
    BY <2>2, <2>3, <2>4, <2>5, <2>6, <2>7, <2>8, <2>9, Zenon DEF TypeOK
<1> QED
  BY <1>1, TypePreserved, PTL DEF Spec
-----------------------------------------------------------------------------
(* The inductive invariant *)

\* Who may be where: the destructor runs only without strong references and
\* publishers, and the thread's batch is in use only between swap and clear.
Control ==
  /\ dtorPc # "alive" => ~StrongRefs
  /\ ~ownerRef => \A p \in Publishers : publisherPc[p] = "idle"
  /\ done => dtorPc # "alive"
  /\ dtorPc = "destroyed" => threadPc = "exited"
  /\ threadDone => done /\ writeBuffer = <<>>
  /\ threadPc = "exited" => threadDone
  /\ threadPc \notin {"notifyFull", "observe"} => readBuffer = <<>> /\ toVisit = {}

\* The life of a Subscription: allocated, in the list, possibly asked to go,
\* deleted.
Lifecycle ==
  /\ toVisit \subseteq subscriptions
  /\ subscriptions \intersect freed = {}
  /\ \A s \in Subs :
       /\ handle[s] = "none" => s \notin subscriptions /\ s \notin freed /\ observed[s] = <<>>
       /\ handle[s] \in {"held", "locked"} /\ dtorPc # "destroyed" => s \in subscriptions
       /\ unsubscribe[s] # 0 => handle[s] = "dropped"
       /\ unsubscribe[s] <= sequenceNumber
       /\ handle[s] # "none" => s \in subscriptions \/ s \in freed
       /\ s \in freed => unsubscribe[s] # 0 \/ dtorPc = "destroyed"

\* The buffers hold the latest events, numbered consecutively.
Numbering ==
  /\ \A i \in 1 .. Len(writeBuffer) :
       writeBuffer[i] + Len(writeBuffer) + 1 = sequenceNumber + i
  /\ \A i \in 1 .. Len(readBuffer) :
       readBuffer[i] + Len(readBuffer) + Len(writeBuffer) + 1 = sequenceNumber + i

\* The number of events that are buffered but not yet shown to s.
Backlog(s) == Len(writeBuffer) + (IF s \in toVisit THEN Len(readBuffer) ELSE 0)

\* What a subscriber in the list has seen ends where its backlog begins.
Position ==
  \A s \in Subs :
    s \in subscriptions /\ ~hasThrownException[s] /\ observed[s] # <<>> =>
      observed[s][Len(observed[s])] + Backlog(s) + 1 = sequenceNumber

\* At the points where threadLoop may delete, everything up to lastObserved has
\* left the write buffer.
Progress ==
  /\ lastObserved <= sequenceNumber
  /\ threadPc \notin {"waiting", "woken"} => lastObserved + Len(writeBuffer) <= sequenceNumber

\* A subscriber in the list has seen all but its backlog; one that was deleted
\* has seen everything it was promised.
Delivery ==
  \A s \in Subs : ~hasThrownException[s] =>
    /\ s \in subscriptions =>
         \A e \in Nat : subscribedAt[s] <= e /\ e + Backlog(s) < sequenceNumber => e \in Seen(s)
    /\ s \in freed =>
         \A e \in Nat : subscribedAt[s] <= e /\ e < sequenceNumber
                        /\ (unsubscribe[s] # 0 => e < unsubscribe[s]) => e \in Seen(s)

\* No wakeup is lost: see NoLostWakeup.
THEOREM WakeupsArrive == Spec => []NoLostWakeup
<1>1. Init => NoLostWakeup
  BY DEF Init, NoLostWakeup, WaitPredicate
<1>2. TypeOK /\ NoLostWakeup /\ [Next]_vars => NoLostWakeup'
  <2> SUFFICES ASSUME TypeOK, NoLostWakeup, [Next]_vars PROVE NoLostWakeup'
    OBVIOUS
  <2> USE CapacityAssumption
      DEF CapacityAssumption, TypeOK, NoLostWakeup, WaitPredicate,
          stateVars, subVars, threadVars, ownVars, histVars
  <2>1. ASSUME NEW p \in Publishers, Publish(p) \/ PublishWoken(p) PROVE NoLostWakeup'
    <3>1. CASE BlockOnFull(p) /\ Len(writeBuffer) = Capacity
      BY <2>1, <3>1 DEF Publish, PublishWoken, BlockOnFull
    <3>2. CASE Append1(p) /\ Len(writeBuffer) # Capacity
      <4>1. \A q \in Publishers : publisherPc'[q] = "waiting" => publisherPc[q] = "waiting"
        BY <3>2 DEF Append1
      <4>2. (\E q \in Publishers : publisherPc'[q] = "waiting") => threadPc' = "notifyFull"
        BY <2>1, <3>2, <4>1 DEF Publish, PublishWoken
      <4>3. CASE writeBuffer = <<>>
        BY <2>1, <3>2, <4>2, <4>3 DEF Append1
      <4>4. CASE writeBuffer # <<>>
        <5>1. \A q \in Publishers : publisherPc[q] = "notify" => publisherPc'[q] = "notify"
          BY <2>1, <3>2 DEF Publish, PublishWoken, Append1
        <5> QED
          BY <2>1, <3>2, <4>2, <4>4, <5>1 DEF Publish, PublishWoken
      <4> QED
        BY <4>3, <4>4
    <3> QED
      BY <2>1, <3>1, <3>2 DEF Publish, PublishWoken, EnterPublish
  <2>2. ASSUME NEW p \in Publishers, PublishNotify(p) PROVE NoLostWakeup'
    BY <2>2 DEF PublishNotify, NotifyEmptyCV
  <2>3. ASSUME NEW s \in Subs, Subscribe(s) \/ HandleLock(s) \/ Unsubscribe(s)
        PROVE NoLostWakeup'
    BY <2>3 DEF Subscribe, HandleLock, Unsubscribe
  <2>4. CASE ThreadTop
    BY <2>4 DEF ThreadTop, SwapBuffers, BlockOnEmpty
  <2>5. CASE ThreadWoken
    BY <2>5 DEF ThreadWoken, SwapBuffers, BlockOnEmpty
  <2>6. CASE ThreadNotifyFull
    BY <2>6 DEF ThreadNotifyFull, NotifyFullCV
  <2>7. CASE ThreadClear \/ \E s \in Subs : Observe(s)
    BY <2>7 DEF ThreadClear, Observe
  <2>8. CASE OwnerRelease \/ DestroyBegin \/ DestroyNotify \/ DestroyJoin
    BY <2>8 DEF OwnerRelease, DestroyBegin, DestroyNotify, DestroyJoin, NotifyEmptyCV
  <2>9. CASE Spurious
    BY <2>9 DEF Spurious, SpuriousWakeup
  <2>10. CASE Terminated \/ UNCHANGED vars
    BY <2>10 DEF Terminated, vars
  <2> QED
    BY <2>1, <2>2, <2>3, <2>4, <2>5, <2>6, <2>7, <2>8, <2>9, <2>10 DEF Next, ThreadStep
<1> QED
  BY <1>1, <1>2, TypeCorrect, PTL DEF Spec

LEMMA ControlCorrect == Spec => []Control
<1>1. Init => Control
  BY DEF Init, Control, StrongRefs
<1>2. TypeOK /\ Control /\ [Next]_vars => Control'
  <2> SUFFICES ASSUME TypeOK, Control, [Next]_vars PROVE Control'
    OBVIOUS
  <2> USE CapacityAssumption
      DEF CapacityAssumption, TypeOK, Control, StrongRefs,
          stateVars, subVars, threadVars, ownVars, histVars
  <2>1. ASSUME NEW p \in Publishers, Publish(p) \/ PublishWoken(p) PROVE Control'
    BY <2>1 DEF Publish, PublishWoken, EnterPublish, BlockOnFull, Append1
  <2>2. ASSUME NEW p \in Publishers, PublishNotify(p) PROVE Control'
    BY <2>2 DEF PublishNotify, NotifyEmptyCV
  <2>3. ASSUME NEW s \in Subs, Subscribe(s) \/ HandleLock(s) \/ Unsubscribe(s)
        PROVE Control'
    BY <2>3, SMTT(30) DEF Subscribe, HandleLock, Unsubscribe
  <2>4. CASE ThreadTop
    BY <2>4 DEF ThreadTop, SwapBuffers, BlockOnEmpty
  <2>5. CASE ThreadWoken
    BY <2>5 DEF ThreadWoken, SwapBuffers, BlockOnEmpty
  <2>6. CASE ThreadNotifyFull
    BY <2>6 DEF ThreadNotifyFull, NotifyFullCV
  <2>7. CASE ThreadClear \/ \E s \in Subs : Observe(s)
    <3>1. CASE ThreadClear
      BY <3>1 DEF ThreadClear, ClearReadBuffer
    <3>2. ASSUME NEW s \in Subs, Observe(s) PROVE Control'
      BY <3>2 DEF Observe
    <3> QED
      BY <2>7, <3>1, <3>2
  <2>8. CASE OwnerRelease \/ DestroyBegin \/ DestroyNotify \/ DestroyJoin
    BY <2>8 DEF OwnerRelease, DestroyBegin, DestroyNotify, DestroyJoin, NotifyEmptyCV
  <2>9. CASE Spurious
    BY <2>9 DEF Spurious, SpuriousWakeup
  <2>10. CASE Terminated \/ UNCHANGED vars
    BY <2>10 DEF Terminated, vars
  <2> QED
    BY <2>1, <2>2, <2>3, <2>4, <2>5, <2>6, <2>7, <2>8, <2>9, <2>10 DEF Next, ThreadStep
<1> QED
  BY <1>1, <1>2, TypeCorrect, PTL DEF Spec

LEMMA LifecycleCorrect == Spec => []Lifecycle
<1>1. Init => Lifecycle
  BY DEF Init, Lifecycle
<1>2. TypeOK /\ Control /\ Lifecycle /\ [Next]_vars => Lifecycle'
  <2> SUFFICES ASSUME TypeOK, Control, Lifecycle, [Next]_vars PROVE Lifecycle'
    OBVIOUS
  <2> USE DEF TypeOK, Control, StrongRefs, Lifecycle,
          stateVars, subVars, threadVars, ownVars, histVars
  <2>1. ASSUME NEW p \in Publishers, Publish(p) \/ PublishWoken(p) PROVE Lifecycle'
    BY <2>1, SMTT(30) DEF Publish, PublishWoken, EnterPublish, BlockOnFull, Append1
  <2>2. ASSUME NEW p \in Publishers, PublishNotify(p) PROVE Lifecycle'
    BY <2>2 DEF PublishNotify
  <2>3. ASSUME NEW s \in Subs, Subscribe(s) \/ HandleLock(s) \/ Unsubscribe(s)
        PROVE Lifecycle'
    BY <2>3 DEF Subscribe, HandleLock, Unsubscribe
  <2>4. CASE ThreadTop
    BY <2>4 DEF ThreadTop, SwapBuffers, BlockOnEmpty, Deletable
  <2>5. CASE ThreadWoken
    BY <2>5 DEF ThreadWoken, SwapBuffers, BlockOnEmpty
  <2>6. CASE ThreadNotifyFull
    BY <2>6 DEF ThreadNotifyFull
  <2>7. CASE ThreadClear \/ \E s \in Subs : Observe(s)
    BY <2>7, ZenonT(60) DEF ThreadClear, Observe
  <2>8. CASE OwnerRelease \/ DestroyBegin \/ DestroyNotify \/ DestroyJoin
    BY <2>8 DEF OwnerRelease, DestroyBegin, DestroyNotify, DestroyJoin
  <2>9. CASE Spurious
    BY <2>9 DEF Spurious
  <2>10. CASE Terminated \/ UNCHANGED vars
    BY <2>10 DEF Terminated, vars
  <2> QED
    BY <2>1, <2>2, <2>3, <2>4, <2>5, <2>6, <2>7, <2>8, <2>9, <2>10 DEF Next, ThreadStep
<1> QED
  BY <1>1, <1>2, TypeCorrect, ControlCorrect, PTL DEF Spec

\* No Subscription is used after it was deleted: see NoUseAfterFree.
THEOREM MemorySafe == Spec => []NoUseAfterFree
<1>1. TypeOK /\ Lifecycle => NoUseAfterFree
  BY DEF TypeOK, Lifecycle, NoUseAfterFree
<1> QED
  BY <1>1, TypeCorrect, LifecycleCorrect, PTL

-----------------------------------------------------------------------------
(* Order and delivery *)

LEMMA ConcatFacts ==
  ASSUME NEW a \in Seq(Nat), NEW b \in Seq(Nat)
  PROVE  /\ a \o b \in Seq(Nat)
         /\ Len(a \o b) = Len(a) + Len(b)
         /\ \A i \in 1 .. Len(a) : (a \o b)[i] = a[i]
         /\ \A i \in 1 .. Len(b) : (a \o b)[Len(a) + i] = b[i]
OBVIOUS

LEMMA PrefixFacts ==
  ASSUME NEW b \in Seq(Nat), NEW n \in 0 .. (Len(b) - 1)
  PROVE  /\ SubSeq(b, 1, n) \in Seq(Nat)
         /\ Len(SubSeq(b, 1, n)) = n
         /\ \A i \in 1 .. n : SubSeq(b, 1, n)[i] = b[i]
OBVIOUS

LEMMA AppendFacts ==
  ASSUME NEW a \in Seq(Nat), NEW e \in Nat
  PROVE  /\ Append(a, e) \in Seq(Nat)
         /\ Len(Append(a, e)) = Len(a) + 1
         /\ \A i \in 1 .. Len(a) : Append(a, e)[i] = a[i]
         /\ Append(a, e)[Len(a) + 1] = e
OBVIOUS

LEMMA NumberingCorrect == Spec => []Numbering
<1>1. Init => Numbering
  BY DEF Init, Numbering
<1>2. TypeOK /\ Control /\ Numbering /\ [Next]_vars => Numbering'
  <2> SUFFICES ASSUME TypeOK, Control, Numbering, [Next]_vars PROVE Numbering'
    OBVIOUS
  <2> USE DEF TypeOK, Control, Numbering, stateVars, subVars, threadVars, ownVars, histVars
  <2>1. ASSUME NEW p \in Publishers, Publish(p) \/ PublishWoken(p) PROVE Numbering'
    <3>1. CASE BlockOnFull(p)
      BY <2>1, <3>1 DEF Publish, PublishWoken, BlockOnFull
    <3>2. CASE Append1(p)
      <4>1. /\ Len(writeBuffer') = Len(writeBuffer) + 1
            /\ \A i \in 1 .. Len(writeBuffer) : writeBuffer'[i] = writeBuffer[i]
            /\ writeBuffer'[Len(writeBuffer) + 1] = sequenceNumber
        BY <3>2, AppendFacts DEF Append1
      <4>2. sequenceNumber' = sequenceNumber + 1 /\ readBuffer' = readBuffer
        BY <2>1, <3>2 DEF Publish, PublishWoken, Append1
      <4>3. ASSUME NEW i \in 1 .. Len(writeBuffer')
            PROVE  writeBuffer'[i] + Len(writeBuffer') + 1 = sequenceNumber' + i
        <5>1. CASE i = Len(writeBuffer) + 1
          BY <4>1, <4>2, <5>1
        <5>2. CASE i \in 1 .. Len(writeBuffer)
          <6>1. writeBuffer[i] \in Nat /\ Len(writeBuffer) \in Nat
            BY <5>2
          <6>2. writeBuffer[i] + Len(writeBuffer) + 1 = sequenceNumber + i
            BY <5>2
          <6> QED
            BY <4>1, <4>2, <5>2, <6>1, <6>2
        <5> QED
          BY <4>1, <5>1, <5>2
      <4>4. ASSUME NEW i \in 1 .. Len(readBuffer')
            PROVE  readBuffer'[i] + Len(readBuffer') + Len(writeBuffer') + 1 = sequenceNumber' + i
        <5>1. readBuffer[i] \in Nat /\ Len(writeBuffer) \in Nat /\ Len(readBuffer) \in Nat
          BY <4>2
        <5>2. readBuffer[i] + Len(readBuffer) + Len(writeBuffer) + 1 = sequenceNumber + i
          BY <4>2
        <5>3. /\ Len(writeBuffer') = Len(writeBuffer) + 1
              /\ sequenceNumber' = sequenceNumber + 1
              /\ sequenceNumber \in Nat /\ i \in Nat
          BY <4>1, <4>2
        <5> HIDE DEF TypeOK, Control, Numbering
        <5> QED
          BY <4>2, <5>1, <5>2, <5>3
      <4> QED
        BY <4>3, <4>4
    <3> QED
      BY <2>1, <3>1, <3>2 DEF Publish, PublishWoken, EnterPublish
  <2>2. CASE ThreadTop
    BY <2>2 DEF ThreadTop, SwapBuffers, BlockOnEmpty
  <2>3. CASE ThreadWoken
    BY <2>3 DEF ThreadWoken, SwapBuffers, BlockOnEmpty
  <2>4. CASE ThreadClear
    BY <2>4 DEF ThreadClear, ClearReadBuffer
  <2>5. CASE UNCHANGED <<writeBuffer, readBuffer, sequenceNumber>>
    BY <2>5
  <2> QED
    BY <2>1, <2>2, <2>3, <2>4, <2>5
       DEF Next, ThreadStep, PublishNotify, Subscribe, HandleLock, Unsubscribe,
           ThreadNotifyFull, Observe, OwnerRelease, DestroyBegin, DestroyNotify,
           DestroyJoin, Spurious, Terminated, vars
<1> QED
  BY <1>1, <1>2, TypeCorrect, ControlCorrect, PTL DEF Spec

LEMMA ProgressCorrect == Spec => []Progress
<1>1. Init => Progress
  BY DEF Init, Progress
<1>2. TypeOK /\ Control /\ Progress /\ [Next]_vars => Progress'
  <2> SUFFICES ASSUME TypeOK, Control, Progress, [Next]_vars PROVE Progress'
    OBVIOUS
  <2> USE DEF TypeOK, Control, Progress, stateVars, subVars, threadVars, ownVars, histVars
  <2>1. ASSUME NEW p \in Publishers, Publish(p) \/ PublishWoken(p) PROVE Progress'
    <3>1. CASE BlockOnFull(p)
      BY <2>1, <3>1 DEF Publish, PublishWoken, BlockOnFull
    <3>2. CASE Append1(p)
      BY <2>1, <3>2, AppendFacts DEF Publish, PublishWoken, Append1
    <3> QED
      BY <2>1, <3>1, <3>2 DEF Publish, PublishWoken, EnterPublish
  <2>2. CASE ThreadTop
    BY <2>2 DEF ThreadTop, SwapBuffers, BlockOnEmpty
  <2>3. CASE ThreadWoken
    BY <2>3 DEF ThreadWoken, SwapBuffers, BlockOnEmpty
  <2>4. CASE UNCHANGED <<writeBuffer, lastObserved, sequenceNumber>>
             /\ (threadPc' \in {"waiting", "woken"} \/ threadPc \notin {"waiting", "woken"})
    BY <2>4
  <2> QED
    BY <2>1, <2>2, <2>3, <2>4
       DEF Next, ThreadStep, PublishNotify, Subscribe, HandleLock, Unsubscribe,
           ThreadNotifyFull, Observe, ThreadClear, OwnerRelease, DestroyBegin,
           DestroyNotify, DestroyJoin, Spurious, SpuriousWakeup, NotifyEmptyCV,
           Terminated, vars
<1> QED
  BY <1>1, <1>2, TypeCorrect, ControlCorrect, PTL DEF Spec

\* A batch appended to what s has observed: the new sequence and the set of
\* events in it.
LEMMA ObserveFacts ==
  ASSUME TypeOK, NEW s \in Subs, NEW b \in Seq(Nat),
         observed' = [observed EXCEPT ![s] = @ \o b]
  PROVE  /\ observed'[s] = observed[s] \o b
         /\ Seen(s)' = Seen(s) \union {b[i] : i \in DOMAIN b}
         /\ \A t \in Subs \ {s} : observed'[t] = observed[t] /\ Seen(t)' = Seen(t)
<1>1. /\ observed'[s] = observed[s] \o b
      /\ \A t \in Subs \ {s} : observed'[t] = observed[t]
  BY DEF TypeOK
<1>2. observed[s] \in Seq(Nat)
  BY DEF TypeOK
<1>3. /\ DOMAIN observed[s] = 1 .. Len(observed[s])
      /\ DOMAIN b = 1 .. Len(b)
      /\ DOMAIN observed'[s] = 1 .. (Len(observed[s]) + Len(b))
  BY <1>1, <1>2, ConcatFacts
<1>4. Seen(s)' \subseteq Seen(s) \union {b[i] : i \in DOMAIN b}
  <2> SUFFICES ASSUME NEW i \in 1 .. (Len(observed[s]) + Len(b))
               PROVE  observed'[s][i] \in Seen(s) \union {b[j] : j \in DOMAIN b}
    BY <1>3 DEF Seen
  <2>1. CASE i \in 1 .. Len(observed[s])
    <3>1. observed'[s][i] = observed[s][i]
      BY <1>1, <1>2, <2>1, ConcatFacts
    <3> QED
      BY <1>3, <2>1, <3>1 DEF Seen
  <2>2. CASE i \notin 1 .. Len(observed[s])
    <3>1. PICK j \in 1 .. Len(b) : i = Len(observed[s]) + j
      <4>1. Len(observed[s]) \in Nat /\ Len(b) \in Nat
        BY <1>2
      <4>2. i - Len(observed[s]) \in 1 .. Len(b)
        BY <2>2, <4>1
      <4>3. i = Len(observed[s]) + (i - Len(observed[s]))
        BY <4>1
      <4> QED
        BY <4>2, <4>3
    <3>2. observed'[s][i] = b[j]
      BY <1>1, <1>2, <3>1, ConcatFacts
    <3> QED
      BY <1>3, <3>2
  <2> QED
    BY <2>1, <2>2
<1>5. Seen(s) \subseteq Seen(s)'
  BY <1>1, <1>2, <1>3, ConcatFacts DEF Seen
<1>6. {b[i] : i \in DOMAIN b} \subseteq Seen(s)'
  <2> SUFFICES ASSUME NEW i \in 1 .. Len(b) PROVE b[i] \in Seen(s)'
    BY <1>3
  <2>1. observed'[s][Len(observed[s]) + i] = b[i] /\ Len(observed[s]) + i \in DOMAIN observed'[s]
    BY <1>1, <1>2, <1>3, ConcatFacts
  <2> QED
    BY <2>1 DEF Seen
<1>7. \A t \in Subs \ {s} : Seen(t)' = Seen(t)
  BY <1>1 DEF Seen
<1> QED
  BY <1>1, <1>4, <1>5, <1>6, <1>7

\* Only observing moves a subscriber along the stream of events: no other step
\* changes the position sequenceNumber - Backlog(t) of a subscriber t.
LEMMA PositionKept ==
  ASSUME TypeOK, Control, [Next]_vars, NEW t \in Subs, t \in subscriptions', ~Observe(t)
  PROVE  sequenceNumber' + Backlog(t) = sequenceNumber + Backlog(t)'
<1>t. /\ Len(writeBuffer) \in Nat /\ Len(readBuffer) \in Nat /\ sequenceNumber \in Nat
      /\ writeBuffer \in Seq(Nat) /\ Len(<<>>) = 0
  BY DEF TypeOK
<1> USE DEF stateVars, subVars, threadVars, ownVars, histVars
<1>1. ASSUME NEW p \in Publishers, Publish(p) \/ PublishWoken(p)
      PROVE  sequenceNumber' + Backlog(t) = sequenceNumber + Backlog(t)'
  <2>1. readBuffer' = readBuffer /\ toVisit' = toVisit
    BY <1>1 DEF Publish, PublishWoken
  <2>2. CASE BlockOnFull(p)
    BY <1>t, <2>1, <2>2 DEF BlockOnFull, Backlog
  <2>3. CASE Append1(p)
    <3>1. Len(writeBuffer') = Len(writeBuffer) + 1 /\ sequenceNumber' = sequenceNumber + 1
      BY <1>t, <2>3, AppendFacts DEF Append1
    <3>2. CASE t \in toVisit
      BY <1>t, <2>1, <3>1, <3>2 DEF Backlog
    <3>3. CASE t \notin toVisit
      BY <1>t, <2>1, <3>1, <3>3 DEF Backlog
    <3> QED
      BY <3>2, <3>3
  <2> QED
    BY <1>1, <2>2, <2>3 DEF Publish, PublishWoken, EnterPublish
<1>2. CASE ThreadTop \/ ThreadWoken
  <2>1. toVisit = {} /\ readBuffer = <<>> /\ sequenceNumber' = sequenceNumber
    BY <1>2 DEF ThreadTop, ThreadWoken, Control
  <2>2. Backlog(t) = Len(writeBuffer)
    BY <1>t, <2>1 DEF Backlog
  <2>3. CASE BlockOnEmpty
    BY <1>t, <2>1, <2>2, <2>3 DEF BlockOnEmpty, Backlog
  <2>4. CASE SwapBuffers(subscriptions')
    BY <1>t, <2>1, <2>2, <2>4 DEF SwapBuffers, Backlog
  <2> QED
    BY <1>2, <2>3, <2>4 DEF ThreadTop, ThreadWoken
<1>3. CASE ThreadClear
  BY <1>t, <1>3 DEF ThreadClear, Backlog
<1>4. ASSUME NEW s \in Subs \ {t}, Observe(s)
      PROVE  sequenceNumber' + Backlog(t) = sequenceNumber + Backlog(t)'
  BY <1>t, <1>4 DEF Observe, Backlog
<1>5. CASE UNCHANGED <<writeBuffer, readBuffer, toVisit, sequenceNumber>>
  BY <1>t, <1>5 DEF Backlog
<1> QED
  BY <1>1, <1>2, <1>3, <1>4, <1>5
     DEF Next, ThreadStep, PublishNotify, Subscribe, HandleLock, Unsubscribe,
         ThreadNotifyFull, OwnerRelease, DestroyBegin, DestroyNotify,
         DestroyJoin, Spurious, Terminated, vars

Consecutive(q) == \A i \in 1 .. (Len(q) - 1) : q[i + 1] = q[i] + 1

LEMMA ConsecutiveConcat ==
  ASSUME NEW a \in Seq(Nat), NEW b \in Seq(Nat), Consecutive(a), Consecutive(b),
         a # <<>> /\ b # <<>> => b[1] = a[Len(a)] + 1
  PROVE  Consecutive(a \o b)
<1> DEFINE c == a \o b
<1>1. /\ Len(a) \in Nat /\ Len(b) \in Nat /\ Len(c) = Len(a) + Len(b)
      /\ \A i \in 1 .. Len(a) : c[i] = a[i]
      /\ \A i \in 1 .. Len(b) : c[Len(a) + i] = b[i]
  BY ConcatFacts
<1> SUFFICES ASSUME NEW i \in 1 .. (Len(c) - 1) PROVE c[i + 1] = c[i] + 1
  BY DEF Consecutive
<1> HIDE DEF c
<1>2. CASE i < Len(a)
  <2>1. i \in 1 .. (Len(a) - 1) /\ i \in 1 .. Len(a) /\ i + 1 \in 1 .. Len(a)
    BY <1>1, <1>2
  <2> QED
    BY <1>1, <2>1 DEF Consecutive
<1>3. CASE i = Len(a)
  <2>1. c[i] = a[Len(a)] /\ c[i + 1] = b[1] /\ a # <<>> /\ b # <<>>
    BY <1>1, <1>3
  <2> QED
    BY <2>1
<1>4. CASE i > Len(a)
  <2>1. PICK j \in 1 .. (Len(b) - 1) : i = Len(a) + j
    <3>1. i - Len(a) \in 1 .. (Len(b) - 1) /\ i = Len(a) + (i - Len(a))
      BY <1>1, <1>4
    <3> QED
      BY <3>1
  <2>2. c[i] = b[j] /\ c[i + 1] = b[j + 1]
    <3>1. j + 1 \in 1 .. Len(b) /\ i + 1 = Len(a) + (j + 1)
      BY <1>1, <2>1
    <3> QED
      BY <1>1, <2>1, <3>1
  <2> QED
    BY <2>2 DEF Consecutive
<1> QED
  BY <1>1, <1>2, <1>3, <1>4

\* The batch that is shown to s: consecutive, and it starts where s stands.
LEMMA BatchFits ==
  ASSUME TypeOK, Lifecycle, Numbering, Position, NEW s \in toVisit, ~hasThrownException[s]
  PROVE  /\ s \in Subs /\ s \in subscriptions
         /\ Consecutive(readBuffer)
         /\ observed[s] # <<>> /\ readBuffer # <<>> =>
              readBuffer[1] = observed[s][Len(observed[s])] + 1
<1>1. s \in Subs /\ s \in subscriptions
  BY DEF TypeOK, Lifecycle
<1>0. Len(writeBuffer) \in Nat /\ Len(readBuffer) \in Nat /\ sequenceNumber \in Nat
  BY DEF TypeOK
<1>2. /\ Len(readBuffer) \in Nat /\ readBuffer \in Seq(Nat) /\ observed[s] \in Seq(Nat)
      /\ \A i \in 1 .. Len(readBuffer) : readBuffer[i] \in Nat
  BY <1>1 DEF TypeOK
<1>3. Consecutive(readBuffer)
  <2> SUFFICES ASSUME NEW i \in 1 .. (Len(readBuffer) - 1)
               PROVE  readBuffer[i + 1] = readBuffer[i] + 1
    BY DEF Consecutive
  <2>1. i \in 1 .. Len(readBuffer) /\ i + 1 \in 1 .. Len(readBuffer)
    BY <1>2
  <2>2. /\ readBuffer[i] + Len(readBuffer) + Len(writeBuffer) + 1 = sequenceNumber + i
        /\ readBuffer[i + 1] + Len(readBuffer) + Len(writeBuffer) + 1 = sequenceNumber + (i + 1)
    BY <2>1 DEF Numbering
  <2>3. readBuffer[i] \in Nat /\ readBuffer[i + 1] \in Nat
    BY <1>2, <2>1
  <2> QED
    BY <1>0, <2>2, <2>3
<1>4. ASSUME observed[s] # <<>>, readBuffer # <<>>
      PROVE  readBuffer[1] = observed[s][Len(observed[s])] + 1
  <2>1. 1 \in 1 .. Len(readBuffer) /\ Len(observed[s]) \in 1 .. Len(observed[s])
    BY <1>2, <1>4
  <2>2. readBuffer[1] + Len(readBuffer) + Len(writeBuffer) + 1 = sequenceNumber + 1
    BY <2>1 DEF Numbering
  <2>3. observed[s][Len(observed[s])] + (Len(writeBuffer) + Len(readBuffer)) + 1 = sequenceNumber
    BY <1>1, <1>4 DEF Position, Backlog
  <2>4. observed[s][Len(observed[s])] \in Nat /\ readBuffer[1] \in Nat
    BY <1>2, <2>1
  <2> QED
    <3> DEFINE last == observed[s][Len(observed[s])]
               first == readBuffer[1]
    <3>1. /\ first + Len(readBuffer) + Len(writeBuffer) + 1 = sequenceNumber + 1
          /\ last + (Len(writeBuffer) + Len(readBuffer)) + 1 = sequenceNumber
          /\ last \in Nat /\ first \in Nat
      BY <2>2, <2>3, <2>4
    <3> HIDE DEF last, first
    <3>2. first = last + 1
      BY <1>0, <3>1
    <3> QED
      BY <3>2 DEF last, first
<1> QED
  BY <1>1, <1>3, <1>4

LEMMA PrefixConsecutive ==
  ASSUME NEW b \in Seq(Nat), Consecutive(b), NEW n \in 0 .. (Len(b) - 1)
  PROVE  /\ Consecutive(SubSeq(b, 1, n))
         /\ SubSeq(b, 1, n) # <<>> => b # <<>> /\ SubSeq(b, 1, n)[1] = b[1]
<1>1. /\ SubSeq(b, 1, n) \in Seq(Nat) /\ Len(SubSeq(b, 1, n)) = n /\ Len(b) \in Nat
      /\ \A i \in 1 .. n : SubSeq(b, 1, n)[i] = b[i]
  BY PrefixFacts
<1>2. ASSUME NEW i \in 1 .. (n - 1) PROVE SubSeq(b, 1, n)[i + 1] = SubSeq(b, 1, n)[i] + 1
  <2>1. i \in 1 .. n /\ i + 1 \in 1 .. n /\ i \in 1 .. (Len(b) - 1)
    BY <1>1
  <2> QED
    BY <1>1, <2>1 DEF Consecutive
<1> QED
  BY <1>1, <1>2 DEF Consecutive

\* A step in which t is not shown a batch leaves what it saw alone.
LEMMA NotObserving ==
  ASSUME TypeOK, [Next]_vars, NEW t \in Subs, ~Observe(t)
  PROVE  /\ observed'[t] = observed[t] /\ Seen(t)' = Seen(t)
         /\ hasThrownException'[t] = hasThrownException[t]
         /\ t \in subscriptions' => t \in subscriptions \/ Subscribe(t)
<1> USE DEF stateVars, subVars, threadVars, ownVars, histVars
<1>1. observed'[t] = observed[t] /\ hasThrownException'[t] = hasThrownException[t]
  <2>1. ASSUME NEW s \in Subs \ {t}, Observe(s)
        PROVE  observed'[t] = observed[t] /\ hasThrownException'[t] = hasThrownException[t]
    BY <2>1 DEF Observe, TypeOK
  <2>2. CASE UNCHANGED <<observed, hasThrownException>>
    BY <2>2
  <2> QED
    BY <2>1, <2>2
       DEF Next, ThreadStep, Publish, PublishWoken, PublishNotify, Subscribe, HandleLock,
           Unsubscribe, ThreadTop, ThreadWoken, ThreadNotifyFull, ThreadClear,
           OwnerRelease, DestroyBegin, DestroyNotify, DestroyJoin, Spurious, Terminated, vars
<1>2. t \in subscriptions' => t \in subscriptions \/ Subscribe(t)
  <2>1. ASSUME NEW s \in Subs, Subscribe(s)
        PROVE  t \in subscriptions' => t \in subscriptions \/ Subscribe(t)
    BY <2>1 DEF Subscribe
  <2>2. CASE subscriptions' \subseteq subscriptions
    BY <2>2
  <2> QED
    BY <2>1, <2>2
       DEF Next, ThreadStep, Publish, PublishWoken, PublishNotify, HandleLock,
           Unsubscribe, ThreadTop, ThreadWoken, ThreadNotifyFull, ThreadClear, Observe,
           OwnerRelease, DestroyBegin, DestroyNotify, DestroyJoin, Spurious, Terminated, vars
<1> QED
  BY <1>1, <1>2 DEF Seen

\* "Events are always observed in the order in which they're published":
\* see EventsInOrder.  It is inductive together with Position, which says where
\* in the stream of events each subscriber stands.
THEOREM ObservedInOrder == Spec => [](EventsInOrder /\ Position)
<1>1. Init => EventsInOrder /\ Position
  <2>1. Init => \A s \in Subs : observed[s] = <<>> /\ s \notin subscriptions
    BY DEF Init
  <2> QED
    BY <2>1 DEF EventsInOrder, Position
<1>2. TypeOK /\ Control /\ Lifecycle /\ Numbering /\ EventsInOrder /\ Position /\ [Next]_vars
      => EventsInOrder' /\ Position'
  <2> SUFFICES ASSUME TypeOK, Control, Lifecycle, Numbering, EventsInOrder, Position,
                      [Next]_vars
               PROVE  EventsInOrder' /\ Position'
    OBVIOUS
  <2>t. /\ Len(writeBuffer) \in Nat /\ Len(readBuffer) \in Nat /\ sequenceNumber \in Nat
        /\ readBuffer \in Seq(Nat) /\ \A s \in Subs : observed[s] \in Seq(Nat)
    BY DEF TypeOK
  <2>c. \A s \in Subs : Consecutive(observed[s])
    BY DEF EventsInOrder, Consecutive
  <2>1. ASSUME NEW t \in Subs, ~Observe(t)
        PROVE  /\ Consecutive(observed'[t])
               /\ t \in subscriptions' /\ ~hasThrownException'[t] /\ observed'[t] # <<>> =>
                    observed'[t][Len(observed'[t])] + Backlog(t)' + 1 = sequenceNumber'
    <3>1. /\ observed'[t] = observed[t] /\ hasThrownException'[t] = hasThrownException[t]
          /\ t \in subscriptions' /\ observed[t] # <<>> => t \in subscriptions
      BY <2>1, NotObserving DEF Lifecycle, Subscribe
    <3>2. ASSUME t \in subscriptions', ~hasThrownException'[t], observed'[t] # <<>>
          PROVE  observed'[t][Len(observed'[t])] + Backlog(t)' + 1 = sequenceNumber'
      <4>1. sequenceNumber' + Backlog(t) = sequenceNumber + Backlog(t)'
        BY <2>1, <3>2, PositionKept
      <4>2. observed[t][Len(observed[t])] + Backlog(t) + 1 = sequenceNumber
        BY <3>1, <3>2 DEF Position
      <4>3. /\ Backlog(t) \in Nat /\ Backlog(t)' \in Nat /\ sequenceNumber' \in Nat
            /\ observed[t][Len(observed[t])] \in Nat
        <5>1. TypeOK'
          BY TypePreserved
        <5> QED
          BY <2>t, <3>1, <3>2, <5>1 DEF TypeOK, Backlog
      <4> DEFINE last == observed[t][Len(observed[t])]
      <4>4. last + Backlog(t) + 1 = sequenceNumber /\ last \in Nat /\ sequenceNumber \in Nat
        BY <2>t, <4>2, <4>3
      <4> HIDE DEF last
      <4>5. last + Backlog(t)' + 1 = sequenceNumber'
        BY <4>1, <4>3, <4>4
      <4> QED
        BY <3>1, <4>5 DEF last
    <3> QED
      BY <2>c, <3>1, <3>2
  <2>2. ASSUME NEW t \in Subs, Observe(t)
        PROVE  /\ Consecutive(observed'[t])
               /\ t \in subscriptions' /\ ~hasThrownException'[t] /\ observed'[t] # <<>> =>
                    observed'[t][Len(observed'[t])] + Backlog(t)' + 1 = sequenceNumber'
    <3>1. CASE hasThrownException[t]
      BY <2>2, <2>c, <3>1 DEF Observe
    <3>2. CASE /\ ~hasThrownException[t]
               /\ observed' = [observed EXCEPT ![t] = @ \o readBuffer]
      <4>1. /\ t \in toVisit /\ t \notin toVisit' /\ UNCHANGED <<writeBuffer, sequenceNumber>>
            /\ observed'[t] = observed[t] \o readBuffer
        BY <2>2, <3>2 DEF Observe, TypeOK, stateVars
      <4>2. Consecutive(observed'[t])
        BY <2>t, <2>c, <3>2, <4>1, BatchFits, ConsecutiveConcat
      <4>3. CASE readBuffer = <<>>
        <5>1. observed'[t] = observed[t]
          BY <2>t, <4>1, <4>3
        <5>2. Backlog(t)' = Backlog(t)
          BY <2>t, <4>1, <4>3 DEF Backlog
        <5>3. t \in subscriptions
          BY <3>2, <4>1, BatchFits
        <5> QED
          BY <3>2, <4>1, <4>2, <5>1, <5>2, <5>3 DEF Position
      <4>4. CASE readBuffer # <<>>
        <5>1. Len(readBuffer) \in 1 .. Len(readBuffer)
          BY <2>t, <4>4
        <5>2. observed'[t][Len(observed'[t])] = readBuffer[Len(readBuffer)]
          BY <2>t, <4>1, <5>1, ConcatFacts
        <5>3. /\ readBuffer[Len(readBuffer)] \in Nat
              /\ readBuffer[Len(readBuffer)] + Len(readBuffer) + Len(writeBuffer) + 1
                   = sequenceNumber + Len(readBuffer)
          BY <2>t, <5>1 DEF Numbering
        <5>4. Backlog(t)' = Len(writeBuffer)
          BY <2>t, <4>1 DEF Backlog
        <5> DEFINE last == readBuffer[Len(readBuffer)]
        <5>5. /\ last \in Nat
              /\ last + Len(readBuffer) + Len(writeBuffer) + 1 = sequenceNumber + Len(readBuffer)
              /\ Len(writeBuffer) \in Nat /\ Len(readBuffer) \in Nat /\ sequenceNumber \in Nat
          BY <2>t, <5>3
        <5> HIDE DEF last
        <5>6. last + Len(writeBuffer) + 1 = sequenceNumber
          BY <5>5
        <5> QED
          BY <4>1, <4>2, <5>2, <5>4, <5>6 DEF last
      <4> QED
        BY <4>3, <4>4
    <3>3. ASSUME ~hasThrownException[t], hasThrownException'[t],
                 NEW n \in 0 .. (Len(readBuffer) - 1),
                 observed' = [observed EXCEPT ![t] = @ \o SubSeq(readBuffer, 1, n)]
          PROVE  Consecutive(observed'[t])
      <4>1. t \in toVisit /\ observed'[t] = observed[t] \o SubSeq(readBuffer, 1, n)
        BY <2>2, <3>3 DEF Observe, TypeOK
      <4>2. /\ SubSeq(readBuffer, 1, n) \in Seq(Nat)
            /\ Consecutive(SubSeq(readBuffer, 1, n))
            /\ SubSeq(readBuffer, 1, n) # <<>> =>
                 readBuffer # <<>> /\ SubSeq(readBuffer, 1, n)[1] = readBuffer[1]
        BY <2>t, <3>3, <4>1, BatchFits, PrefixFacts, PrefixConsecutive
      <4> QED
        BY <2>t, <2>c, <3>3, <4>1, <4>2, BatchFits, ConsecutiveConcat
    <3> QED
      BY <2>2, <3>1, <3>2, <3>3 DEF Observe, TypeOK
  <2> QED
    BY <2>1, <2>2 DEF EventsInOrder, Position, Consecutive
<1> QED
  BY <1>1, <1>2, TypeCorrect, ControlCorrect, LifecycleCorrect, NumberingCorrect, PTL DEF Spec

\* An event that is not old enough to have left the buffers is in one of them.
LEMMA BufferedEvents ==
  ASSUME TypeOK, Numbering, NEW e \in Nat, e < sequenceNumber
  PROVE  /\ e + Len(writeBuffer) >= sequenceNumber =>
              e \in {writeBuffer[i] : i \in DOMAIN writeBuffer}
         /\ (e + Len(writeBuffer) < sequenceNumber
             /\ e + (Len(writeBuffer) + Len(readBuffer)) >= sequenceNumber) =>
              e \in {readBuffer[i] : i \in DOMAIN readBuffer}
<1>1. Len(writeBuffer) \in Nat /\ Len(readBuffer) \in Nat /\ sequenceNumber \in Nat
  BY DEF TypeOK
<1>2. /\ DOMAIN writeBuffer = 1 .. Len(writeBuffer) /\ DOMAIN readBuffer = 1 .. Len(readBuffer)
      /\ \A i \in 1 .. Len(writeBuffer) : writeBuffer[i] \in Nat
      /\ \A i \in 1 .. Len(readBuffer) : readBuffer[i] \in Nat
  BY DEF TypeOK
<1>3. ASSUME e + Len(writeBuffer) >= sequenceNumber
      PROVE  e \in {writeBuffer[i] : i \in DOMAIN writeBuffer}
  <2> DEFINE i == e + Len(writeBuffer) + 1 - sequenceNumber
             x == writeBuffer[i]
  <2>1. i \in 1 .. Len(writeBuffer)
    BY <1>1, <1>3
  <2>2. x + Len(writeBuffer) + 1 = sequenceNumber + i /\ x \in Nat
    BY <1>2, <2>1 DEF Numbering
  <2>3. x = e
    <3> HIDE DEF x
    <3> QED
      BY <1>1, <2>2
  <2> QED
    BY <1>2, <2>1, <2>3
<1>4. ASSUME e + Len(writeBuffer) < sequenceNumber,
             e + (Len(writeBuffer) + Len(readBuffer)) >= sequenceNumber
      PROVE  e \in {readBuffer[i] : i \in DOMAIN readBuffer}
  <2> DEFINE i == e + Len(writeBuffer) + Len(readBuffer) + 1 - sequenceNumber
             x == readBuffer[i]
  <2>1. i \in 1 .. Len(readBuffer)
    BY <1>1, <1>4
  <2>2. x + Len(readBuffer) + Len(writeBuffer) + 1 = sequenceNumber + i /\ x \in Nat
    BY <1>2, <2>1 DEF Numbering
  <2>3. x = e
    <3> HIDE DEF x
    <3> QED
      BY <1>1, <2>2
  <2> QED
    BY <1>2, <2>1, <2>3
<1> QED
  BY <1>3, <1>4

\* The two ways into `freed`, and what stays fixed for a deleted subscription.
LEMMA FreedSteps ==
  ASSUME TypeOK, Control, Lifecycle, [Next]_vars, NEW t \in Subs
  PROVE  /\ ~Subscribe(t) => subscribedAt'[t] = subscribedAt[t]
         /\ t \in freed => /\ ~Subscribe(t) /\ ~Observe(t)
                           /\ unsubscribe'[t] = unsubscribe[t]
                           /\ unsubscribe[t] # 0 \/ sequenceNumber' = sequenceNumber
         /\ t \in freed' => \/ t \in freed
                            \/ ThreadTop /\ t \in Deletable
                            \/ DestroyJoin /\ t \in subscriptions
<1> USE DEF stateVars, subVars, threadVars, ownVars, histVars
<1>1. ~Subscribe(t) => subscribedAt'[t] = subscribedAt[t]
  <2>1. ASSUME NEW s \in Subs \ {t}, Subscribe(s) PROVE subscribedAt'[t] = subscribedAt[t]
    BY <2>1 DEF Subscribe, TypeOK
  <2>2. CASE UNCHANGED subscribedAt
    BY <2>2
  <2> QED
    BY <2>1, <2>2
       DEF Next, ThreadStep, Publish, PublishWoken, PublishNotify, HandleLock, Unsubscribe,
           ThreadTop, ThreadWoken, ThreadNotifyFull, ThreadClear, Observe,
           OwnerRelease, DestroyBegin, DestroyNotify, DestroyJoin, Spurious, Terminated, vars
<1>2. ASSUME t \in freed
      PROVE  /\ ~Subscribe(t) /\ ~Observe(t) /\ unsubscribe'[t] = unsubscribe[t]
             /\ unsubscribe[t] # 0 \/ sequenceNumber' = sequenceNumber
  <2>1. ~Subscribe(t) /\ ~Observe(t)
    BY <1>2 DEF Subscribe, Observe, Lifecycle
  <2>2. ~Unsubscribe(t)
    BY <1>2 DEF Unsubscribe, Lifecycle, Control, StrongRefs
  <2>3. unsubscribe'[t] = unsubscribe[t]
    <3>1. ASSUME NEW s \in Subs \ {t}, Unsubscribe(s) PROVE unsubscribe'[t] = unsubscribe[t]
      BY <3>1 DEF Unsubscribe, TypeOK
    <3>2. CASE UNCHANGED unsubscribe
      BY <3>2
    <3> QED
      BY <2>2, <3>1, <3>2
         DEF Next, ThreadStep, Publish, PublishWoken, PublishNotify, Subscribe, HandleLock,
             ThreadTop, ThreadWoken, ThreadNotifyFull, ThreadClear, Observe,
             OwnerRelease, DestroyBegin, DestroyNotify, DestroyJoin, Spurious, Terminated, vars
  <2>4. unsubscribe[t] # 0 \/ sequenceNumber' = sequenceNumber
    <3>1. ASSUME NEW p \in Publishers, Publish(p) \/ PublishWoken(p) PROVE unsubscribe[t] # 0
      <4>1. ownerRef
        BY <3>1 DEF Publish, PublishWoken, Control
      <4> QED
        BY <1>2, <4>1 DEF Control, StrongRefs, Lifecycle
    <3>2. CASE UNCHANGED sequenceNumber
      BY <3>2
    <3> QED
      BY <3>1, <3>2
         DEF Next, ThreadStep, PublishNotify, Subscribe, HandleLock, Unsubscribe,
             ThreadTop, ThreadWoken, ThreadNotifyFull, ThreadClear, Observe,
             OwnerRelease, DestroyBegin, DestroyNotify, DestroyJoin, Spurious, Terminated, vars
  <2> QED
    BY <2>1, <2>3, <2>4
<1>3. t \in freed' => t \in freed \/ (ThreadTop /\ t \in Deletable)
                      \/ (DestroyJoin /\ t \in subscriptions)
  <2>1. CASE ThreadTop
    BY <2>1 DEF ThreadTop
  <2>2. CASE DestroyJoin
    BY <2>2 DEF DestroyJoin
  <2>3. CASE UNCHANGED freed
    BY <2>3
  <2> QED
    BY <2>1, <2>2, <2>3
       DEF Next, ThreadStep, Publish, PublishWoken, PublishNotify, Subscribe, HandleLock,
           Unsubscribe, ThreadWoken, ThreadNotifyFull, ThreadClear, Observe,
           OwnerRelease, DestroyBegin, DestroyNotify, Spurious, Terminated, vars
<1> QED
  BY <1>1, <1>2, <1>3

LEMMA DeliveryCorrect == Spec => []Delivery
<1>1. Init => Delivery
  BY DEF Init, Delivery
<1>2. TypeOK /\ TypeOK' /\ Control /\ Lifecycle /\ Numbering /\ Progress /\ Delivery
      /\ [Next]_vars => Delivery'
  <2> SUFFICES ASSUME TypeOK, Control, Lifecycle, Numbering, Progress, Delivery,
                      TypeOK', [Next]_vars,
                      NEW t \in Subs, ~hasThrownException'[t]
               PROVE  /\ t \in subscriptions' =>
                           \A e \in Nat : subscribedAt'[t] <= e
                             /\ e + Backlog(t)' < sequenceNumber' => e \in Seen(t)'
                      /\ t \in freed' =>
                           \A e \in Nat : subscribedAt'[t] <= e /\ e < sequenceNumber'
                             /\ (unsubscribe'[t] # 0 => e < unsubscribe'[t]) => e \in Seen(t)'
    BY Zenon DEF Delivery
  <2> SUFFICES ASSUME NEW e \in Nat, subscribedAt'[t] <= e
               PROVE  /\ (t \in subscriptions' /\ e + Backlog(t)' < sequenceNumber') => e \in Seen(t)'
                      /\ (t \in freed' /\ e < sequenceNumber'
                          /\ (unsubscribe'[t] # 0 => e < unsubscribe'[t])) => e \in Seen(t)'
    BY Zenon
  <2>n. /\ Len(writeBuffer) \in Nat /\ Len(readBuffer) \in Nat /\ sequenceNumber \in Nat
        /\ sequenceNumber' \in Nat /\ lastObserved \in Nat /\ unsubscribe[t] \in Nat
        /\ subscribedAt[t] \in Nat
    BY DEF TypeOK
  <2>b. Backlog(t) \in Nat /\ Backlog(t)' \in Nat
    BY DEF TypeOK, Backlog
  <2>1. ASSUME t \in subscriptions', e + Backlog(t)' < sequenceNumber', ~Observe(t)
        PROVE  e \in Seen(t)'
    <3>1. /\ Seen(t)' = Seen(t) /\ ~hasThrownException[t]
          /\ t \in subscriptions \/ Subscribe(t)
      BY <2>1, NotObserving
    <3>2. e + Backlog(t) < sequenceNumber
      <4>1. sequenceNumber' + Backlog(t) = sequenceNumber + Backlog(t)'
        BY <2>1, PositionKept
      <4> QED
        BY <2>1, <2>n, <2>b, <4>1
    <3>3. ~Subscribe(t)
      <4>1. Subscribe(t) => subscribedAt'[t] = sequenceNumber
        BY DEF Subscribe, TypeOK
      <4> QED
        BY <2>n, <2>b, <3>2, <4>1
    <3>4. subscribedAt[t] <= e
      BY <3>3, FreedSteps
    <3> QED
      BY <3>1, <3>2, <3>3, <3>4 DEF Delivery
  <2>2. ASSUME t \in subscriptions', e + Backlog(t)' < sequenceNumber', Observe(t)
        PROVE  e \in Seen(t)'
    <3>1. /\ t \in toVisit /\ t \notin toVisit' /\ UNCHANGED <<writeBuffer, sequenceNumber>>
          /\ ~hasThrownException[t] /\ subscribedAt'[t] = subscribedAt[t]
          /\ observed' = [observed EXCEPT ![t] = @ \o readBuffer]
      BY <2>2 DEF Observe, TypeOK, stateVars
    <3>2. /\ Seen(t)' = Seen(t) \union {readBuffer[i] : i \in DOMAIN readBuffer}
          /\ t \in subscriptions
      <4>1. readBuffer \in Seq(Nat)
        BY DEF TypeOK
      <4> QED
        BY <3>1, <4>1, ObserveFacts DEF Lifecycle
    <3>3. e + Len(writeBuffer) < sequenceNumber /\ Backlog(t) = Len(writeBuffer) + Len(readBuffer)
      BY <2>2, <2>n, <3>1 DEF Backlog
    <3>4. CASE e + (Len(writeBuffer) + Len(readBuffer)) < sequenceNumber
      BY <3>1, <3>2, <3>3, <3>4 DEF Delivery
    <3>5. CASE e + (Len(writeBuffer) + Len(readBuffer)) >= sequenceNumber
      <4>1. e < sequenceNumber
        BY <2>n, <3>3
      <4> QED
        BY <3>2, <3>3, <3>5, <4>1, BufferedEvents
    <3> QED
      BY <2>n, <3>4, <3>5
  <2>3. ASSUME t \in freed', e < sequenceNumber', unsubscribe'[t] # 0 => e < unsubscribe'[t]
        PROVE  e \in Seen(t)'
    <3>1. CASE t \in freed
      <4>1. /\ ~Subscribe(t) /\ ~Observe(t) /\ unsubscribe'[t] = unsubscribe[t]
            /\ unsubscribe[t] # 0 \/ sequenceNumber' = sequenceNumber
            /\ subscribedAt'[t] = subscribedAt[t]
        BY <3>1, FreedSteps
      <4>2. Seen(t)' = Seen(t) /\ ~hasThrownException[t]
        BY <4>1, NotObserving
      <4>3. e < sequenceNumber
        <5>1. unsubscribe[t] <= sequenceNumber
          BY DEF Lifecycle
        <5> QED
          BY <2>3, <2>n, <4>1, <5>1
      <4> QED
        BY <2>3, <3>1, <4>1, <4>2, <4>3 DEF Delivery
    <3>2. CASE t \notin freed
      <4>1. (ThreadTop /\ t \in Deletable) \/ (DestroyJoin /\ t \in subscriptions)
        BY <2>3, <3>2, FreedSteps
      <4>2. t \in subscriptions /\ ~Observe(t) /\ ~Subscribe(t)
        BY <4>1 DEF Deletable, ThreadTop, DestroyJoin, Observe, Subscribe, Lifecycle
      <4>3. /\ Seen(t)' = Seen(t) /\ ~hasThrownException[t]
            /\ subscribedAt'[t] = subscribedAt[t]
        BY <4>2, NotObserving, FreedSteps
      <4>4. e + Backlog(t) < sequenceNumber
        <5>1. CASE ThreadTop /\ t \in Deletable
          <6>1. /\ Backlog(t) = Len(writeBuffer) /\ unsubscribe'[t] = unsubscribe[t]
                /\ unsubscribe[t] # 0 /\ unsubscribe[t] <= lastObserved
                /\ lastObserved + Len(writeBuffer) <= sequenceNumber
            BY <2>n, <5>1 DEF ThreadTop, Deletable, Control, Backlog, Progress, subVars
          <6> QED
            BY <2>3, <2>n, <6>1
        <5>2. CASE DestroyJoin
          <6>1. Backlog(t) = 0 /\ sequenceNumber' = sequenceNumber
            BY <5>2 DEF DestroyJoin, Control, Backlog
          <6> QED
            BY <2>3, <2>n, <6>1
        <5> QED
          BY <4>1, <5>1, <5>2
      <4> QED
        BY <4>2, <4>3, <4>4 DEF Delivery
    <3> QED
      BY <3>1, <3>2
  <2> QED
    BY <2>1, <2>2, <2>3
<1> QED
  BY <1>1, <1>2, TypeCorrect, ControlCorrect, LifecycleCorrect, NumberingCorrect,
     ProgressCorrect, PTL DEF Spec

\* The bus is reliable: see NoEventLost.  The destructor's promise to block
\* until everything was observed is the case of a destroyed bus.
THEOREM Reliable == Spec => []NoEventLost
<1>1. TypeOK /\ Lifecycle /\ Numbering /\ Delivery => NoEventLost
  <2> SUFFICES ASSUME TypeOK, Lifecycle, Numbering, Delivery,
                      NEW s \in Subs, ~hasThrownException[s], NEW e \in Promised(s)
               PROVE  e \in Seen(s) \/ (s \in subscriptions /\ e \in BufferedFor(s))
    BY DEF NoEventLost
  <2>n. /\ Len(writeBuffer) \in Nat /\ Len(readBuffer) \in Nat /\ sequenceNumber \in Nat
        /\ unsubscribe[s] \in Nat /\ subscribedAt[s] \in Nat
    BY DEF TypeOK
  <2>1. /\ handle[s] # "none" /\ e \in Nat /\ subscribedAt[s] <= e /\ e < sequenceNumber
        /\ unsubscribe[s] # 0 => e < unsubscribe[s]
    <3>1. handle[s] # "none" /\ unsubscribe[s] <= sequenceNumber
      BY DEF Promised, Lifecycle
    <3> QED
      BY <2>n, <3>1 DEF Promised
  <2>2. CASE s \in freed
    BY <2>1, <2>2 DEF Delivery
  <2>3. CASE s \in subscriptions
    <3>1. CASE e + Backlog(s) < sequenceNumber
      BY <2>1, <2>3, <3>1 DEF Delivery
    <3>2. CASE ~(e + Backlog(s) < sequenceNumber)
      <4>1. CASE e + Len(writeBuffer) >= sequenceNumber
        BY <2>1, <2>3, <4>1, BufferedEvents DEF BufferedFor
      <4>2. CASE e + Len(writeBuffer) < sequenceNumber
        <5>1. s \in toVisit /\ e + (Len(writeBuffer) + Len(readBuffer)) >= sequenceNumber
          BY <2>n, <2>1, <3>2, <4>2 DEF Backlog
        <5> QED
          BY <2>1, <2>3, <4>2, <5>1, BufferedEvents DEF BufferedFor
      <4> QED
        BY <2>n, <2>1, <4>1, <4>2
    <3> QED
      BY <3>1, <3>2
  <2> QED
    BY <2>1, <2>2, <2>3 DEF Lifecycle
<1> QED
  BY <1>1, TypeCorrect, LifecycleCorrect, NumberingCorrect, DeliveryCorrect, PTL

-----------------------------------------------------------------------------
(* Unsubscription *)

\* The thread swaps at most one batch beyond lastObserved, and none while it
\* waits.
Horizon ==
  IF threadPc \in {"waiting", "woken"}
  THEN sequenceNumber = lastObserved + Len(writeBuffer)
  ELSE sequenceNumber <= lastObserved + Len(writeBuffer) + Capacity

\* The first event that a subscriber that has unsubscribed cannot see.
Bound(s) == unsubscribe[s] + (2 * Capacity - 1)

\* What a subscriber that is still in the list may yet be shown: the batch in
\* use, and the one that a waiting thread will take, end before the bound.
Ahead ==
  \A s \in subscriptions : unsubscribe[s] # 0 =>
    /\ s \in toVisit => sequenceNumber <= Len(writeBuffer) + Bound(s)
    /\ threadPc \in {"waiting", "woken"} => lastObserved + Capacity <= Bound(s)

\* Nobody sees an event before it is published.
SeenPublished == \A s \in Subs : \A e \in Seen(s) : e < sequenceNumber

LEMMA HorizonCorrect == Spec => []Horizon
<1>1. Init => Horizon
  BY CapacityAssumption DEF CapacityAssumption, Init, Horizon
<1>2. TypeOK /\ Control /\ Horizon /\ [Next]_vars => Horizon'
  <2> SUFFICES ASSUME TypeOK, Control, Horizon, [Next]_vars PROVE Horizon'
    OBVIOUS
  <2>n. /\ Len(writeBuffer) \in Nat /\ Len(writeBuffer) <= Capacity /\ Capacity \in Nat
        /\ sequenceNumber \in Nat /\ lastObserved \in Nat
    BY CapacityAssumption DEF CapacityAssumption, TypeOK
  <2> USE DEF Horizon, stateVars, subVars, threadVars, ownVars, histVars
  <2>1. ASSUME NEW p \in Publishers, Publish(p) \/ PublishWoken(p) PROVE Horizon'
    <3>1. CASE BlockOnFull(p)
      BY <2>1, <3>1 DEF Publish, PublishWoken, BlockOnFull
    <3>2. CASE Append1(p)
      <4>1. Len(writeBuffer') = Len(writeBuffer) + 1 /\ sequenceNumber' = sequenceNumber + 1
        BY <3>2, AppendFacts DEF Append1, TypeOK
      <4> QED
        BY <2>n, <2>1, <4>1 DEF Publish, PublishWoken
    <3> QED
      BY <2>1, <3>1, <3>2 DEF Publish, PublishWoken, EnterPublish
  <2>2. CASE ThreadTop
    <3>1. CASE WaitPredicate
      <4>1. /\ writeBuffer' = readBuffer /\ sequenceNumber' = sequenceNumber
            /\ lastObserved' = sequenceNumber /\ threadPc' \in {"notifyFull", "observe"}
        BY <2>2, <3>1 DEF ThreadTop, SwapBuffers
      <4>2. Len(readBuffer) = 0
        BY <2>2 DEF ThreadTop, Control
      <4> QED
        BY <2>n, <4>1, <4>2
    <3>2. CASE ~WaitPredicate
      <4>1. /\ writeBuffer' = writeBuffer /\ sequenceNumber' = sequenceNumber
            /\ lastObserved' = sequenceNumber /\ threadPc' = "waiting"
        BY <2>2, <3>2 DEF ThreadTop, BlockOnEmpty
      <4>2. Len(writeBuffer) = 0
        BY <3>2 DEF WaitPredicate
      <4> QED
        BY <2>n, <4>1, <4>2
    <3> QED
      BY <3>1, <3>2
  <2>3. CASE ThreadWoken
    <3>1. CASE WaitPredicate
      <4>1. /\ writeBuffer' = readBuffer /\ sequenceNumber' = sequenceNumber
            /\ lastObserved' = lastObserved /\ threadPc' \in {"notifyFull", "observe"}
            /\ threadPc = "woken"
        BY <2>3, <3>1 DEF ThreadWoken, SwapBuffers
      <4>2. Len(readBuffer) = 0
        BY <2>3 DEF ThreadWoken, Control
      <4> QED
        BY <2>n, <4>1, <4>2
    <3>2. CASE ~WaitPredicate
      BY <2>3, <3>2 DEF ThreadWoken, BlockOnEmpty
    <3> QED
      BY <3>1, <3>2
  <2>4. CASE /\ UNCHANGED <<writeBuffer, lastObserved, sequenceNumber>>
             /\ threadPc' \in {"waiting", "woken"} <=> threadPc \in {"waiting", "woken"}
    BY <2>4
  <2> QED
    BY <2>1, <2>2, <2>3, <2>4
       DEF Next, ThreadStep, PublishNotify, Subscribe, HandleLock, Unsubscribe,
           ThreadNotifyFull, Observe, ThreadClear, OwnerRelease, DestroyBegin,
           DestroyNotify, DestroyJoin, Spurious, SpuriousWakeup, NotifyEmptyCV,
           Terminated, vars
<1> QED
  BY <1>1, <1>2, TypeCorrect, ControlCorrect, PTL DEF Spec

\* What a step shows to a subscriber: nothing, unless it observes the batch in
\* use, whose events all precede the write buffer.
LEMMA ShownByStep ==
  ASSUME TypeOK, Numbering, [Next]_vars, NEW s \in Subs, NEW e \in Seen(s)', e \notin Seen(s)
  PROVE  /\ s \in toVisit /\ e \in Nat /\ e + Len(writeBuffer) < sequenceNumber
         /\ UNCHANGED <<sequenceNumber, unsubscribe, writeBuffer>>
<1>1. PICK t \in Subs : Observe(t)
  <2>1. observed' # observed
    BY DEF Seen
  <2> QED
    BY <2>1 DEF Next, ThreadStep, Publish, PublishWoken, PublishNotify, Subscribe, HandleLock,
                Unsubscribe, ThreadTop, ThreadWoken, ThreadNotifyFull, ThreadClear, OwnerRelease,
                DestroyBegin, DestroyNotify, DestroyJoin, Spurious, Terminated, vars, histVars
<1>2. PICK b \in Seq(Nat) :
        /\ observed' = [observed EXCEPT ![t] = @ \o b]
        /\ \A i \in DOMAIN b : i \in 1 .. Len(readBuffer) /\ b[i] = readBuffer[i]
  <2>1. CASE UNCHANGED observed
    <3>1. Seen(s)' = Seen(s)
      BY <2>1 DEF Seen
    <3> QED
      BY <3>1
  <2>2. CASE observed' = [observed EXCEPT ![t] = @ \o readBuffer]
    <3>1. readBuffer \in Seq(Nat)
      BY DEF TypeOK
    <3>2. \A i \in DOMAIN readBuffer : i \in 1 .. Len(readBuffer)
      BY <3>1
    <3> QED
      BY <2>2, <3>1, <3>2
  <2>3. ASSUME NEW n \in 0 .. (Len(readBuffer) - 1),
               observed' = [observed EXCEPT ![t] = @ \o SubSeq(readBuffer, 1, n)]
        PROVE  \E b \in Seq(Nat) :
                 /\ observed' = [observed EXCEPT ![t] = @ \o b]
                 /\ \A i \in DOMAIN b : i \in 1 .. Len(readBuffer) /\ b[i] = readBuffer[i]
    <3>1. readBuffer \in Seq(Nat) /\ Len(readBuffer) \in Nat
      BY DEF TypeOK
    <3>2. /\ SubSeq(readBuffer, 1, n) \in Seq(Nat)
          /\ DOMAIN SubSeq(readBuffer, 1, n) = 1 .. n
          /\ \A i \in 1 .. n : i \in 1 .. Len(readBuffer)
                               /\ SubSeq(readBuffer, 1, n)[i] = readBuffer[i]
      BY <3>1, PrefixFacts
    <3> QED
      BY <2>3, <3>2
  <2> QED
    BY <1>1, <2>1, <2>2, <2>3 DEF Observe
<1>3. s = t /\ \E i \in DOMAIN b : e = b[i]
  <2>1. /\ Seen(t)' = Seen(t) \union {b[i] : i \in DOMAIN b}
        /\ \A u \in Subs \ {t} : Seen(u)' = Seen(u)
    BY <1>2, ObserveFacts
  <2>2. s = t
    BY <2>1
  <2> QED
    BY <2>1, <2>2
<1>4. PICK i \in 1 .. Len(readBuffer) : e = readBuffer[i]
  BY <1>2, <1>3
<1>5. readBuffer[i] + Len(readBuffer) + Len(writeBuffer) + 1 = sequenceNumber + i
  BY DEF Numbering
<1>6. e \in Nat /\ Len(readBuffer) \in Nat /\ Len(writeBuffer) \in Nat /\ sequenceNumber \in Nat
  BY <1>4 DEF TypeOK
<1>7. e + Len(writeBuffer) < sequenceNumber
  BY <1>4, <1>5, <1>6
<1> QED
  BY <1>1, <1>3, <1>6, <1>7 DEF Observe, stateVars

LEMMA SeenPublishedCorrect == Spec => []SeenPublished
<1>1. Init => SeenPublished
  BY DEF Init, SeenPublished, Seen
<1>2. TypeOK /\ Numbering /\ SeenPublished /\ [Next]_vars => SeenPublished'
  <2> SUFFICES ASSUME TypeOK, Numbering, SeenPublished, [Next]_vars,
                      NEW s \in Subs, NEW e \in Seen(s)'
               PROVE  e < sequenceNumber'
    BY DEF SeenPublished
  <2>1. sequenceNumber \in Nat /\ sequenceNumber' \in {sequenceNumber, sequenceNumber + 1}
    BY DEF TypeOK, Next, ThreadStep, Publish, PublishWoken, EnterPublish, BlockOnFull, Append1,
           PublishNotify, Subscribe, HandleLock, Unsubscribe, ThreadTop, ThreadWoken,
           ThreadNotifyFull, Observe, ThreadClear, OwnerRelease, DestroyBegin, DestroyNotify,
           DestroyJoin, Spurious, Terminated, vars, stateVars
  <2>2. Len(writeBuffer) \in Nat /\ (e \in Seen(s) => e \in Nat)
    BY DEF TypeOK, Seen
  <2>3. CASE e \in Seen(s)
    BY <2>1, <2>2, <2>3 DEF SeenPublished
  <2>4. CASE e \notin Seen(s)
    BY <2>1, <2>2, <2>4, ShownByStep
  <2> QED
    BY <2>3, <2>4
<1> QED
  BY <1>1, <1>2, TypeCorrect, NumberingCorrect, PTL DEF Spec

LEMMA AheadCorrect == Spec => []Ahead
<1>1. Init => Ahead
  BY DEF Init, Ahead
<1>2. TypeOK /\ Control /\ Lifecycle /\ Progress /\ Horizon /\ Ahead /\ [Next]_vars => Ahead'
  <2> SUFFICES ASSUME TypeOK, Control, Lifecycle, Progress, Horizon, Ahead, [Next]_vars,
                      NEW s \in subscriptions', unsubscribe'[s] # 0
               PROVE  /\ s \in toVisit' => sequenceNumber' <= Len(writeBuffer') + Bound(s)'
                      /\ threadPc' \in {"waiting", "woken"} => lastObserved' + Capacity <= Bound(s)'
    BY DEF Ahead
  <2>n. /\ Len(writeBuffer) \in Nat /\ Len(writeBuffer) <= Capacity /\ Capacity \in Nat \ {0}
        /\ sequenceNumber \in Nat /\ lastObserved \in Nat
        /\ \A t \in Subs : unsubscribe[t] \in Nat
        /\ lastObserved <= sequenceNumber
    BY CapacityAssumption DEF CapacityAssumption, TypeOK, Progress
  <2> USE DEF Bound, stateVars, subVars, threadVars, ownVars, histVars
  <2>1. ASSUME NEW p \in Publishers, Publish(p) \/ PublishWoken(p)
        PROVE  /\ s \in toVisit' => sequenceNumber' <= Len(writeBuffer') + Bound(s)'
               /\ threadPc' \in {"waiting", "woken"} => lastObserved' + Capacity <= Bound(s)'
    <3>1. UNCHANGED <<subscriptions, unsubscribe, toVisit, threadPc, lastObserved>>
      BY <2>1 DEF Publish, PublishWoken
    <3>2. /\ s \in Subs /\ unsubscribe[s] \in Nat
          /\ s \in toVisit => sequenceNumber <= Len(writeBuffer) + Bound(s)
          /\ threadPc \in {"waiting", "woken"} => lastObserved + Capacity <= Bound(s)
      BY <2>n, <3>1 DEF Ahead, TypeOK
    <3>3. CASE BlockOnFull(p)
      BY <3>1, <3>2, <3>3 DEF BlockOnFull
    <3>4. CASE Append1(p)
      <4>1. Len(writeBuffer') = Len(writeBuffer) + 1 /\ sequenceNumber' = sequenceNumber + 1
        BY <3>4, AppendFacts DEF Append1, TypeOK
      <4> QED
        BY <2>n, <3>1, <3>2, <4>1
    <3> QED
      BY <2>1, <3>3, <3>4 DEF Publish, PublishWoken, EnterPublish
  <2>2. CASE ThreadTop
    <3>1. /\ s \in Subs /\ unsubscribe[s] \in Nat /\ lastObserved < unsubscribe[s]
          /\ unsubscribe' = unsubscribe /\ sequenceNumber' = sequenceNumber
          /\ lastObserved' = sequenceNumber
      BY <2>n, <2>2 DEF ThreadTop, Deletable, TypeOK
    <3>2. sequenceNumber <= lastObserved + Len(writeBuffer) + Capacity
      BY <2>2 DEF ThreadTop, Horizon
    <3>3. CASE WaitPredicate
      <4>1. writeBuffer' = readBuffer /\ threadPc' \in {"notifyFull", "observe"}
        BY <2>2, <3>3 DEF ThreadTop, SwapBuffers
      <4>2. Len(readBuffer) = 0
        BY <2>2 DEF ThreadTop, Control
      <4> QED
        BY <2>n, <3>1, <3>2, <4>1, <4>2
    <3>4. CASE ~WaitPredicate
      <4>1. toVisit' = {}
        BY <2>2, <3>4 DEF ThreadTop, BlockOnEmpty, Control
      <4>2. Len(writeBuffer) = 0
        BY <3>4 DEF WaitPredicate
      <4> QED
        BY <2>n, <3>1, <3>2, <4>1, <4>2
    <3> QED
      BY <3>3, <3>4
  <2>3. CASE ThreadWoken
    <3>1. /\ s \in Subs /\ s \in subscriptions /\ unsubscribe[s] \in Nat
          /\ UNCHANGED <<unsubscribe, sequenceNumber, lastObserved>>
          /\ lastObserved + Capacity <= Bound(s)
          /\ sequenceNumber = lastObserved + Len(writeBuffer)
      BY <2>n, <2>3 DEF ThreadWoken, TypeOK, Ahead, Horizon
    <3>2. CASE WaitPredicate
      <4>1. writeBuffer' = readBuffer /\ threadPc' \in {"notifyFull", "observe"}
        BY <2>3, <3>2 DEF ThreadWoken, SwapBuffers
      <4>2. Len(readBuffer) = 0
        BY <2>3 DEF ThreadWoken, Control
      <4> QED
        BY <2>n, <3>1, <4>1, <4>2
    <3>3. CASE ~WaitPredicate
      <4>1. toVisit' = {}
        BY <2>3, <3>3 DEF ThreadWoken, BlockOnEmpty, Control
      <4> QED
        BY <2>n, <3>1, <4>1
    <3> QED
      BY <3>2, <3>3
  <2>4. ASSUME NEW t \in Subs, Unsubscribe(t)
        PROVE  /\ s \in toVisit' => sequenceNumber' <= Len(writeBuffer') + Bound(s)'
               /\ threadPc' \in {"waiting", "woken"} => lastObserved' + Capacity <= Bound(s)'
    <3>1. /\ UNCHANGED <<subscriptions, sequenceNumber, writeBuffer, toVisit, threadPc, lastObserved>>
          /\ s \in Subs
      BY <2>4 DEF Unsubscribe, TypeOK
    <3>2. CASE s = t
      <4>1. unsubscribe'[s] = sequenceNumber
        BY <2>4, <3>1, <3>2 DEF Unsubscribe, TypeOK
      <4> QED
        BY <2>n, <3>1, <4>1
    <3>3. CASE s # t
      <4>1. unsubscribe'[s] = unsubscribe[s]
        BY <2>4, <3>1, <3>3 DEF Unsubscribe, TypeOK
      <4> QED
        BY <3>1, <4>1 DEF Ahead
    <3> QED
      BY <3>2, <3>3
  <2>5. ASSUME NEW t \in Subs, Subscribe(t)
        PROVE  /\ s \in toVisit' => sequenceNumber' <= Len(writeBuffer') + Bound(s)'
               /\ threadPc' \in {"waiting", "woken"} => lastObserved' + Capacity <= Bound(s)'
    <3>1. s \in subscriptions
      <4>1. unsubscribe[t] = 0 /\ unsubscribe' = unsubscribe
        BY <2>5 DEF Subscribe, Lifecycle
      <4> QED
        BY <2>5, <4>1 DEF Subscribe
    <3> QED
      BY <2>5, <3>1 DEF Subscribe, Ahead
  <2>6. CASE /\ UNCHANGED <<writeBuffer, lastObserved, sequenceNumber, unsubscribe>>
             /\ subscriptions' \subseteq subscriptions /\ toVisit' \subseteq toVisit
             /\ threadPc' \in {"waiting", "woken"} <=> threadPc \in {"waiting", "woken"}
    BY <2>6 DEF Ahead
  <2> QED
    BY <2>1, <2>2, <2>3, <2>4, <2>5, <2>6
       DEF Next, ThreadStep, PublishNotify, HandleLock,
           ThreadNotifyFull, Observe, ThreadClear, OwnerRelease, DestroyBegin,
           DestroyNotify, DestroyJoin, Spurious, SpuriousWakeup, NotifyEmptyCV,
           Terminated, vars
<1> QED
  BY <1>1, <1>2, TypeCorrect, ControlCorrect, LifecycleCorrect, ProgressCorrect, HorizonCorrect,
     PTL DEF Spec

\* TraceBus-inl.h:151-185 and TraceBus.h:211-212, for every capacity and every
\* interleaving of publishers, subscribers and the thread: hasSubscription() is
\* true while a subscription is in the list, and after unsubscribe() a
\* subscriber sees no event numbered 2 * bufferCapacity_ - 1 or more beyond it.
THEOREM UnsubscriptionEnds == Spec => []SubscriptionsSound
<1>1. Init => SubscriptionsSound
  BY DEF Init, SubscriptionsSound, HasSubscriptionSound, BoundedOvershoot
<1>2. /\ TypeOK /\ Lifecycle /\ Numbering /\ Ahead /\ SeenPublished
      /\ SubscriptionsSound /\ [Next]_vars
      => SubscriptionsSound'
  <2> SUFFICES ASSUME TypeOK, Lifecycle, Numbering, Ahead, SeenPublished, SubscriptionsSound,
                      [Next]_vars
               PROVE  HasSubscriptionSound' /\ BoundedOvershoot'
    BY DEF SubscriptionsSound
  <2>1. HasSubscriptionSound'
    <3>1. CASE ThreadTop
      BY <3>1 DEF ThreadTop, StoreHasSubscription, SubscriptionsSound, HasSubscriptionSound
    <3>2. CASE subscriptions' \subseteq subscriptions /\ UNCHANGED hasSubscription
      BY <3>2 DEF SubscriptionsSound, HasSubscriptionSound
    <3>3. CASE hasSubscription' = TRUE
      BY <3>3 DEF HasSubscriptionSound
    <3> QED
      BY <3>1, <3>2, <3>3
         DEF Next, ThreadStep, Publish, PublishWoken, PublishNotify, Subscribe, HandleLock,
             Unsubscribe, ThreadWoken, ThreadNotifyFull, Observe, ThreadClear, OwnerRelease,
             DestroyBegin, DestroyNotify, DestroyJoin, Spurious, Terminated, vars, stateVars
  <2>2. ASSUME NEW s \in Subs, unsubscribe'[s] # 0, NEW e \in Seen(s)'
        PROVE  e < unsubscribe'[s] + (2 * Capacity - 1)
    <3>n. /\ Len(writeBuffer) \in Nat /\ Capacity \in Nat \ {0} /\ sequenceNumber \in Nat
          /\ unsubscribe[s] \in Nat
      BY CapacityAssumption DEF CapacityAssumption, TypeOK
    <3>1. CASE e \notin Seen(s)
      <4>1. /\ s \in toVisit /\ e \in Nat /\ e + Len(writeBuffer) < sequenceNumber
            /\ UNCHANGED unsubscribe
        BY <3>1, ShownByStep
      <4>2. sequenceNumber <= Len(writeBuffer) + Bound(s)
        BY <2>2, <4>1 DEF Ahead, Lifecycle
      <4> QED
        BY <3>n, <4>1, <4>2 DEF Bound
    <3>2. CASE e \in Seen(s)
      <4>1. e \in Nat /\ e < sequenceNumber
        BY <3>2 DEF TypeOK, Seen, SeenPublished
      <4>2. unsubscribe'[s] = unsubscribe[s] \/ unsubscribe'[s] = sequenceNumber
        BY DEF TypeOK, Next, ThreadStep, Publish, PublishWoken, PublishNotify, Subscribe,
               HandleLock, Unsubscribe, ThreadTop, ThreadWoken, ThreadNotifyFull, Observe,
               ThreadClear, OwnerRelease, DestroyBegin, DestroyNotify, DestroyJoin, Spurious,
               Terminated, vars, subVars
      <4>3. CASE unsubscribe'[s] = unsubscribe[s]
        BY <2>2, <3>2, <4>3 DEF SubscriptionsSound, BoundedOvershoot
      <4>4. CASE unsubscribe'[s] = sequenceNumber
        BY <3>n, <4>1, <4>4
      <4> QED
        BY <4>2, <4>3, <4>4
    <3> QED
      BY <3>1, <3>2
  <2> QED
    BY <2>1, <2>2 DEF BoundedOvershoot
<1> QED
  BY <1>1, <1>2, TypeCorrect, LifecycleCorrect, NumberingCorrect, AheadCorrect,
     SeenPublishedCorrect, PTL DEF Spec
=============================================================================
