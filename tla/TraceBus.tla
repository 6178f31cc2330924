------------------------------ MODULE TraceBus ------------------------------
(***************************************************************************)
(* eden/common/telemetry/TraceBus.h and TraceBus-inl.h: a double-buffered, *)
(* fixed-capacity event queue.  Any thread publishes and subscribes; one   *)
(* background thread (threadLoop) swaps the buffers and runs the           *)
(* subscribers' callbacks.                                                 *)
(*                                                                         *)
(* An action is one critical section of state_'s mutex, one condition      *)
(* variable notification (always sent after the unlock), or one            *)
(* observeBatch call.  An event is the value sequenceNumber had when it    *)
(* was published, so events are told apart by their publication order.     *)
(* The intrusive list of subscriptions is a set: observers have no order   *)
(* relative to each other (TraceBus.h:207), and a subscription inserted at *)
(* the head is not reached by a traversal that has already read the head.  *)
(***************************************************************************)
EXTENDS Naturals, Sequences, FiniteSets

CONSTANTS
  Publishers,       \* threads that call publish()
  Subs,             \* Subscription objects that subscribe() may allocate
  Capacity,         \* bufferCapacity_
  MaxEvents         \* bound: publish() is called at most this often

ASSUME CapacityAssumption == Capacity \in Nat \ {0}   \* XCHECK_GT in the constructor
ASSUME MaxEventsAssumption == MaxEvents \in Nat

VARIABLES
  \* struct State, guarded by the mutex
  done, subscriptions, writeBuffer, sequenceNumber,
  \* the fields of each Subscription
  unsubscribe, hasThrownException,
  \* std::atomic_bool hasSubscription_
  hasSubscription,
  \* threadLoop: its position and its locals; toVisit is what remains of the
  \* list that starts at `head`
  threadPc, readBuffer, lastObserved, threadDone, toVisit,
  \* where each publisher is inside publish(): not in it, blocked in
  \* fullCV_.wait, woken from it, or about to notify emptyCV_
  publisherPc,
  \* shared_ptr owner of the bus, the handles (weak_ptr), the destructor
  ownerRef, handle, dtorPc,
  \* history: sequenceNumber at subscribe(), events each subscriber observed
  \* in order, Subscription objects that were deleted
  subscribedAt, observed, freed

stateVars  == <<done, subscriptions, writeBuffer, sequenceNumber>>
subVars    == <<unsubscribe, hasThrownException>>
threadVars == <<threadPc, readBuffer, lastObserved, threadDone, toVisit>>
ownVars    == <<ownerRef, handle, dtorPc>>
histVars   == <<subscribedAt, observed, freed>>
vars == <<stateVars, subVars, hasSubscription, threadVars, publisherPc, ownVars,
          histVars>>

TypeOK ==
  /\ done \in BOOLEAN
  /\ subscriptions \subseteq Subs
  /\ writeBuffer \in Seq(Nat) /\ Len(writeBuffer) <= Capacity
  /\ sequenceNumber \in Nat \ {0}
  /\ unsubscribe \in [Subs -> Nat]
  /\ hasThrownException \in [Subs -> BOOLEAN]
  /\ hasSubscription \in BOOLEAN
  /\ threadPc \in {"top", "waiting", "woken", "notifyFull", "observe", "exited"}
  /\ readBuffer \in Seq(Nat) /\ Len(readBuffer) <= Capacity
  /\ lastObserved \in Nat
  /\ threadDone \in BOOLEAN
  /\ toVisit \subseteq Subs
  /\ publisherPc \in [Publishers -> {"idle", "waiting", "woken", "notify"}]
  /\ ownerRef \in BOOLEAN
  /\ handle \in [Subs -> {"none", "held", "locked", "dropped"}]
  /\ dtorPc \in {"alive", "notify", "join", "destroyed"}
  /\ subscribedAt \in [Subs -> Nat]
  /\ observed \in [Subs -> Seq(Nat)]
  /\ freed \subseteq Subs

\* The constructor has run and the background thread is started.
Init ==
  /\ done = FALSE
  /\ subscriptions = {}
  /\ writeBuffer = <<>>
  /\ sequenceNumber = 1
  /\ unsubscribe = [s \in Subs |-> 0]
  /\ hasThrownException = [s \in Subs |-> FALSE]
  /\ hasSubscription = FALSE
  /\ threadPc = "top"
  /\ readBuffer = <<>>
  /\ lastObserved = 0
  /\ threadDone = FALSE
  /\ toVisit = {}
  /\ publisherPc = [p \in Publishers |-> "idle"]
  /\ ownerRef = TRUE
  /\ handle = [s \in Subs |-> "none"]
  /\ dtorPc = "alive"
  /\ subscribedAt = [s \in Subs |-> 0]
  /\ observed = [s \in Subs |-> <<>>]
  /\ freed = {}

-----------------------------------------------------------------------------
(* publish() *)

\* notify_one or notify_all on emptyCV_, whose only waiter is threadLoop.
NotifyEmptyCV ==
  threadPc' = IF threadPc = "waiting" THEN "woken" ELSE threadPc

\* Mutant of Append1: the publisher notifies when the buffer was not empty.
Append1_WakeSwapped(p) ==
  /\ writeBuffer' = Append(writeBuffer, sequenceNumber)
  /\ sequenceNumber' = sequenceNumber + 1
  /\ publisherPc' = [publisherPc EXCEPT ![p] =
                       IF writeBuffer # <<>> THEN "notify" ELSE "idle"]

\* publish() from the point where the buffer is known to have room: append,
\* count, unlock.  The publisher notifies emptyCV_ iff the buffer was empty.
Append1(p) ==
  /\ writeBuffer' = Append(writeBuffer, sequenceNumber)
  /\ sequenceNumber' = sequenceNumber + 1
  /\ publisherPc' = [publisherPc EXCEPT ![p] =
                       IF writeBuffer = <<>> THEN "notify" ELSE "idle"]

\* A full buffer: the publisher blocks in fullCV_.wait, which releases the mutex.
BlockOnFull(p) ==
  /\ publisherPc' = [publisherPc EXCEPT ![p] = "waiting"]
  /\ UNCHANGED <<writeBuffer, sequenceNumber>>

EnterPublish(p) ==
  IF Len(writeBuffer) = Capacity THEN BlockOnFull(p) ELSE Append1(p)

\* A publisher that can still append counts against the bound when it enters.
InFlight == Cardinality({p \in Publishers : publisherPc[p] \in {"waiting", "woken"}})

\* Publishing is legal only while the owner keeps the bus alive; the XCHECK on
\* `done` in publish() states the same contract.
Publish(p) ==
  /\ publisherPc[p] = "idle"
  /\ ownerRef
  /\ sequenceNumber + InFlight <= MaxEvents
  /\ EnterPublish(p)
  /\ UNCHANGED <<done, subscriptions, subVars, hasSubscription, threadVars,
                 ownVars, histVars>>

\* fullCV_.wait returns to its predicate with the mutex held.
PublishWoken(p) ==
  /\ publisherPc[p] = "woken"
  /\ EnterPublish(p)
  /\ UNCHANGED <<done, subscriptions, subVars, hasSubscription, threadVars,
                 ownVars, histVars>>

PublishNotify(p) ==
  /\ publisherPc[p] = "notify"
  /\ publisherPc' = [publisherPc EXCEPT ![p] = "idle"]
  /\ NotifyEmptyCV
  /\ UNCHANGED <<stateVars, subVars, hasSubscription, readBuffer, lastObserved,
                 threadDone, toVisit, ownVars, histVars>>

-----------------------------------------------------------------------------
(* subscribe() and the subscription handle *)

Subscribe(s) ==
  /\ handle[s] = "none"
  /\ ownerRef
  /\ subscriptions' = subscriptions \union {s}
  /\ hasSubscription' = TRUE
  /\ handle' = [handle EXCEPT ![s] = "held"]
  /\ subscribedAt' = [subscribedAt EXCEPT ![s] = sequenceNumber]
  /\ UNCHANGED <<done, writeBuffer, sequenceNumber, subVars, threadVars,
                 publisherPc, ownerRef, dtorPc, observed, freed>>

\* Some shared_ptr keeps the bus alive: the owner's, or one that a handle
\* obtained from its weak_ptr.
StrongRefs == ownerRef \/ \E s \in Subs : handle[s] = "locked"

\* TraceSubscriptionHandle::unsubscribe, first half: bus_.lock().  Nothing more
\* happens when the bus has expired.
HandleLock(s) ==
  /\ handle[s] = "held"
  /\ handle' = [handle EXCEPT ![s] = IF StrongRefs THEN "locked" ELSE "dropped"]
  /\ UNCHANGED <<stateVars, subVars, hasSubscription, threadVars, publisherPc,
                 ownerRef, dtorPc, histVars>>

\* ... second half: TraceBus::unsubscribe under the mutex, then the temporary
\* shared_ptr is released.
Unsubscribe(s) ==
  /\ handle[s] = "locked"
  /\ unsubscribe' = [unsubscribe EXCEPT ![s] = sequenceNumber]
  /\ handle' = [handle EXCEPT ![s] = "dropped"]
  /\ UNCHANGED <<stateVars, hasThrownException, hasSubscription, threadVars,
                 publisherPc, ownerRef, dtorPc, histVars>>

-----------------------------------------------------------------------------
(* threadLoop() *)

\* Mutants of Deletable: the sequence number is not compared; off by one; the
\* test that unsubscription was requested at all is missing.
Deletable_IgnoresSequence == {s \in subscriptions : unsubscribe[s] # 0}
Deletable_OffByOne == {s \in subscriptions : unsubscribe[s] # 0 /\ unsubscribe[s] < lastObserved}
Deletable_WithoutRequest == {s \in subscriptions : unsubscribe[s] <= lastObserved}

\* Unsubscribed subscriptions that have seen every event published before the
\* request.
Deletable == {s \in subscriptions : unsubscribe[s] # 0 /\ unsubscribe[s] <= lastObserved}

WaitPredicate == done \/ writeBuffer # <<>>

\* The end of the critical section, once the predicate holds: swap, copy `done`
\* and read the head of the list `subs`.
SwapBuffers(subs) ==
  /\ readBuffer' = writeBuffer
  /\ writeBuffer' = readBuffer
  /\ threadDone' = done
  /\ toVisit' = subs
  /\ threadPc' = IF Len(writeBuffer) = Capacity THEN "notifyFull" ELSE "observe"

BlockOnEmpty ==
  /\ threadPc' = "waiting"
  /\ UNCHANGED <<readBuffer, writeBuffer, threadDone, toVisit>>

\* hasSubscription_ is cleared when the list `subs` is empty.
StoreHasSubscription(subs) ==
  hasSubscription' = IF subs = {} THEN FALSE ELSE hasSubscription

\* `while (!done)`: lock, delete, note the sequence number, then wait or swap.
ThreadTop ==
  /\ threadPc = "top"
  /\ ~threadDone
  /\ subscriptions' = subscriptions \ Deletable
  /\ freed' = freed \union Deletable
  /\ lastObserved' = sequenceNumber
  /\ StoreHasSubscription(subscriptions \ Deletable)
  /\ IF WaitPredicate THEN SwapBuffers(subscriptions \ Deletable) ELSE BlockOnEmpty
  /\ UNCHANGED <<done, sequenceNumber, subVars, publisherPc, ownVars,
                 subscribedAt, observed>>

\* emptyCV_.wait returns to its predicate with the mutex held.
ThreadWoken ==
  /\ threadPc = "woken"
  /\ IF WaitPredicate THEN SwapBuffers(subscriptions) ELSE BlockOnEmpty
  /\ UNCHANGED <<done, subscriptions, sequenceNumber, subVars, hasSubscription,
                 lastObserved, publisherPc, ownVars, histVars>>

\* Mutant of NotifyFullCV: notify_one in place of notify_all.
NotifyFullCV_One ==
  \/ \E p \in Publishers :
       publisherPc[p] = "waiting" /\ publisherPc' = [publisherPc EXCEPT ![p] = "woken"]
  \/ (\A p \in Publishers : publisherPc[p] # "waiting") /\ UNCHANGED publisherPc

\* fullCV_.notify_all()
NotifyFullCV ==
  publisherPc' = [p \in Publishers |->
                    IF publisherPc[p] = "waiting" THEN "woken" ELSE publisherPc[p]]

ThreadNotifyFull ==
  /\ threadPc = "notifyFull"
  /\ threadPc' = "observe"
  /\ NotifyFullCV
  /\ UNCHANGED <<stateVars, subVars, hasSubscription, readBuffer, lastObserved,
                 threadDone, toVisit, ownVars, histVars>>

\* One subscriber's turn: skipped when it has thrown before; observeBatch sees
\* the batch, or throws after a proper prefix of it.
Observe(s) ==
  /\ threadPc = "observe"
  /\ s \in toVisit
  /\ toVisit' = toVisit \ {s}
  /\ \/ /\ hasThrownException[s]
        /\ UNCHANGED <<observed, hasThrownException>>
     \/ /\ ~hasThrownException[s]
        /\ observed' = [observed EXCEPT ![s] = @ \o readBuffer]
        /\ UNCHANGED hasThrownException
     \/ /\ ~hasThrownException[s]
        /\ \E n \in 0 .. (Len(readBuffer) - 1) :
             observed' = [observed EXCEPT ![s] = @ \o SubSeq(readBuffer, 1, n)]
        /\ hasThrownException' = [hasThrownException EXCEPT ![s] = TRUE]
  /\ UNCHANGED <<stateVars, unsubscribe, hasSubscription, threadPc, readBuffer,
                 lastObserved, threadDone, publisherPc, ownVars, subscribedAt, freed>>

\* Mutant of ClearReadBuffer: the batch is not cleared before the next swap.
ClearReadBuffer_Missing == UNCHANGED readBuffer
ClearReadBuffer == readBuffer' = <<>>

\* readBuffer.clear(), and the loop ends once `done` was seen.
ThreadClear ==
  /\ threadPc = "observe"
  /\ toVisit = {}
  /\ ClearReadBuffer
  /\ threadPc' = IF threadDone THEN "exited" ELSE "top"
  /\ UNCHANGED <<stateVars, subVars, hasSubscription, lastObserved, threadDone,
                 toVisit, publisherPc, ownVars, histVars>>

-----------------------------------------------------------------------------
(* ~TraceBus() *)

\* The owner lets go of the bus, and by contract no publish() is running then.
OwnerRelease ==
  /\ ownerRef
  /\ \A p \in Publishers : publisherPc[p] = "idle"
  /\ ownerRef' = FALSE
  /\ UNCHANGED <<stateVars, subVars, hasSubscription, threadVars, publisherPc,
                 handle, dtorPc, histVars>>

\* The last shared_ptr is gone: state_.lock()->done = true.
DestroyBegin ==
  /\ dtorPc = "alive"
  /\ ~StrongRefs
  /\ done' = TRUE
  /\ dtorPc' = "notify"
  /\ UNCHANGED <<subscriptions, writeBuffer, sequenceNumber, subVars,
                 hasSubscription, threadVars, publisherPc, ownerRef, handle, histVars>>

DestroyNotify ==
  /\ dtorPc = "notify"
  /\ dtorPc' = "join"
  /\ NotifyEmptyCV
  /\ UNCHANGED <<stateVars, subVars, hasSubscription, readBuffer, lastObserved,
                 threadDone, toVisit, publisherPc, ownerRef, handle, histVars>>

\* thread_.join() returns and the remaining subscriptions are deleted.
DestroyJoin ==
  /\ dtorPc = "join"
  /\ threadPc = "exited"
  /\ dtorPc' = "destroyed"
  /\ freed' = freed \union subscriptions
  /\ subscriptions' = {}
  /\ UNCHANGED <<done, writeBuffer, sequenceNumber, subVars, hasSubscription,
                 threadVars, publisherPc, ownerRef, handle, subscribedAt, observed>>

-----------------------------------------------------------------------------
\* A condition variable may wake a waiter that nobody notified.
SpuriousWakeup ==
  \/ /\ threadPc = "waiting"
     /\ threadPc' = "woken"
     /\ UNCHANGED publisherPc
  \/ \E p \in Publishers :
       /\ publisherPc[p] = "waiting"
       /\ publisherPc' = [publisherPc EXCEPT ![p] = "woken"]
       /\ UNCHANGED threadPc

Spurious ==
  /\ SpuriousWakeup
  /\ UNCHANGED <<stateVars, subVars, hasSubscription, readBuffer, lastObserved,
                 threadDone, toVisit, ownVars, histVars>>

\* Everything is finished: the bus is destroyed and every handle is dropped.
Terminated ==
  /\ dtorPc = "destroyed"
  /\ \A s \in Subs : handle[s] \in {"none", "dropped"}
  /\ UNCHANGED vars

ThreadStep ==
  \/ ThreadTop
  \/ ThreadWoken
  \/ ThreadNotifyFull
  \/ \E s \in Subs : Observe(s)
  \/ ThreadClear

Next ==
  \/ \E p \in Publishers : Publish(p) \/ PublishWoken(p) \/ PublishNotify(p)
  \/ \E s \in Subs : Subscribe(s) \/ HandleLock(s) \/ Unsubscribe(s)
  \/ ThreadStep
  \/ OwnerRelease \/ DestroyBegin \/ DestroyNotify \/ DestroyJoin
  \/ Spurious
  \/ Terminated

\* Threads that are inside the code keep running; callbacks return.  Nobody is
\* obliged to start an operation and no spurious wakeup is promised.
Fairness ==
  /\ WF_vars(ThreadStep)
  /\ \A p \in Publishers : WF_vars(PublishWoken(p)) /\ WF_vars(PublishNotify(p))
  /\ \A s \in Subs : WF_vars(Unsubscribe(s))
  /\ WF_vars(DestroyBegin) /\ WF_vars(DestroyNotify) /\ WF_vars(DestroyJoin)

Spec == Init /\ [][Next]_vars
FairSpec == Spec /\ Fairness

-----------------------------------------------------------------------------
(* What the bus promises *)

Seen(s) == {observed[s][i] : i \in DOMAIN observed[s]}
BufferedFor(s) ==
  {writeBuffer[i] : i \in DOMAIN writeBuffer} \union
  (IF s \in toVisit THEN {readBuffer[i] : i \in DOMAIN readBuffer} ELSE {})

\* Events published between subscribe() and unsubscribe() (or now).
Promised(s) ==
  IF handle[s] = "none" THEN {}
  ELSE subscribedAt[s] .. ((IF unsubscribe[s] = 0 THEN sequenceNumber ELSE unsubscribe[s]) - 1)

\* "Events are always observed in the order in which they're published"
\* (TraceBus.h:206): across all batches a subscriber sees consecutive
\* events, none skipped, repeated or swapped by the double buffering.
EventsInOrder ==
  \A s \in Subs : \A i \in 1 .. (Len(observed[s]) - 1) :
    observed[s][i + 1] = observed[s][i] + 1

\* The bus is reliable: an event published while a subscription was in force is
\* observed by it or still buffered for it, unless the subscriber threw.  In
\* particular threadLoop deletes a subscription only after it has seen every
\* event published before its unsubscription, and the destructor leaves
\* nothing unobserved (TraceBus.h:187-190).
NoEventLost ==
  \A s \in Subs : ~hasThrownException[s] =>
    \A e \in Promised(s) :
      e \in Seen(s) \/ (s \in subscriptions /\ e \in BufferedFor(s))

\* TraceBus.h:251-256 on unsubscribe(): "the corresponding subscriber may still be called with
\* pending events by the background thread, but it is guaranteed the subscriber will not see any
\* events published after unsubscribe() returns."
UnsubscribeIsFinal ==
  \A s \in Subs : unsubscribe[s] # 0 => \A e \in Seen(s) : e < unsubscribe[s]

\* What threadLoop does keep of that guarantee: a subscriber that is "called a few more
\* times" (TraceBus.h:211-212) sees at most the rest of one batch and one more full batch
\* of events published after its unsubscribe().
BoundedOvershoot ==
  \A s \in Subs : unsubscribe[s] # 0 =>
    \A e \in Seen(s) : e < unsubscribe[s] + (2 * Capacity - 1)

\* The memory of a Subscription is not touched after it was deleted: neither by
\* the unlocked traversal in threadLoop nor through a handle of a live bus.
NoUseAfterFree ==
  /\ toVisit \intersect freed = {}
  /\ \A s \in freed : handle[s] = "dropped" \/ dtorPc = "destroyed"

\* Nobody sleeps through its condition: notifications are sent after the
\* unlock and only on the transitions empty -> nonempty and full -> swapped, so
\* whenever a waiter could run, a notification for it is still to come.
NoLostWakeup ==
  /\ (threadPc = "waiting" /\ WaitPredicate) =>
       dtorPc = "notify" \/ \E p \in Publishers : publisherPc[p] = "notify"
  /\ (\E p \in Publishers : publisherPc[p] = "waiting") =>
       Len(writeBuffer) = Capacity \/ threadPc = "notifyFull"

\* hasSubscription() never denies a subscription that is in the list, although
\* it is written by subscribe() and by threadLoop.
HasSubscriptionSound == subscriptions # {} => hasSubscription

\* Every event promised to a subscriber that does not throw reaches it.
EventsDelivered ==
  \A s \in Subs : \A e \in 1 .. MaxEvents :
    (e \in Promised(s)) ~> (e \in Seen(s) \/ hasThrownException[s])

\* A publisher blocked on a full buffer is woken when the buffer is taken.
BlockedPublisherWoken ==
  \A p \in Publishers : (publisherPc[p] = "waiting") ~> (publisherPc[p] # "waiting")

\* The destructor terminates, whatever was buffered and wherever the thread was.
DestructorReturns == (dtorPc = "notify") ~> (dtorPc = "destroyed")

\* Subscriptions end where they should (TraceBus-inl.h:151-185), seen from both sides: a
\* publisher is not told that there is no subscription while one is in the list, and a
\* subscriber that has unsubscribed is called for a bounded number of later events.  (That it
\* is called for none is UnsubscribeIsFinal, which does not hold.)
SubscriptionsSound == HasSubscriptionSound /\ BoundedOvershoot

\* TraceBus-inl.h:46-86, 136-226: every promised event is delivered, every blocked publisher
\* goes on, and the destructor returns.
BusProgress == EventsDelivered /\ BlockedPublisherWoken /\ DestructorReturns
=============================================================================
