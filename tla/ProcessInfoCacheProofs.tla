----------------------- MODULE ProcessInfoCacheProofs -----------------------
(* Invariants of ProcessInfoCache for every finite set of callers and pids. *)
EXTENDS ProcessInfoCache, FiniteSetTheorems, TLAPS

\* The arguments an action relies on: a pid inside lookup() and add(), a pending
\* get in the second half of a round, and a batch only in the first half.
Args ==
  /\ \A t \in Threads : pc[t] \in {"lookup", "addRead", "addWrite"} => argPid[t] \in Pids
  /\ workerPc \in {"collect", "answer"} => gets # <<>>
  /\ workerPc \notin {"tryWait", "read"} => batch = <<>>

LEMMA EatCountsBounded ==
  ASSUME CacheTypeOK
  PROVE  /\ EatCounts \in Nat /\ EatCounts <= sem
         /\ Taken = 0 => EatCounts = 0
         /\ Taken # 0 => EatCounts <= Taken - 1
<1>1. Taken \in Nat
  BY DEF CacheTypeOK, Taken
<1> QED
  BY <1>1 DEF EatCounts, CacheTypeOK

LEMMA MapSizeType ==
  Cardinality({p \in Pids : infos[p] # None}) \in Nat
BY FiniteAssumption, FS_Subset, FS_CardinalityType DEF FiniteAssumption

CallerPc == {"idle", "lookup", "addRead", "addWrite", "post", "postGetAll", "getAll", "get"}

CallTypes ==
  /\ pc \in [Threads -> CallerPc]
  /\ argPid \in [Threads -> Pids \union {None}]
  /\ argNow \in [Threads -> Nat]
  /\ answered \subseteq Threads

LEMMA CallTyped ==
  ASSUME CacheTypeOK, NEW t \in Threads, NEW where \in CallerPc, NEW pid \in Pids,
         Call(t, where, pid)
  PROVE  CallTypes'
<1> USE DEF CacheTypeOK, Call, CallTypes, CallerPc
<1>1. argNow' \in [Threads -> Nat]
  OBVIOUS
<1>2. argPid' \in [Threads -> Pids \union {None}]
  OBVIOUS
<1> QED
  BY <1>1, <1>2

LEMMA GotoTyped ==
  ASSUME CacheTypeOK, NEW t \in Threads, NEW where \in CallerPc, Goto(t, where)
  PROVE  CallTypes'
BY DEF CacheTypeOK, Goto, CallTypes, CallerPc

LEMMA EnqueueTyped ==
  ASSUME CacheTypeOK, NEW t \in Threads, NEW n \in Nodes, Enqueue(t, n)
  PROVE  /\ infos' \in [Pids -> NodeOrNone]
         /\ lookupQueue' \in Seq(Nodes)
         /\ pidOf' \in [Nodes -> Pids \union {None}]
         /\ lastAccess' \in [Nodes -> Nat]
         /\ threadLocal' \in [Threads -> [Pids -> NodeOrNone]]
         /\ pc' \in [Threads -> {"idle", "lookup", "addRead", "addWrite", "post",
                                 "postGetAll", "getAll", "get"}]
         /\ argPid' \in [Threads -> Pids \union {None}] /\ argNow' \in [Threads -> Nat]
         /\ UNCHANGED <<promise, getAllQueue, workerThreadShouldStop, answered>>
<1>1. threadLocal' \in [Threads -> [Pids -> NodeOrNone]]
  BY DEF Enqueue, CacheTypeOK, NodeOrNone
<1> QED
  BY <1>1 DEF Enqueue, CacheTypeOK, NodeOrNone, RecordAccess, Goto

LEMMA TypePreserved ==
  ASSUME CacheTypeOK, Args, [CacheNext]_cacheVars PROVE CacheTypeOK'
<1> USE DEF CacheTypeOK, Args, lockedVars, nodeVars, workerVars, callVars, holderVars, envVars, NodeOrNone,
            CallTypes, CallerPc
<1>1. ASSUME NEW t \in Threads, NEW pid \in Pids, LookupLocal(t, pid) PROVE CacheTypeOK'
  BY <1>1 DEF LookupLocal, MayCall, RecordAccess
<1>2. ASSUME NEW t \in Threads, NEW pid \in Pids, LookupMiss(t, pid) \/ AddMiss(t, pid)
      PROVE  CacheTypeOK'
  <2>1. CallTypes'
    BY <1>2, CallTyped DEF LookupMiss, AddMiss
  <2> QED
    BY <1>2, <2>1 DEF LookupMiss, AddMiss
<1>3. ASSUME NEW t \in Threads, LookupLocked(t) PROVE CacheTypeOK'
  <2>1. CASE infos[argPid[t]] # None
    <3>1. CallTypes'
      BY <1>3, <2>1, GotoTyped DEF LookupLocked
    <3>2. infoHandle' \in [Threads -> NodeOrNone]
      BY <1>3, <2>1 DEF LookupLocked
    <3> QED
      BY <1>3, <2>1, <3>1, <3>2 DEF LookupLocked
  <2>2. CASE infos[argPid[t]] = None
    <3>1. PICK n \in Nodes : Enqueue(t, n) /\ infoHandle' = [infoHandle EXCEPT ![t] = n]
      BY <1>3, <2>2 DEF LookupLocked
    <3>2. infoHandle' \in [Threads -> NodeOrNone]
      BY <3>1
    <3> QED
      BY <1>3, <3>1, <3>2, EnqueueTyped DEF LookupLocked
  <2> QED
    BY <2>1, <2>2
<1>4. ASSUME NEW t \in Threads, AddRead(t) PROVE CacheTypeOK'
  <2>1. CASE AddHit(t)
    <3>1. CallTypes'
      BY <2>1, GotoTyped DEF AddHit
    <3> QED
      BY <1>4, <2>1, <3>1 DEF AddRead, AddHit, RecordAccess
  <2>2. CASE ~AddHit(t)
    BY <1>4, <2>2 DEF AddRead
  <2> QED
    BY <2>1, <2>2
<1>5. ASSUME NEW t \in Threads, AddWrite(t) PROVE CacheTypeOK'
  <2>1. CASE AddHit(t)
    <3>1. CallTypes'
      BY <2>1, GotoTyped DEF AddHit
    <3> QED
      BY <1>5, <2>1, <3>1 DEF AddWrite, AddHit, RecordAccess
  <2>2. CASE \E n \in Nodes : Enqueue(t, n)
    BY <1>5, <2>2, EnqueueTyped DEF AddWrite
  <2> QED
    BY <1>5, <2>1, <2>2 DEF AddWrite
<1>6. ASSUME NEW t \in Threads, GetAll(t) PROVE CacheTypeOK'
  <2>1. CallTypes'
    BY <1>6, GotoTyped DEF GetAll
  <2>2. Cached \subseteq Nodes
    BY DEF Cached
  <2>3. atRequest' \in [Threads -> SUBSET Nodes]
    BY <1>6, <2>2 DEF GetAll
  <2> QED
    BY <1>6, <2>1, <2>3 DEF GetAll
<1>7. ASSUME NEW t \in Threads, Post(t) PROVE CacheTypeOK'
  <2>1. CallTypes'
    BY <1>7, GotoTyped DEF Post
  <2> QED
    BY <1>7, <2>1 DEF Post
<1>8. ASSUME NEW t \in Threads, GetAllReturn(t) PROVE CacheTypeOK'
  BY <1>8 DEF GetAllReturn
<1>9. ASSUME NEW t \in Threads, HandleGet(t) PROVE CacheTypeOK'
  <2>1. CallTypes'
    BY <1>9, GotoTyped DEF HandleGet
  <2> QED
    BY <1>9, <2>1 DEF HandleGet, RecordAccess
<1>10. ASSUME NEW t \in Threads, HandleGetReturn(t) \/ HandleDrop(t) PROVE CacheTypeOK'
  <2>1. CallTypes'
    BY <1>10, GotoTyped DEF HandleGetReturn, HandleDrop
  <2>2. infoHandle' \in [Threads -> NodeOrNone]
    BY <1>10 DEF HandleGetReturn, HandleDrop
  <2> QED
    BY <1>10, <2>1, <2>2 DEF HandleGetReturn, HandleDrop
<1>11. CASE WorkerWait
  BY <1>11 DEF WorkerWait
<1>12. CASE WorkerLock
  <2>1. CASE workerThreadShouldStop
    BY <1>12, <2>1 DEF WorkerLock
  <2>2. CASE ~workerThreadShouldStop
    <3>1. /\ lookupQueue' \in Seq(Nodes) /\ getAllQueue' \in Seq(Threads)
          /\ batch' \in Seq(Nodes) /\ gets' \in Seq(Threads)
      BY <1>12, <2>2 DEF WorkerLock, TakeQueues
    <3> QED
      BY <1>12, <2>2, <3>1, MapSizeType DEF WorkerLock
  <2> QED
    BY <2>1, <2>2
<1>13. CASE WorkerTryWait
  BY <1>13, EatCountsBounded, SMTT(30) DEF WorkerTryWait
<1>14. CASE WorkerRead
  BY <1>14 DEF WorkerRead
<1>15. CASE WorkerReadDone
  BY <1>15 DEF WorkerReadDone, Forget, AfterPrune
<1>16. CASE WorkerPrune
  BY <1>16 DEF WorkerPrune, Forget, AfterPrune, Unexpired
<1>17. CASE WorkerCollect
  BY <1>17 DEF WorkerCollect, Unexpired
<1>18. CASE WorkerAnswer
  BY <1>18 DEF WorkerAnswer, Forget
<1>19. CASE CacheDestroyBegin \/ CacheDestroyPost
  <2>1. CASE CacheDestroyBegin
    BY <2>1 DEF CacheDestroyBegin
  <2>2. CASE CacheDestroyPost
    <3>1. sem' \in Nat
      BY <2>2 DEF CacheDestroyPost, StopPost
    <3> QED
      BY <2>2, <3>1 DEF CacheDestroyPost
  <2> QED
    BY <1>19, <2>1, <2>2
<1>20. CASE CacheDestroyJoin
  BY <1>20 DEF CacheDestroyJoin
<1>21. CASE Tick
  BY <1>21 DEF Tick
<1>22. ASSUME UNCHANGED cacheVars PROVE CacheTypeOK'
  BY <1>22 DEF cacheVars
<1> QED
  BY <1>1, <1>2, <1>3, <1>4, <1>5, <1>6, <1>7, <1>8, <1>9, <1>10, <1>11, <1>12, <1>13,
     <1>14, <1>15, <1>16, <1>17, <1>18, <1>19, <1>20, <1>21, <1>22
     DEF CacheNext, CallerStep, WorkerStep, AddLocal, CacheTerminated


LEMMA ArgsPreserved ==
  ASSUME CacheTypeOK, Args, [CacheNext]_cacheVars PROVE Args'
<1> USE DEF Args, lockedVars, nodeVars, workerVars, callVars, holderVars, envVars
<1> DEFINE Inside == {"lookup", "addRead", "addWrite"}
<1> DEFINE ArgsOK == \A t \in Threads : pc[t] \in Inside => argPid[t] \in Pids
<1> DEFINE Phases == /\ workerPc \in {"collect", "answer"} => gets # <<>>
                     /\ workerPc \notin {"tryWait", "read"} => batch = <<>>
<1> DEFINE WorkerIdle == UNCHANGED <<workerPc, gets, batch>>
<1> DEFINE CallersIdle == UNCHANGED <<pc, argPid>>
<1>1. ASSUME CallersIdle PROVE ArgsOK'
  BY <1>1
<1>2. ASSUME WorkerIdle PROVE Phases'
  BY <1>2
<1>3. ASSUME NEW t \in Threads, CallerStep(t) PROVE ArgsOK'
  <2>1. CASE \E where : where \notin Inside /\ pc' = [pc EXCEPT ![t] = where]
                        /\ \A u \in Threads : u # t => argPid'[u] = argPid[u]
    BY <2>1 DEF CacheTypeOK
  <2>2. ASSUME NEW where, where \notin Inside, Goto(t, where)
        PROVE  \E w : w \notin Inside /\ pc' = [pc EXCEPT ![t] = w]
                      /\ \A u \in Threads : u # t => argPid'[u] = argPid[u]
    BY <2>2 DEF Goto, CacheTypeOK
  <2>3. ASSUME NEW pid \in Pids, LookupMiss(t, pid) \/ AddMiss(t, pid) PROVE ArgsOK'
    BY <2>3 DEF LookupMiss, AddMiss, Call, CacheTypeOK
  <2>4. ASSUME NEW pid \in Pids, LookupLocal(t, pid) \/ AddLocal(t, pid) PROVE ArgsOK'
    BY <2>4, <1>1 DEF LookupLocal, AddLocal, cacheVars
  <2>5. CASE LookupLocked(t)
    BY <2>1, <2>2, <2>5 DEF LookupLocked, Enqueue
  <2>6. CASE AddRead(t)
    <3>1. CASE AddHit(t)
      BY <2>1, <2>2, <3>1 DEF AddHit
    <3>2. CASE pc' = [pc EXCEPT ![t] = "addWrite"] /\ UNCHANGED argPid
      BY <2>6, <3>2 DEF AddRead, CacheTypeOK
    <3> QED
      BY <2>6, <3>1, <3>2 DEF AddRead
  <2>7. CASE AddWrite(t)
    BY <2>1, <2>2, <2>7 DEF AddWrite, AddHit, Enqueue
  <2>8. CASE GetAll(t) \/ Post(t) \/ HandleGetReturn(t)
    BY <2>1, <2>2, <2>8 DEF GetAll, Post, HandleGetReturn
  <2>9. CASE GetAllReturn(t)
    BY <2>1, <2>9 DEF GetAllReturn
  <2>10. CASE HandleGet(t)
    BY <1>1, <2>1, <2>2, <2>10 DEF HandleGet
  <2>11. CASE HandleDrop(t)
    BY <1>1, <2>11 DEF HandleDrop
  <2> QED
    BY <1>3, <2>3, <2>4, <2>5, <2>6, <2>7, <2>8, <2>9, <2>10, <2>11 DEF CallerStep
<1>4. ASSUME NEW t \in Threads, CallerStep(t) PROVE WorkerIdle
  BY <1>4 DEF CallerStep, LookupLocal, LookupMiss, AddLocal, AddMiss, LookupLocked, AddRead,
     AddWrite, GetAll, Post, GetAllReturn, HandleGet, HandleGetReturn, HandleDrop, cacheVars
<1>5. ASSUME WorkerStep PROVE CallersIdle
  BY <1>5 DEF WorkerStep, WorkerWait, WorkerLock, WorkerTryWait, WorkerRead, WorkerReadDone,
     WorkerPrune, WorkerCollect, WorkerAnswer
<1>6. ASSUME WorkerStep PROVE Phases'
  <2>1. CASE WorkerWait \/ WorkerLock \/ WorkerTryWait \/ WorkerRead
    BY <2>1 DEF WorkerWait, WorkerLock, WorkerTryWait, WorkerRead
  <2>2. CASE WorkerReadDone \/ WorkerPrune \/ WorkerCollect
    BY <2>2 DEF WorkerReadDone, WorkerPrune, WorkerCollect, Forget, AfterPrune
  <2>3. CASE WorkerAnswer
    <3>1. gets \in Seq(Threads) /\ gets # <<>>
      BY <2>3 DEF WorkerAnswer, CacheTypeOK
    <3>2. Len(Tail(gets)) = Len(gets) - 1 /\ Len(gets) \in Nat
      BY <3>1
    <3>3. ASSUME Len(gets) # 1, Tail(gets) = <<>> PROVE FALSE
      <4>1. Len(<<>>) = 0
        OBVIOUS
      <4>2. Len(Tail(gets)) = 0
        BY <3>3, <4>1, Zenon
      <4> QED
        BY <3>2, <3>3, <4>2
    <3> QED
      BY <2>3, <3>3 DEF WorkerAnswer, Forget
  <2> QED
    BY <1>6, <2>1, <2>2, <2>3 DEF WorkerStep
<1>7. CASE CacheDestroyBegin \/ CacheDestroyPost \/ CacheDestroyJoin \/ Tick \/ UNCHANGED cacheVars
  BY <1>1, <1>2, <1>7 DEF CacheDestroyBegin, CacheDestroyPost, CacheDestroyJoin, Tick, cacheVars
<1> QED
  BY <1>1, <1>2, <1>3, <1>4, <1>5, <1>6, <1>7 DEF CacheNext, CacheTerminated

LEMMA InitTyped == CacheInit => CacheTypeOK /\ Args
<1> SUFFICES ASSUME CacheInit PROVE CacheTypeOK /\ Args
  OBVIOUS
<1> USE DEF CacheInit, NodeOrNone
<1>1. infos \in [Pids -> NodeOrNone] /\ threadLocal \in [Threads -> [Pids -> NodeOrNone]]
  OBVIOUS
<1>2. <<>> \in Seq(Nodes) /\ <<>> \in Seq(Threads)
  OBVIOUS
<1>3. /\ sem \in Nat /\ namesSize \in Nat /\ waterLevel \in Nat /\ workerNow \in Nat
      /\ clock \in Nat /\ lastAccess \in [Nodes -> Nat] /\ argNow \in [Threads -> Nat]
  OBVIOUS
<1>4. /\ pidOf \in [Nodes -> Pids \union {None}] /\ argPid \in [Threads -> Pids \union {None}]
      /\ infoHandle \in [Threads -> NodeOrNone] /\ atRequest \in [Threads -> SUBSET Nodes]
      /\ promise \in [Nodes -> {"unset", "value", "error"}]
      /\ answer \subseteq Nodes /\ answered \subseteq Threads
  OBVIOUS
<1>5. pc \in [Threads -> {"idle", "lookup", "addRead", "addWrite", "post",
                          "postGetAll", "getAll", "get"}]
  OBVIOUS
<1>6. /\ workerThreadShouldStop \in BOOLEAN
      /\ workerPc \in {"wait", "lock", "tryWait", "read", "prune", "collect", "answer", "exited"}
      /\ cacheDtorPc \in {"alive", "post", "join", "destroyed"}
  BY Zenon
<1>7. CacheTypeOK
  BY <1>1, <1>2, <1>3, <1>4, <1>5, <1>6, Zenon DEF CacheTypeOK
<1>8. Args
  BY DEF Args
<1> QED
  BY <1>7, <1>8

\* ProcessInfoCache is type correct: in particular tryWait() never takes a count
\* the semaphore does not have.
THEOREM TypeCorrect == CacheSpec => [](CacheTypeOK /\ Args)
<1>1. CacheTypeOK /\ Args /\ [CacheNext]_cacheVars => (CacheTypeOK /\ Args)'
  BY TypePreserved, ArgsPreserved
<1> QED
  BY <1>1, InitTyped, PTL DEF CacheSpec
-----------------------------------------------------------------------------
(* The semaphore *)

\* What the worker still has to be woken for, and by how much the counts that
\* are posted or on their way exceed it.
Demand == Len(lookupQueue) + Len(getAllQueue) + (IF workerThreadShouldStop THEN 1 ELSE 0)
Surplus == sem + Unposted - Demand

\* After wait() took a count the surplus may be one short, and when the queues
\* have been taken it covers all that tryWait() may eat.
Credits ==
  /\ workerPc \in {"wait", "read", "prune", "collect", "answer"} => Surplus >= 0
  /\ workerPc = "lock" => Surplus >= -1
  /\ workerPc = "tryWait" => Surplus >= (IF Taken = 0 THEN 0 ELSE Taken - 1)

Posting == {"post", "postGetAll"}

LEMMA UnpostedType ==
  /\ IsFiniteSet(UnpostedBy)
  /\ Cardinality(UnpostedBy) \in Nat
  /\ IsFiniteSet(UnpostedBy')
  /\ Cardinality(UnpostedBy') \in Nat
<1>1. UnpostedBy \in SUBSET Threads /\ UnpostedBy' \in SUBSET Threads
  BY DEF UnpostedBy
<1> QED
  BY <1>1, FiniteAssumption, FS_Subset, FS_CardinalityType DEF FiniteAssumption

LEMMA SurplusType ==
  ASSUME CacheTypeOK
  PROVE  Demand \in Nat /\ Unposted \in Nat /\ Surplus \in Int
<1>1. Demand \in Nat
  BY DEF CacheTypeOK, Demand
<1>2. Unposted \in Nat
  BY UnpostedType DEF Unposted
<1> QED
  BY <1>1, <1>2 DEF CacheTypeOK, Surplus

LEMMA NextSurplusType ==
  ASSUME CacheTypeOK' PROVE Surplus' \in Int
<1>1. Demand' \in Nat
  BY DEF CacheTypeOK, Demand
<1>2. Unposted' \in Nat
  BY UnpostedType DEF Unposted
<1> QED
  BY <1>1, <1>2 DEF CacheTypeOK, Surplus

\* A caller that moves between the places before and after its post.
LEMMA UnpostedStep ==
  ASSUME CacheTypeOK, NEW t \in Threads, NEW where, pc' = [pc EXCEPT ![t] = where]
  PROVE  Cardinality(UnpostedBy') =
           Cardinality(UnpostedBy) + (IF where \in Posting THEN 1 ELSE 0)
                                   - (IF pc[t] \in Posting THEN 1 ELSE 0)
<1> USE UnpostedType
<1>1. /\ (t \in UnpostedBy) <=> (pc[t] \in Posting)
      /\ (t \in UnpostedBy') <=> (where \in Posting)
  BY DEF UnpostedBy, Posting, CacheTypeOK
<1>2. \A u \in Threads : u # t => pc'[u] = pc[u]
  BY DEF CacheTypeOK
<1>3. /\ where \in Posting => UnpostedBy' = UnpostedBy \union {t}
      /\ where \notin Posting => UnpostedBy' = UnpostedBy \ {t}
  BY <1>1, <1>2 DEF UnpostedBy
<1>4. CASE where \in Posting
  <2>1. Cardinality(UnpostedBy') =
          IF t \in UnpostedBy THEN Cardinality(UnpostedBy) ELSE Cardinality(UnpostedBy) + 1
    BY <1>3, <1>4, FS_AddElement
  <2> QED
    BY <1>1, <1>4, <2>1
<1>5. CASE where \notin Posting
  <2>1. Cardinality(UnpostedBy') =
          IF t \in UnpostedBy THEN Cardinality(UnpostedBy) - 1 ELSE Cardinality(UnpostedBy)
    BY <1>3, <1>5, FS_RemoveElement
  <2> QED
    BY <1>1, <1>5, <2>1
<1> QED
  BY <1>4, <1>5

\* No caller makes the surplus smaller: a request and the duty to post it are
\* created in one critical section.
LEMMA CallerSurplus ==
  ASSUME CacheTypeOK, CacheTypeOK', NEW t \in Threads, CallerStep(t)
  PROVE  Surplus' = Surplus
<1> DEFINE C == Cardinality(UnpostedBy)
<1>0. C \in Nat /\ C' \in Nat /\ sem \in Nat /\ sem' \in Nat
  BY UnpostedType DEF CacheTypeOK
<1>s. ASSUME NEW where, pc' = [pc EXCEPT ![t] = where]
      PROVE  C' = C + (IF where \in Posting THEN 1 ELSE 0) - (IF pc[t] \in Posting THEN 1 ELSE 0)
  BY <1>s, UnpostedStep
<1> HIDE DEF C
<1>1. ASSUME UNCHANGED <<sem, pc, lookupQueue, getAllQueue, workerThreadShouldStop, cacheDtorPc>>
      PROVE  Surplus' = Surplus
  <2>1. UnpostedBy' = UnpostedBy
    BY <1>1 DEF UnpostedBy
  <2> QED
    BY <1>1, <2>1 DEF Surplus, Demand, Unposted
<1>2. ASSUME UNCHANGED <<sem, lookupQueue, getAllQueue, workerThreadShouldStop, cacheDtorPc>>,
             NEW where, where \notin Posting, pc[t] \notin Posting,
             pc' = [pc EXCEPT ![t] = where]
      PROVE  Surplus' = Surplus
  <2>0. C' = C + (IF where \in Posting THEN 1 ELSE 0) - (IF pc[t] \in Posting THEN 1 ELSE 0)
    BY <1>2, <1>s
  <2>1. C' = C
    BY <1>0, <1>2, <2>0
  <2> QED
    BY <1>2, <2>1 DEF Surplus, Demand, Unposted, C
<1>3. ASSUME NEW n \in Nodes, Enqueue(t, n), UNCHANGED <<sem, cacheDtorPc>>, pc[t] \notin Posting
      PROVE  Surplus' = Surplus
  <2>0. pc' = [pc EXCEPT ![t] = "post"]
    BY <1>3 DEF Enqueue, Goto
  <2>a. C' = C + (IF "post" \in Posting THEN 1 ELSE 0) - (IF pc[t] \in Posting THEN 1 ELSE 0)
    BY <2>0, <1>s
  <2>1. C' = C + 1
    BY <1>0, <1>3, <2>a DEF Posting
  <2>2. Len(lookupQueue') = Len(lookupQueue) + 1 /\ Len(lookupQueue) \in Nat
    BY <1>3 DEF Enqueue, CacheTypeOK
  <2>3. UNCHANGED <<getAllQueue, workerThreadShouldStop>> /\ Len(getAllQueue) \in Nat
    BY <1>3 DEF Enqueue, CacheTypeOK
  <2>4. Unposted' = Unposted + 1 /\ Unposted \in Nat
    BY <1>0, <1>3, <2>1 DEF Unposted, C
  <2>5. Demand' = Demand + 1 /\ Demand \in Nat
    BY <2>2, <2>3 DEF Demand
  <2> QED
    BY <1>0, <1>3, <2>4, <2>5 DEF Surplus
<1> USE DEF lockedVars, nodeVars, workerVars, callVars, holderVars, envVars, Posting
<1>4. ASSUME NEW pid \in Pids, LookupLocal(t, pid) \/ AddLocal(t, pid) PROVE Surplus' = Surplus
  BY <1>1, <1>4 DEF LookupLocal, AddLocal, cacheVars
<1>5. ASSUME NEW pid \in Pids, LookupMiss(t, pid) \/ AddMiss(t, pid) PROVE Surplus' = Surplus
  BY <1>2, <1>5 DEF LookupMiss, AddMiss, Call, MayCall
<1>6. CASE LookupLocked(t)
  BY <1>2, <1>3, <1>6 DEF LookupLocked, Goto
<1>7. CASE AddRead(t)
  BY <1>2, <1>7 DEF AddRead, AddHit, Goto
<1>8. CASE AddWrite(t)
  BY <1>2, <1>3, <1>8 DEF AddWrite, AddHit, Goto
<1>9. CASE GetAll(t)
  <2>0. pc' = [pc EXCEPT ![t] = "postGetAll"] /\ pc[t] = "idle"
    BY <1>9 DEF GetAll, Goto, MayCall
  <2>a. C' = C + (IF "postGetAll" \in Posting THEN 1 ELSE 0) - (IF pc[t] \in Posting THEN 1 ELSE 0)
    BY <2>0, <1>s
  <2>1. C' = C + 1
    BY <1>0, <2>0, <2>a
  <2>2. Len(getAllQueue') = Len(getAllQueue) + 1 /\ Len(getAllQueue) \in Nat
    BY <1>9 DEF GetAll, CacheTypeOK
  <2>3. UNCHANGED <<lookupQueue, workerThreadShouldStop, sem, cacheDtorPc>> /\ Len(lookupQueue) \in Nat
    BY <1>9 DEF GetAll, CacheTypeOK
  <2>4. Unposted' = Unposted + 1 /\ Unposted \in Nat
    BY <1>0, <2>3, <2>1 DEF Unposted, C
  <2>5. Demand' = Demand + 1 /\ Demand \in Nat
    BY <2>2, <2>3 DEF Demand
  <2> QED
    BY <1>0, <2>3, <2>4, <2>5 DEF Surplus
<1>10. CASE Post(t)
  <2>0. PICK where \in {"idle", "getAll"} : pc' = [pc EXCEPT ![t] = where]
    BY <1>10 DEF Post, Goto
  <2>a. C' = C + (IF where \in Posting THEN 1 ELSE 0) - (IF pc[t] \in Posting THEN 1 ELSE 0)
    BY <2>0, <1>s
  <2>b. pc[t] \in Posting
    BY <1>10 DEF Post
  <2>1. C' = C - 1
    BY <1>0, <2>a, <2>b
  <2>2. sem' = sem + 1 /\ cacheDtorPc' = cacheDtorPc /\ Demand' = Demand
    BY <1>10 DEF Post, Demand
  <2>3. Unposted' = Unposted - 1 /\ Unposted \in Nat
    BY <1>0, <2>1, <2>2 DEF Unposted, C
  <2> QED
    BY <1>0, <2>2, <2>3, SurplusType DEF Surplus
<1>11. CASE GetAllReturn(t) \/ HandleGetReturn(t)
  BY <1>2, <1>11 DEF GetAllReturn, HandleGetReturn, Goto
<1>12. CASE HandleGet(t)
  BY <1>1, <1>2, <1>12 DEF HandleGet, Goto
<1>13. CASE HandleDrop(t)
  BY <1>1, <1>13 DEF HandleDrop
<1> QED
  BY <1>4, <1>5, <1>6, <1>7, <1>8, <1>9, <1>10, <1>11, <1>12, <1>13 DEF CallerStep

LEMMA TakeOne ==
  ASSUME NEW a \in Int, NEW b \in Int, b = a - 1, a >= 0 PROVE b >= -1
OBVIOUS

LEMMA TakeAll ==
  ASSUME NEW a \in Int, NEW b \in Int, NEW n \in Nat, b = a + n, b >= 0, a >= -1
  PROVE  b >= (IF n = 0 THEN 0 ELSE n - 1)
OBVIOUS

LEMMA StopCovered ==
  ASSUME NEW s \in Nat, NEW u \in Nat, NEW d \in Nat, NEW e \in Nat, e <= d + 1
  PROVE  s + (u + 1) - e >= s + u - d
OBVIOUS

LEMMA CreditsPreserved ==
  ASSUME CacheTypeOK, Args, Credits, [CacheNext]_cacheVars PROVE Credits'
<1>0. CacheTypeOK'
  BY TypePreserved
<1>t. sem \in Nat /\ Demand \in Nat /\ Unposted \in Nat
  BY SurplusType DEF CacheTypeOK
<1>1. Surplus \in Int /\ Surplus' \in Int /\ Taken \in Nat
  <2>1. Surplus \in Int
    BY SurplusType
  <2>2. Surplus' \in Int
    BY <1>0, NextSurplusType
  <2>3. Taken \in Nat
    BY DEF CacheTypeOK, Taken
  <2> QED
    BY <2>1, <2>2, <2>3
<1>2. ASSUME Surplus' >= Surplus, UNCHANGED <<workerPc, batch, gets>> PROVE Credits'
  <2>1. Taken' = Taken
    BY <1>2 DEF Taken
  <2>2. ASSUME NEW k \in Int, Surplus >= k PROVE Surplus' >= k
    BY <1>1, <1>2, <2>2
  <2>3. ASSUME workerPc \in {"wait", "read", "prune", "collect", "answer"} PROVE Surplus' >= 0
    BY <2>2, <2>3 DEF Credits
  <2>4. ASSUME workerPc = "lock" PROVE Surplus' >= -1
    <3>1. Surplus >= -1 /\ -1 \in Int
      BY <2>4 DEF Credits
    <3> QED
      BY <2>2, <3>1
  <2>5. ASSUME workerPc = "tryWait" PROVE Surplus' >= (IF Taken' = 0 THEN 0 ELSE Taken' - 1)
    <3>1. (IF Taken = 0 THEN 0 ELSE Taken - 1) \in Int
      BY <1>1
    <3> QED
      BY <2>1, <2>2, <2>5, <3>1 DEF Credits
  <2> QED
    BY <1>2, <2>3, <2>4, <2>5 DEF Credits
<1> USE DEF lockedVars, nodeVars, workerVars, callVars, holderVars, envVars
<1>3. ASSUME NEW t \in Threads, CallerStep(t) PROVE Credits'
  <2>1. UNCHANGED <<workerPc, batch, gets>>
    BY <1>3 DEF CallerStep, LookupLocal, LookupMiss, AddLocal, AddMiss, LookupLocked, AddRead,
       AddWrite, GetAll, Post, GetAllReturn, HandleGet, HandleGetReturn, HandleDrop, cacheVars
  <2>2. Surplus' = Surplus
    BY <1>0, <1>3, CallerSurplus
  <2> QED
    BY <1>1, <1>2, <2>1, <2>2
<1>4. ASSUME UNCHANGED <<pc, cacheDtorPc>> PROVE Unposted' = Unposted
  <2>1. UnpostedBy' = UnpostedBy
    BY <1>4 DEF UnpostedBy
  <2> QED
    BY <1>4, <2>1 DEF Unposted
<1>5. ASSUME UNCHANGED <<lookupQueue, getAllQueue, workerThreadShouldStop>> PROVE Demand' = Demand
  BY <1>5 DEF Demand
<1>6. CASE WorkerWait
  <2>1. Unposted' = Unposted /\ Demand' = Demand /\ sem' = sem - 1
    BY <1>4, <1>5, <1>6 DEF WorkerWait
  <2>2. Surplus' = Surplus - 1
    BY <2>1, <1>t DEF Surplus
  <2>3. Surplus >= 0
    BY <1>6 DEF WorkerWait, Credits
  <2>4. Surplus' >= -1
    BY <1>1, <2>2, <2>3, TakeOne
  <2> QED
    BY <1>6, <2>4 DEF WorkerWait, Credits
<1>7. CASE WorkerLock
  <2>1. CASE workerThreadShouldStop
    BY <1>7, <2>1 DEF WorkerLock, Credits
  <2>2. CASE ~workerThreadShouldStop
    <3>1. Unposted' = Unposted /\ sem' = sem
      BY <1>4, <1>7 DEF WorkerLock
    <3>2. Taken' = Len(lookupQueue) + Len(getAllQueue)
      BY <1>7, <2>2 DEF WorkerLock, TakeQueues, Taken
    <3>3. Demand = Len(lookupQueue) + Len(getAllQueue)
      BY <2>2 DEF Demand, CacheTypeOK
    <3>4. lookupQueue' = <<>> /\ getAllQueue' = <<>> /\ ~workerThreadShouldStop'
      BY <1>7, <2>2 DEF WorkerLock, TakeQueues
    <3>5. Demand' = 0
      BY <3>4 DEF Demand
    <3>6. Surplus' = Surplus + Taken' /\ Surplus' >= 0 /\ Taken' \in Nat
      BY <3>1, <3>2, <3>3, <3>5, <1>t DEF Surplus
    <3>7. Surplus >= -1
      BY <1>7 DEF WorkerLock, Credits
    <3>8. Surplus' >= (IF Taken' = 0 THEN 0 ELSE Taken' - 1)
      BY <1>1, <3>6, <3>7, TakeAll
    <3> QED
      BY <1>7, <2>2, <3>8 DEF WorkerLock, Credits
  <2> QED
    BY <2>1, <2>2
<1>8. CASE WorkerTryWait
  <2>1. Unposted' = Unposted /\ Demand' = Demand /\ sem' = sem - EatCounts
    BY <1>4, <1>5, <1>8 DEF WorkerTryWait
  <2>2. Surplus' = Surplus - EatCounts
    BY <2>1, <1>t, EatCountsBounded DEF Surplus
  <2>3. Surplus >= (IF Taken = 0 THEN 0 ELSE Taken - 1) /\ workerPc' = "read"
    BY <1>8 DEF WorkerTryWait, Credits
  <2>4. EatCounts \in Nat /\ EatCounts <= (IF Taken = 0 THEN 0 ELSE Taken - 1)
    BY <1>1, EatCountsBounded
  <2>5. Surplus' >= 0
    BY <1>1, <2>2, <2>3, <2>4
  <2> QED
    BY <2>3, <2>5 DEF Credits
<1>9. CASE WorkerRead \/ WorkerReadDone \/ WorkerPrune \/ WorkerCollect \/ WorkerAnswer
  <2>1. UNCHANGED <<pc, cacheDtorPc, lookupQueue, getAllQueue, workerThreadShouldStop, sem>>
    BY <1>9 DEF WorkerRead, WorkerReadDone, WorkerPrune, WorkerCollect, WorkerAnswer
  <2>2. Surplus' = Surplus
    BY <1>4, <1>5, <2>1 DEF Surplus
  <2>3. /\ workerPc \in {"wait", "read", "prune", "collect", "answer"}
        /\ workerPc' \in {"wait", "read", "prune", "collect", "answer"}
    BY <1>9 DEF WorkerRead, WorkerReadDone, WorkerPrune, WorkerCollect, WorkerAnswer,
       Forget, AfterPrune
  <2> QED
    BY <2>2, <2>3 DEF Credits
<1>10. CASE CacheDestroyBegin
  <2>1. UNCHANGED <<lookupQueue, getAllQueue, sem, workerPc, batch, gets, pc>>
        /\ cacheDtorPc = "alive" /\ cacheDtorPc' = "post"
    BY <1>10 DEF CacheDestroyBegin
  <2>2. UnpostedBy' = UnpostedBy
    BY <2>1 DEF UnpostedBy
  <2>3. Unposted' = Unposted + 1
    BY <2>1, <2>2, UnpostedType DEF Unposted
  <2>4. Demand' <= Demand + 1 /\ Demand' \in Nat
    BY <1>10, <2>1 DEF Demand, CacheTypeOK, CacheDestroyBegin
  <2>s. sem' = sem
    BY <2>1
  <2>5. Surplus' >= Surplus
    <3>1. sem + (Unposted + 1) - Demand' >= sem + Unposted - Demand
      BY <1>t, <2>4, StopCovered
    <3> QED
      BY <2>s, <2>3, <3>1 DEF Surplus
  <2> QED
    BY <1>2, <2>1, <2>5
<1>11. CASE CacheDestroyPost
  <2>1. UNCHANGED <<lookupQueue, getAllQueue, workerThreadShouldStop, workerPc, batch, gets, pc>>
        /\ cacheDtorPc = "post" /\ cacheDtorPc' = "join" /\ sem' = sem + 1
    BY <1>11 DEF CacheDestroyPost, StopPost
  <2>2. UnpostedBy' = UnpostedBy
    BY <2>1 DEF UnpostedBy
  <2>3. Unposted' = Unposted - 1 /\ Demand' = Demand
    BY <1>5, <2>1, <2>2, UnpostedType DEF Unposted
  <2>s. sem' = sem + 1
    BY <2>1
  <2>4. Surplus' >= Surplus
    BY <2>s, <2>3, <1>t DEF Surplus
  <2> QED
    BY <1>2, <2>1, <2>4
<1>12. CASE CacheDestroyJoin
  BY <1>12 DEF CacheDestroyJoin, Credits
<1>13. CASE Tick \/ UNCHANGED cacheVars
  <2>1. UNCHANGED <<pc, cacheDtorPc, lookupQueue, getAllQueue, workerThreadShouldStop, sem,
                    workerPc, batch, gets>>
    BY <1>13 DEF Tick, cacheVars
  <2>2. Surplus' = Surplus
    BY <1>4, <1>5, <2>1 DEF Surplus
  <2> QED
    BY <1>1, <1>2, <2>1, <2>2
<1> QED
  BY <1>3, <1>6, <1>7, <1>8, <1>9, <1>10, <1>11, <1>12, <1>13
     DEF CacheNext, WorkerStep, CacheTerminated

\* The worker never goes to sleep on a request (or on the order to stop) that no
\* count is left for, although workerThread() eats counts that belong to
\* requests it did not take.
THEOREM WorkerIsWoken == CacheSpec => []NoStrandedRequest
<1>1. CacheInit => Credits
  <2> SUFFICES ASSUME CacheInit PROVE Surplus >= 0 /\ workerPc = "wait"
    BY DEF Credits
  <2>1. Demand = 0
    BY DEF CacheInit, Demand
  <2>2. Unposted \in Nat /\ sem = 0
    BY UnpostedType DEF CacheInit, Unposted
  <2> QED
    BY <2>1, <2>2 DEF CacheInit, Surplus
<1>2. CacheTypeOK /\ Args /\ Credits /\ [CacheNext]_cacheVars => Credits'
  BY CreditsPreserved
<1>3. CacheTypeOK /\ Credits => NoStrandedRequest
  <2> SUFFICES ASSUME CacheTypeOK, Surplus >= 0 PROVE sem + Unposted >= Demand
    BY DEF Credits, NoStrandedRequest, Demand
  <2> QED
    BY SurplusType DEF Surplus, CacheTypeOK
<1> QED
  BY <1>1, <1>2, <1>3, TypeCorrect, PTL DEF CacheSpec
-----------------------------------------------------------------------------
(* The reads that are queued or in the worker's hands *)

Distinct(s) == \A i, j \in 1 .. Len(s) : s[i] = s[j] => i = j
Pending(n) ==
  \/ \E i \in 1 .. Len(batch) : batch[i] = n
  \/ \E i \in 1 .. Len(lookupQueue) : lookupQueue[i] = n

\* No node is queued twice, what is queued is allocated and unread, and what is
\* allocated and unread is queued.  A map entry belongs to its pid.
Queued ==
  /\ Distinct(batch)
  /\ Distinct(lookupQueue)
  /\ \A i \in 1 .. Len(batch), j \in 1 .. Len(lookupQueue) : batch[i] # lookupQueue[j]
  /\ \A n \in Nodes : Pending(n) => promise[n] = "unset" /\ pidOf[n] # None
  /\ \A n \in Nodes : promise[n] # "unset" => pidOf[n] # None
  /\ cacheDtorPc # "destroyed" =>
       \A n \in Nodes : pidOf[n] # None /\ promise[n] = "unset" => Pending(n)
  /\ \A p \in Pids : infos[p] # None => pidOf[infos[p]] = p

queuedVars == <<batch, lookupQueue, promise, pidOf, infos, cacheDtorPc>>

LEMMA EnqueueQueued ==
  ASSUME CacheTypeOK, Queued, NEW t \in Threads, NEW n \in Nodes, argPid[t] \in Pids,
         Enqueue(t, n), UNCHANGED <<batch, cacheDtorPc>>
  PROVE  Queued'
<1> DEFINE q == lookupQueue
<1>1. /\ n \in Nodes /\ pidOf[n] = None
      /\ pidOf' = [pidOf EXCEPT ![n] = argPid[t]]
      /\ infos' = [infos EXCEPT ![argPid[t]] = IF @ = None THEN n ELSE @]
      /\ promise' = promise
  BY DEF Enqueue, Allocated
<1>2. q' = Append(q, n) /\ q \in Seq(Nodes)
  BY DEF Enqueue, CacheTypeOK
<1>3. /\ Len(q') = Len(q) + 1 /\ q'[Len(q) + 1] = n
      /\ \A i \in 1 .. Len(q) : q'[i] = q[i] /\ q[i] \in Nodes
      /\ Len(q) \in Nat
  BY <1>2
<1>4. \A i \in 1 .. Len(q) : q[i] # n
  BY <1>1, <1>3 DEF Queued, Pending
<1>5. batch \in Seq(Nodes) /\ \A i \in 1 .. Len(batch) : batch[i] # n
  BY <1>1 DEF Queued, Pending, CacheTypeOK
<1>6. argPid[t] # None
  BY NoneAssumption DEF NoneAssumption
<1> HIDE DEF q
<1>7. Distinct(q')
  BY <1>3, <1>4 DEF Queued, Distinct, q
<1>8. \A i \in 1 .. Len(batch), j \in 1 .. Len(q') : batch[i] # q'[j]
  BY <1>3, <1>5 DEF Queued, q
<1>9. \A m \in Nodes : Pending(m)' <=> Pending(m) \/ m = n
  BY <1>3 DEF Pending, q
<1>10. \A m \in Nodes : pidOf'[m] = IF m = n THEN argPid[t] ELSE pidOf[m]
  BY <1>1 DEF CacheTypeOK
<1>11. promise[n] = "unset"
  BY <1>1 DEF Queued
<1>12. \A p \in Pids : infos'[p] # None => pidOf'[infos'[p]] = p
  <2> SUFFICES ASSUME NEW p \in Pids, infos'[p] # None PROVE pidOf'[infos'[p]] = p
    OBVIOUS
  <2>1. infos'[p] = infos[p] \/ (infos'[p] = n /\ p = argPid[t])
    BY <1>1 DEF CacheTypeOK
  <2>2. CASE infos'[p] = n /\ p = argPid[t]
    BY <2>2, <1>10
  <2>3. CASE infos'[p] = infos[p]
    <3>1. infos[p] \in Nodes /\ pidOf[infos[p]] = p
      BY <2>3 DEF Queued, CacheTypeOK, NodeOrNone
    <3>2. infos[p] # n
      BY <3>1, <1>1, NoneAssumption DEF NoneAssumption
    <3> QED
      BY <2>3, <3>1, <3>2, <1>10
  <2> QED
    BY <2>1, <2>2, <2>3
<1>13. Distinct(batch)' /\ Distinct(lookupQueue)'
  BY <1>7 DEF Queued, Distinct, q
<1>14. \A m \in Nodes : Pending(m)' => promise'[m] = "unset" /\ pidOf'[m] # None
  BY <1>1, <1>6, <1>9, <1>10, <1>11 DEF Queued
<1>15. \A m \in Nodes : promise'[m] # "unset" => pidOf'[m] # None
  BY <1>1, <1>6, <1>10 DEF Queued
<1>16. cacheDtorPc' # "destroyed" =>
         \A m \in Nodes : pidOf'[m] # None /\ promise'[m] = "unset" => Pending(m)'
  BY <1>1, <1>9, <1>10 DEF Queued
<1> QED
  BY <1>8, <1>12, <1>13, <1>14, <1>15, <1>16 DEF Queued, q

LEMMA QueuedPreserved ==
  ASSUME CacheTypeOK, Args, Queued, [CacheNext]_cacheVars PROVE Queued'
<1> USE DEF lockedVars, nodeVars, workerVars, callVars, holderVars, envVars
<1>1. ASSUME UNCHANGED queuedVars PROVE Queued'
  BY <1>1 DEF Queued, queuedVars, Distinct, Pending
<1>2. ASSUME NEW t \in Threads, LookupLocked(t) \/ AddWrite(t) PROVE Queued'
  <2>1. argPid[t] \in Pids
    BY <1>2 DEF Args, LookupLocked, AddWrite
  <2>2. CASE UNCHANGED queuedVars
    BY <1>1, <2>2
  <2>3. CASE \E n \in Nodes : Enqueue(t, n) /\ UNCHANGED <<batch, cacheDtorPc>>
    BY <2>1, <2>3, EnqueueQueued
  <2> QED
    BY <1>2, <2>2, <2>3 DEF LookupLocked, AddWrite, AddHit, queuedVars
<1>3. ASSUME NEW t \in Threads, CallerStep(t), ~LookupLocked(t), ~AddWrite(t) PROVE Queued'
  <2>1. UNCHANGED queuedVars
    BY <1>3 DEF CallerStep, LookupLocal, LookupMiss, AddLocal, AddMiss, AddRead, AddHit,
       GetAll, Post, GetAllReturn, HandleGet, HandleGetReturn, HandleDrop, cacheVars, queuedVars
  <2> QED
    BY <1>1, <2>1
<1>4. CASE WorkerLock
  <2>1. CASE workerThreadShouldStop
    BY <1>1, <1>4, <2>1 DEF WorkerLock, queuedVars
  <2>2. CASE ~workerThreadShouldStop
    <3>1. batch = <<>> /\ batch' = lookupQueue /\ lookupQueue' = <<>>
      BY <1>4, <2>2 DEF Args, WorkerLock, TakeQueues
    <3>2. UNCHANGED <<promise, pidOf, infos, cacheDtorPc>>
      BY <1>4 DEF WorkerLock
    <3>3. Len(<<>>) = 0
      OBVIOUS
    <3>4. \A n \in Nodes : Pending(n)' <=> Pending(n)
      BY <3>1, <3>3 DEF Pending
    <3>5. Distinct(batch)' /\ Distinct(lookupQueue)'
      BY <3>1, <3>3 DEF Queued, Distinct
    <3> QED
      BY <3>1, <3>2, <3>3, <3>4, <3>5 DEF Queued
  <2> QED
    BY <2>1, <2>2
<1>5. CASE WorkerRead
  <2> DEFINE h == Head(batch)
  <2>1. batch \in Seq(Nodes) /\ batch # <<>> /\ batch' = Tail(batch)
        /\ UNCHANGED <<lookupQueue, pidOf, infos, cacheDtorPc>>
    BY <1>5 DEF WorkerRead, CacheTypeOK
  <2>2. PICK r \in {"value", "error"} : promise' = [promise EXCEPT ![h] = r]
    BY <1>5 DEF WorkerRead
  <2>3. /\ h \in Nodes /\ h = batch[1] /\ Len(batch) \in Nat /\ Len(batch) >= 1
        /\ Len(batch') = Len(batch) - 1
        /\ \A i \in 1 .. Len(batch') : batch'[i] = batch[i + 1] /\ batch[i + 1] \in Nodes
    BY <2>1
  <2> HIDE DEF h
  <2>4. Distinct(batch)'
    BY <2>3 DEF Queued, Distinct
  <2>5. Distinct(lookupQueue)'
    BY <2>1 DEF Queued, Distinct
  <2>6. \A i \in 1 .. Len(batch'), j \in 1 .. Len(lookupQueue') : batch'[i] # lookupQueue'[j]
    BY <2>1, <2>3 DEF Queued
  <2>7. \A i \in 1 .. Len(batch') : batch'[i] # h
    BY <2>3 DEF Queued, Distinct
  <2>8. \A i \in 1 .. Len(lookupQueue) : lookupQueue[i] # h
    BY <2>3 DEF Queued
  <2>9. \A n \in Nodes : Pending(n)' <=> Pending(n) /\ n # h
    <3> SUFFICES ASSUME NEW n \in Nodes PROVE Pending(n)' <=> Pending(n) /\ n # h
      OBVIOUS
    <3>1. ASSUME NEW i \in 1 .. Len(batch), batch[i] = n, n # h
          PROVE  \E j \in 1 .. Len(batch') : batch'[j] = n
      <4>1. i - 1 \in 1 .. Len(batch') /\ (i - 1) + 1 = i
        BY <2>3, <3>1
      <4> QED
        BY <2>3, <3>1, <4>1
    <3>2. ASSUME NEW i \in 1 .. Len(batch'), batch'[i] = n
          PROVE  \E j \in 1 .. Len(batch) : batch[j] = n
      <4>1. i + 1 \in 1 .. Len(batch)
        BY <2>3
      <4> QED
        BY <2>3, <3>2, <4>1
    <3> QED
      BY <2>1, <2>7, <2>8, <3>1, <3>2 DEF Pending
  <2>10. \A n \in Nodes : promise'[n] = IF n = h THEN r ELSE promise[n]
    BY <2>2, <2>3 DEF CacheTypeOK
  <2>11. Pending(h)
    BY <2>3 DEF Pending
  <2>12. pidOf[h] # None
    BY <2>3, <2>11 DEF Queued
  <2>13. \A n \in Nodes : Pending(n)' => promise'[n] = "unset" /\ pidOf'[n] # None
    BY <2>1, <2>9, <2>10 DEF Queued
  <2>14. \A n \in Nodes : promise'[n] # "unset" => pidOf'[n] # None
    BY <2>1, <2>10, <2>12 DEF Queued
  <2>15. cacheDtorPc' # "destroyed" =>
           \A n \in Nodes : pidOf'[n] # None /\ promise'[n] = "unset" => Pending(n)'
    BY <2>1, <2>9, <2>10 DEF Queued
  <2> QED
    BY <2>1, <2>4, <2>5, <2>6, <2>13, <2>14, <2>15 DEF Queued
<1>6. CASE WorkerPrune \/ WorkerCollect
  <2>1. UNCHANGED <<batch, lookupQueue, promise, pidOf, cacheDtorPc>> /\ infos' = Unexpired
    BY <1>6 DEF WorkerPrune, WorkerCollect
  <2>2. \A p \in Pids : infos'[p] # None => infos'[p] = infos[p]
    BY <2>1 DEF Unexpired
  <2> QED
    BY <2>1, <2>2 DEF Queued, Distinct, Pending
<1>7. CASE WorkerWait \/ WorkerTryWait \/ WorkerReadDone \/ WorkerAnswer
  BY <1>1, <1>7 DEF WorkerWait, WorkerTryWait, WorkerReadDone, WorkerAnswer, queuedVars
<1>8. CASE CacheDestroyBegin \/ CacheDestroyPost
  <2>1. UNCHANGED <<batch, lookupQueue, promise, pidOf, infos>> /\ cacheDtorPc # "destroyed"
    BY <1>8 DEF CacheDestroyBegin, CacheDestroyPost
  <2> QED
    BY <2>1 DEF Queued, Distinct, Pending
<1>9. CASE CacheDestroyJoin
  <2>1. UNCHANGED <<batch, promise, pidOf>> /\ lookupQueue' = <<>> /\ cacheDtorPc' = "destroyed"
        /\ \A p \in Pids : infos'[p] = None
    BY <1>9 DEF CacheDestroyJoin
  <2>2. Len(<<>>) = 0
    OBVIOUS
  <2>3. \A n \in Nodes : Pending(n)' => Pending(n)
    BY <2>1, <2>2 DEF Pending
  <2> QED
    BY <2>1, <2>2, <2>3 DEF Queued, Distinct
<1>10. CASE Tick \/ UNCHANGED cacheVars
  BY <1>1, <1>10 DEF Tick, cacheVars, queuedVars
<1> QED
  BY <1>2, <1>3, <1>4, <1>5, <1>6, <1>7, <1>8, <1>9, <1>10 DEF CacheNext, WorkerStep, CacheTerminated

LEMMA InitQueued == CacheInit => Queued
<1> SUFFICES ASSUME CacheInit PROVE Queued
  OBVIOUS
<1>1. Len(<<>>) = 0
  OBVIOUS
<1>2. \A n \in Nodes : ~Pending(n)
  BY <1>1 DEF CacheInit, Pending
<1>3. Distinct(batch) /\ Distinct(lookupQueue)
  BY <1>1 DEF CacheInit, Distinct
<1> QED
  BY <1>1, <1>2, <1>3 DEF CacheInit, Queued

\* Every process info is read exactly once: no promise is forgotten while the
\* cache lives, and none is fulfilled twice.
THEOREM ReadOnce == CacheSpec => []EveryReadPendingOnce
<1>1. CacheTypeOK /\ Args /\ Queued /\ [CacheNext]_cacheVars => Queued'
  BY QueuedPreserved
<1>2. CacheTypeOK /\ Queued => EveryReadPendingOnce
  <2> SUFFICES ASSUME CacheTypeOK, Queued PROVE EveryReadPendingOnce
    OBVIOUS
  <2> DEFINE pending == batch \o lookupQueue
  <2> DEFINE b == Len(batch)
  <2> DEFINE k == Len(lookupQueue)
  <2>1. batch \in Seq(Nodes) /\ lookupQueue \in Seq(Nodes)
    BY DEF CacheTypeOK
  <2>2. /\ b \in Nat /\ k \in Nat
        /\ DOMAIN pending = 1 .. (b + k)
        /\ \A i \in 1 .. b : pending[i] = batch[i] /\ batch[i] \in Nodes
        /\ \A i \in 1 .. (b + k) :
             i > b => pending[i] = lookupQueue[i - b] /\ i - b \in 1 .. k
        /\ \A i \in 1 .. k : lookupQueue[i] \in Nodes /\ pending[b + i] = lookupQueue[i]
    BY <2>1
  <2> HIDE DEF pending, b, k
  <2>3. ASSUME NEW i \in DOMAIN pending, NEW j \in DOMAIN pending, pending[i] = pending[j]
        PROVE  i = j
    <3>1. CASE i <= b /\ j <= b
      BY <2>2, <2>3, <3>1 DEF Queued, Distinct, b
    <3>2. CASE i > b /\ j > b
      <4>1. lookupQueue[i - b] = lookupQueue[j - b] /\ i - b \in 1 .. k /\ j - b \in 1 .. k
        BY <2>2, <2>3, <3>2
      <4>2. i - b = j - b
        BY <4>1 DEF Queued, Distinct, k
      <4> QED
        BY <2>2, <4>2
    <3>3. CASE i <= b /\ j > b
      BY <2>2, <2>3, <3>3 DEF Queued, b, k
    <3>4. CASE i > b /\ j <= b
      BY <2>2, <2>3, <3>4 DEF Queued, b, k
    <3> QED
      BY <2>2, <3>1, <3>2, <3>3, <3>4
  <2>4. ASSUME NEW i \in DOMAIN pending PROVE promise[pending[i]] = "unset"
    <3>1. pending[i] \in Nodes /\ Pending(pending[i])
      <4>1. CASE i <= b
        BY <2>2, <4>1 DEF Pending, b
      <4>2. CASE i > b
        BY <2>2, <4>2 DEF Pending, k
      <4> QED
        BY <2>2, <4>1, <4>2
    <3> QED
      BY <3>1 DEF Queued
  <2>5. ASSUME cacheDtorPc # "destroyed", NEW n \in Allocated, promise[n] = "unset"
        PROVE  \E i \in DOMAIN pending : pending[i] = n
    <3>1. Pending(n)
      BY <2>5 DEF Queued, Allocated
    <3>2. CASE \E i \in 1 .. b : batch[i] = n
      BY <2>2, <3>2
    <3>3. CASE \E i \in 1 .. k : lookupQueue[i] = n
      <4>1. PICK i \in 1 .. k : lookupQueue[i] = n
        BY <3>3
      <4>2. b + i \in DOMAIN pending
        BY <2>2
      <4> QED
        BY <2>2, <4>1, <4>2
    <3> QED
      BY <3>1, <3>2, <3>3 DEF Pending, b, k
  <2> QED
    BY <2>3, <2>4, <2>5 DEF EveryReadPendingOnce, pending
<1> QED
  BY <1>1, <1>2, InitQueued, TypeCorrect, PTL DEF CacheSpec
-----------------------------------------------------------------------------
(* One read per pid *)

\* A critical section that queues a read found the pid absent from the map.
LEMMA OneReadPreserved ==
  ASSUME CacheTypeOK, Args, Queued, OneReadPerPid, [CacheNext]_cacheVars PROVE OneReadPerPid'
<1> USE DEF lockedVars, nodeVars, workerVars, callVars, holderVars, envVars
<1>0. lookupQueue \in Seq(Nodes) /\ DOMAIN lookupQueue = 1 .. Len(lookupQueue)
  BY DEF CacheTypeOK
<1>1. ASSUME UNCHANGED <<lookupQueue, pidOf>>, Cached' \subseteq Cached PROVE OneReadPerPid'
  BY <1>1 DEF OneReadPerPid
<1>2. ASSUME UNCHANGED infos PROVE Cached' \subseteq Cached
  BY <1>2 DEF Cached
<1>3. ASSUME NEW t \in Threads, NEW n \in Nodes, Enqueue(t, n), infos[argPid[t]] = None,
             argPid[t] \in Pids
      PROVE  OneReadPerPid'
  <2> SUFFICES ASSUME NEW i \in DOMAIN lookupQueue', NEW j \in DOMAIN lookupQueue',
                      i < j, pidOf'[lookupQueue'[i]] = pidOf'[lookupQueue'[j]],
                      NEW p \in Pids, infos'[p] = lookupQueue'[i]
               PROVE  FALSE
    BY NoneAssumption DEF OneReadPerPid, Cached
  <2>1. lookupQueue' = Append(lookupQueue, n)
    BY <1>3 DEF Enqueue
  <2>2. /\ i \in 1 .. Len(lookupQueue) /\ lookupQueue'[i] = lookupQueue[i]
        /\ lookupQueue[i] \in Nodes
        /\ j \in 1 .. Len(lookupQueue) => lookupQueue'[j] = lookupQueue[j]
        /\ j \notin 1 .. Len(lookupQueue) => lookupQueue'[j] = n
    BY <1>0, <2>1
  <2>3. pidOf[n] = None /\ pidOf' = [pidOf EXCEPT ![n] = argPid[t]]
    BY <1>3 DEF Enqueue, Allocated
  <2>4. lookupQueue[i] # n
    BY <2>2, <2>3 DEF Queued, Pending
  <2>5. infos[p] = lookupQueue[i] /\ p # argPid[t]
    <3>1. infos' = [infos EXCEPT ![argPid[t]] = n]
      BY <1>3 DEF Enqueue, CacheTypeOK
    <3> QED
      BY <2>2, <2>4, <3>1 DEF CacheTypeOK
  <2>6. pidOf[lookupQueue[i]] = p
    BY <2>2, <2>5, NoneAssumption DEF Queued, NoneAssumption
  <2>7. pidOf'[lookupQueue[i]] = p
    BY <2>2, <2>3, <2>4, <2>6 DEF CacheTypeOK
  <2>8. CASE j \in 1 .. Len(lookupQueue)
    <3>1. lookupQueue[j] \in Nodes /\ lookupQueue[j] # n
      BY <1>0, <2>3, <2>8 DEF Queued, Pending
    <3>2. pidOf[lookupQueue[i]] = pidOf[lookupQueue[j]]
      BY <2>2, <2>3, <2>4, <2>8, <3>1 DEF CacheTypeOK
    <3>3. lookupQueue[i] \notin Cached
      BY <1>0, <2>2, <2>8, <3>2 DEF OneReadPerPid
    <3> QED
      BY <2>2, <2>5, <3>3, NoneAssumption DEF Cached, NoneAssumption
  <2>9. CASE j \notin 1 .. Len(lookupQueue)
    <3>1. pidOf'[n] = argPid[t]
      BY <2>3 DEF CacheTypeOK
    <3> QED
      BY <2>2, <2>5, <2>7, <2>9, <3>1
  <2> QED
    BY <2>8, <2>9
<1>4. ASSUME NEW t \in Threads, LookupLocked(t) \/ AddWrite(t) PROVE OneReadPerPid'
  <2>1. argPid[t] \in Pids
    BY <1>4 DEF Args, LookupLocked, AddWrite
  <2>2. CASE UNCHANGED <<lookupQueue, pidOf, infos>>
    BY <1>1, <1>2, <2>2
  <2>3. CASE \E n \in Nodes : Enqueue(t, n) /\ infos[argPid[t]] = None
    BY <1>3, <2>1, <2>3
  <2> QED
    BY <1>4, <2>2, <2>3 DEF LookupLocked, AddWrite, AddHit
<1>5. ASSUME NEW t \in Threads, CallerStep(t), ~LookupLocked(t), ~AddWrite(t)
      PROVE  OneReadPerPid'
  <2>1. UNCHANGED <<lookupQueue, pidOf, infos>>
    BY <1>5 DEF CallerStep, LookupLocal, LookupMiss, AddLocal, AddMiss, AddRead, AddHit,
       GetAll, Post, GetAllReturn, HandleGet, HandleGetReturn, HandleDrop, cacheVars
  <2> QED
    BY <1>1, <1>2, <2>1
<1>6. CASE WorkerLock \/ CacheDestroyJoin
  <2>1. CASE lookupQueue' = <<>>
    BY <2>1 DEF OneReadPerPid
  <2>2. CASE UNCHANGED <<lookupQueue, pidOf, infos>>
    BY <1>1, <1>2, <2>2
  <2> QED
    BY <1>6, <2>1, <2>2 DEF WorkerLock, TakeQueues, CacheDestroyJoin
<1>7. CASE WorkerPrune \/ WorkerCollect
  <2>1. UNCHANGED <<lookupQueue, pidOf>> /\ infos' = Unexpired
    BY <1>7 DEF WorkerPrune, WorkerCollect
  <2>2. Cached' \subseteq Cached
    BY <2>1 DEF Cached, Unexpired
  <2> QED
    BY <1>1, <2>1, <2>2
<1>8. CASE \/ WorkerWait \/ WorkerTryWait \/ WorkerRead \/ WorkerReadDone \/ WorkerAnswer
           \/ CacheDestroyBegin \/ CacheDestroyPost \/ Tick \/ UNCHANGED cacheVars
  <2>1. UNCHANGED <<lookupQueue, pidOf, infos>>
    BY <1>8 DEF WorkerWait, WorkerTryWait, WorkerRead, WorkerReadDone, WorkerAnswer,
       CacheDestroyBegin, CacheDestroyPost, Tick, cacheVars
  <2> QED
    BY <1>1, <1>2, <2>1
<1> QED
  BY <1>4, <1>5, <1>6, <1>7, <1>8 DEF CacheNext, WorkerStep, CacheTerminated

\* The double-checked locking of lookup() and add() queues a pid once for as long
\* as its node stays in the map.
THEOREM NoDuplicateRead == CacheSpec => []OneReadPerPid
<1>1. CacheTypeOK /\ Args /\ Queued /\ [CacheNext]_cacheVars => Queued'
  BY QueuedPreserved
<1>2. CacheTypeOK /\ Args /\ Queued /\ OneReadPerPid /\ [CacheNext]_cacheVars => OneReadPerPid'
  BY OneReadPreserved
<1>3. CacheInit => OneReadPerPid
  BY DEF CacheInit, OneReadPerPid
<1> QED
  BY <1>1, <1>2, <1>3, InitQueued, TypeCorrect, PTL DEF CacheSpec
-----------------------------------------------------------------------------
(* getAllProcessInfos() *)

Waiting(t) ==
  \/ \E i \in 1 .. Len(gets) : gets[i] = t
  \/ \E i \in 1 .. Len(getAllQueue) : getAllQueue[i] = t

\* A caller waits in one place, and only while it is inside the call.
Callers ==
  /\ Distinct(gets)
  /\ Distinct(getAllQueue)
  /\ \A i \in 1 .. Len(gets), j \in 1 .. Len(getAllQueue) : gets[i] # getAllQueue[j]
  /\ \A t \in Threads : Waiting(t) => pc[t] \in {"postGetAll", "getAll"} /\ t \notin answered
  /\ \A t \in Threads : t \in answered => pc[t] \in {"postGetAll", "getAll"}

LEMMA CallersPreserved ==
  ASSUME CacheTypeOK, Args, Callers, [CacheNext]_cacheVars PROVE Callers'
<1> USE DEF lockedVars, nodeVars, workerVars, callVars, holderVars, envVars
<1>0. gets \in Seq(Threads) /\ getAllQueue \in Seq(Threads) /\ answered \subseteq Threads
  BY DEF CacheTypeOK
<1>1. ASSUME UNCHANGED <<gets, getAllQueue, answered>>,
             \A t \in Threads : pc[t] \in {"postGetAll", "getAll"} => pc'[t] \in {"postGetAll", "getAll"}
      PROVE  Callers'
  BY <1>1 DEF Callers, Distinct, Waiting
<1>2. ASSUME NEW t \in Threads, NEW where, pc' = [pc EXCEPT ![t] = where],
             pc[t] \in {"postGetAll", "getAll"} => where \in {"postGetAll", "getAll"}
      PROVE  \A u \in Threads : pc[u] \in {"postGetAll", "getAll"} => pc'[u] \in {"postGetAll", "getAll"}
  BY <1>2 DEF CacheTypeOK
<1>3. ASSUME NEW t \in Threads, NEW pid \in Pids,
             LookupLocal(t, pid) \/ LookupMiss(t, pid) \/ AddLocal(t, pid) \/ AddMiss(t, pid)
      PROVE  Callers'
  BY <1>1, <1>2, <1>3 DEF LookupLocal, LookupMiss, AddLocal, AddMiss, Call, MayCall, cacheVars
<1>4. ASSUME NEW t \in Threads, LookupLocked(t) \/ AddRead(t) \/ AddWrite(t) PROVE Callers'
  BY <1>1, <1>2, <1>4 DEF LookupLocked, AddRead, AddWrite, AddHit, Enqueue, Goto
<1>5. ASSUME NEW t \in Threads, GetAll(t) PROVE Callers'
  <2>1. /\ getAllQueue' = Append(getAllQueue, t) /\ UNCHANGED <<gets, answered>>
        /\ pc[t] = "idle" /\ pc' = [pc EXCEPT ![t] = "postGetAll"]
    BY <1>5 DEF GetAll, Goto, MayCall
  <2>2. /\ Len(getAllQueue) \in Nat /\ Len(getAllQueue') = Len(getAllQueue) + 1
        /\ getAllQueue'[Len(getAllQueue) + 1] = t
        /\ \A i \in 1 .. Len(getAllQueue) : getAllQueue'[i] = getAllQueue[i]
    BY <1>0, <2>1
  <2>3. ~Waiting(t) /\ t \notin answered
    BY <2>1 DEF Callers
  <2>4. Distinct(getAllQueue)'
    BY <2>2, <2>3 DEF Callers, Distinct, Waiting
  <2>5. Distinct(gets)'
    BY <2>1 DEF Callers, Distinct
  <2>6. \A i \in 1 .. Len(gets'), j \in 1 .. Len(getAllQueue') : gets'[i] # getAllQueue'[j]
    BY <2>1, <2>2, <2>3 DEF Callers, Waiting
  <2>7. \A u \in Threads : Waiting(u)' => Waiting(u) \/ u = t
    BY <2>1, <2>2 DEF Waiting
  <2>8. \A u \in Threads : pc'[u] = IF u = t THEN "postGetAll" ELSE pc[u]
    BY <2>1 DEF CacheTypeOK
  <2> QED
    BY <2>1, <2>3, <2>4, <2>5, <2>6, <2>7, <2>8 DEF Callers
<1>6. ASSUME NEW t \in Threads, Post(t) PROVE Callers'
  BY <1>1, <1>2, <1>6 DEF Post, Goto
<1>7. ASSUME NEW t \in Threads, GetAllReturn(t) PROVE Callers'
  <2>1. /\ UNCHANGED <<gets, getAllQueue>> /\ answered' = answered \ {t} /\ t \in answered
        /\ pc' = [pc EXCEPT ![t] = "idle"]
    BY <1>7 DEF GetAllReturn
  <2>2. ~Waiting(t)
    BY <2>1 DEF Callers
  <2>3. \A u \in Threads : Waiting(u)' <=> Waiting(u)
    BY <2>1 DEF Waiting
  <2>4. \A u \in Threads : u # t => pc'[u] = pc[u]
    BY <2>1 DEF CacheTypeOK
  <2> QED
    BY <2>1, <2>2, <2>3, <2>4 DEF Callers, Distinct
<1>8. ASSUME NEW t \in Threads, HandleGet(t) \/ HandleGetReturn(t) \/ HandleDrop(t) PROVE Callers'
  BY <1>1, <1>2, <1>8 DEF HandleGet, HandleGetReturn, HandleDrop, Goto
<1>9. CASE WorkerLock
  <2>1. CASE workerThreadShouldStop
    BY <1>1, <1>9, <2>1 DEF WorkerLock
  <2>2. CASE ~workerThreadShouldStop
    <3>1. gets' = getAllQueue /\ getAllQueue' = <<>> /\ UNCHANGED <<pc, answered>>
      BY <1>9, <2>2 DEF WorkerLock, TakeQueues
    <3>2. Len(<<>>) = 0
      OBVIOUS
    <3>3. \A u \in Threads : Waiting(u)' => Waiting(u)
      BY <3>1, <3>2 DEF Waiting
    <3> QED
      BY <3>1, <3>2, <3>3 DEF Callers, Distinct
  <2> QED
    BY <2>1, <2>2
<1>10. CASE WorkerAnswer
  <2> DEFINE h == Head(gets)
  <2>1. gets # <<>> /\ gets' = Tail(gets) /\ UNCHANGED <<getAllQueue, pc>>
        /\ answered' = answered \union {h}
    BY <1>10 DEF WorkerAnswer, Args
  <2>2. /\ Len(gets) \in Nat /\ Len(gets) >= 1 /\ h = gets[1] /\ h \in Threads
        /\ Len(gets') = Len(gets) - 1
        /\ \A i \in 1 .. Len(gets') : gets'[i] = gets[i + 1]
    BY <1>0, <2>1
  <2> HIDE DEF h
  <2>3. Distinct(gets)' /\ \A i \in 1 .. Len(gets') : gets'[i] # h
    BY <2>2 DEF Callers, Distinct
  <2>4. Distinct(getAllQueue)'
    BY <2>1 DEF Callers, Distinct
  <2>5. \A i \in 1 .. Len(gets'), j \in 1 .. Len(getAllQueue') : gets'[i] # getAllQueue'[j]
    BY <2>1, <2>2 DEF Callers
  <2>6. \A j \in 1 .. Len(getAllQueue) : getAllQueue[j] # h
    BY <2>2 DEF Callers
  <2>7. \A u \in Threads : Waiting(u)' => Waiting(u) /\ u # h
    <3>1. ASSUME NEW i \in 1 .. Len(gets') PROVE i + 1 \in 1 .. Len(gets) /\ gets'[i] = gets[i + 1]
      BY <2>2
    <3> QED
      BY <2>1, <2>3, <2>6, <3>1 DEF Waiting
  <2>8. Waiting(h)
    BY <2>2 DEF Waiting
  <2> QED
    BY <2>1, <2>2, <2>3, <2>4, <2>5, <2>7, <2>8 DEF Callers
<1>11. CASE \/ WorkerWait \/ WorkerTryWait \/ WorkerRead \/ WorkerReadDone \/ WorkerPrune
            \/ WorkerCollect \/ CacheDestroyBegin \/ CacheDestroyPost \/ CacheDestroyJoin \/ Tick
            \/ UNCHANGED cacheVars
  <2>1. UNCHANGED <<gets, getAllQueue, answered, pc>>
    BY <1>11 DEF WorkerWait, WorkerTryWait, WorkerRead, WorkerReadDone, WorkerPrune,
       WorkerCollect, CacheDestroyBegin, CacheDestroyPost, CacheDestroyJoin, Tick, cacheVars
  <2> QED
    BY <1>1, <2>1
<1> QED
  BY <1>3, <1>4, <1>5, <1>6, <1>7, <1>8, <1>9, <1>10, <1>11
     DEF CacheNext, CallerStep, WorkerStep, CacheTerminated

\* What was cached when a get was queued is no longer queued for reading once the
\* worker has taken that get.
Answers ==
  /\ cacheDtorPc = "destroyed" => workerPc = "exited"
  /\ \A t \in Threads : \A n \in atRequest[t] : pidOf[n] # None
  /\ \A i \in 1 .. Len(gets) : \A n \in atRequest[gets[i]] :
       \A j \in 1 .. Len(lookupQueue) : lookupQueue[j] # n
  /\ workerPc = "answer" =>
       \A i \in 1 .. Len(gets) : \A n \in atRequest[gets[i]] \intersect Cached :
         n \in answer \/ promise[n] = "error"

LEMMA AnswersPreserved ==
  ASSUME CacheTypeOK, Args, Queued, Callers, Answers, [CacheNext]_cacheVars PROVE Answers'
<1> USE DEF lockedVars, nodeVars, workerVars, callVars, holderVars, envVars
<1>0. /\ gets \in Seq(Threads) /\ lookupQueue \in Seq(Nodes)
      /\ atRequest \in [Threads -> SUBSET Nodes]
  BY DEF CacheTypeOK
<1>g. \A i \in 1 .. Len(gets) : gets[i] \in Threads
  BY <1>0
<1>1. ASSUME UNCHANGED <<cacheDtorPc, workerPc, lookupQueue, gets, answer, promise, pidOf>>,
             Cached' \subseteq Cached, UNCHANGED atRequest
      PROVE  Answers'
  BY <1>1 DEF Answers
<1>2. ASSUME UNCHANGED infos PROVE Cached' \subseteq Cached
  BY <1>2 DEF Cached
<1>3. ASSUME NEW t \in Threads, NEW n \in Nodes, Enqueue(t, n), argPid[t] \in Pids,
             UNCHANGED <<cacheDtorPc, workerPc, gets, answer, atRequest>>
      PROVE  Answers'
  <2>1. /\ pidOf[n] = None /\ lookupQueue' = Append(lookupQueue, n) /\ promise' = promise
        /\ pidOf' = [pidOf EXCEPT ![n] = argPid[t]]
        /\ infos' = [infos EXCEPT ![argPid[t]] = IF @ = None THEN n ELSE @]
    BY <1>3 DEF Enqueue, Allocated
  <2>2. Cached' \subseteq Cached \union {n}
    BY <2>1 DEF Cached, CacheTypeOK
  <2>3. \A u \in Threads : n \notin atRequest[u]
    BY <2>1 DEF Answers
  <2>4. \A u \in Threads : \A m \in atRequest[u] : pidOf'[m] # None
    BY <1>0, <2>1, <2>3 DEF Answers, CacheTypeOK
  <2>5. \A j \in 1 .. Len(lookupQueue') :
           lookupQueue'[j] = n \/ \E k \in 1 .. Len(lookupQueue) : lookupQueue'[j] = lookupQueue[k]
    BY <1>0, <2>1
  <2>6. \A i \in 1 .. Len(gets) : \A m \in atRequest[gets[i]] :
          \A j \in 1 .. Len(lookupQueue') : lookupQueue'[j] # m
    BY <1>g, <2>3, <2>5 DEF Answers
  <2>7. workerPc = "answer" =>
          \A i \in 1 .. Len(gets) : \A m \in atRequest[gets[i]] \intersect Cached' :
            m \in answer \/ promise[m] = "error"
    BY <1>g, <2>2, <2>3 DEF Answers
  <2> QED
    BY <1>3, <2>1, <2>4, <2>6, <2>7 DEF Answers
<1>4. ASSUME NEW t \in Threads, LookupLocked(t) \/ AddWrite(t) PROVE Answers'
  <2>1. argPid[t] \in Pids
    BY <1>4 DEF Args, LookupLocked, AddWrite
  <2>2. UNCHANGED <<cacheDtorPc, workerPc, gets, answer, atRequest>>
    BY <1>4 DEF LookupLocked, AddWrite
  <2>3. CASE UNCHANGED <<lookupQueue, promise, pidOf, infos>>
    BY <1>1, <1>2, <2>2, <2>3
  <2>4. CASE \E n \in Nodes : Enqueue(t, n)
    BY <1>3, <2>1, <2>2, <2>4
  <2> QED
    BY <1>4, <2>3, <2>4 DEF LookupLocked, AddWrite, AddHit
<1>5. ASSUME NEW t \in Threads, GetAll(t) \/ GetAllReturn(t) PROVE Answers'
  <2>1. UNCHANGED <<cacheDtorPc, workerPc, lookupQueue, gets, answer, promise, pidOf, infos>>
    BY <1>5 DEF GetAll, GetAllReturn
  <2>2. ~Waiting(t)
    BY <1>5 DEF Callers, GetAll, GetAllReturn, MayCall
  <2>3. \A i \in 1 .. Len(gets) : gets[i] # t
    BY <2>2 DEF Waiting
  <2>4. \A n \in Cached : pidOf[n] # None
    BY NoneAssumption DEF Cached, Queued, NoneAssumption
  <2>5. \E S \in {Cached, {}} : atRequest' = [atRequest EXCEPT ![t] = S]
    BY <1>5 DEF GetAll, GetAllReturn
  <2>6. \A u \in Threads : u # t => atRequest'[u] = atRequest[u]
    BY <2>5, <1>0
  <2>7. atRequest'[t] = Cached \/ atRequest'[t] = {}
    BY <2>5, <1>0
  <2>8. \A i \in 1 .. Len(gets) : atRequest'[gets[i]] = atRequest[gets[i]]
    BY <1>g, <2>3, <2>6
  <2>9. \A u \in Threads : \A n \in atRequest'[u] : pidOf[n] # None
    BY <2>4, <2>6, <2>7 DEF Answers
  <2>10. Cached' = Cached
    BY <2>1 DEF Cached
  <2> QED
    BY <2>1, <2>8, <2>9, <2>10 DEF Answers
<1>6. ASSUME NEW t \in Threads, CallerStep(t), ~LookupLocked(t), ~AddWrite(t), ~GetAll(t),
             ~GetAllReturn(t)
      PROVE  Answers'
  <2>1. UNCHANGED <<cacheDtorPc, workerPc, lookupQueue, gets, answer, promise, pidOf, infos, atRequest>>
    BY <1>6 DEF CallerStep, LookupLocal, LookupMiss, AddLocal, AddMiss, AddRead, AddHit,
       Post, HandleGet, HandleGetReturn, HandleDrop, cacheVars
  <2> QED
    BY <1>1, <1>2, <2>1
<1>7. CASE WorkerLock
  <2>1. UNCHANGED <<cacheDtorPc, pidOf, atRequest>> /\ workerPc = "lock"
        /\ workerPc' \in {"exited", "tryWait"}
    BY <1>7 DEF WorkerLock
  <2>2. \/ UNCHANGED <<lookupQueue, gets>>
        \/ lookupQueue' = <<>>
    BY <1>7 DEF WorkerLock, TakeQueues
  <2>3. Len(<<>>) = 0
    OBVIOUS
  <2> QED
    BY <2>1, <2>2, <2>3 DEF Answers
<1>8. CASE WorkerCollect
  <2>1. /\ UNCHANGED <<cacheDtorPc, lookupQueue, gets, promise, pidOf, atRequest>>
        /\ workerPc = "collect" /\ workerPc' = "answer" /\ infos' = Unexpired
        /\ answer' = {n \in {Unexpired[p] : p \in Pids} \ {None} : promise[n] = "value"}
    BY <1>8 DEF WorkerCollect
  <2>2. batch = <<>> /\ Len(<<>>) = 0 /\ cacheDtorPc # "destroyed"
    BY <2>1 DEF Args, Answers
  <2>3. Cached' \subseteq Cached /\ Cached' = {Unexpired[p] : p \in Pids} \ {None}
    BY <2>1 DEF Cached, Unexpired
  <2>4. ASSUME NEW i \in 1 .. Len(gets), NEW n \in atRequest[gets[i]], n \in Cached'
        PROVE  n \in answer' \/ promise[n] = "error"
    <3>1. n \in Nodes /\ pidOf[n] # None
      <4>1. PICK p \in Pids : n = infos[p] /\ n # None
        BY <2>3, <2>4 DEF Cached
      <4> QED
        BY <4>1, NoneAssumption DEF Queued, CacheTypeOK, NodeOrNone, NoneAssumption
    <3>2. promise[n] # "unset"
      <4> SUFFICES ASSUME promise[n] = "unset" PROVE FALSE
        OBVIOUS
      <4>1. Pending(n)
        BY <2>2, <3>1 DEF Queued
      <4>2. \E j \in 1 .. Len(lookupQueue) : lookupQueue[j] = n
        BY <2>2, <4>1 DEF Pending
      <4> QED
        BY <2>4, <4>2 DEF Answers
    <3>3. promise[n] \in {"value", "error"}
      BY <3>1, <3>2 DEF CacheTypeOK
    <3> QED
      BY <2>1, <2>3, <2>4, <3>3
  <2> QED
    BY <2>1, <2>2, <2>4 DEF Answers
<1>9. CASE WorkerAnswer
  <2>1. /\ gets # <<>> /\ gets' = Tail(gets) /\ workerPc = "answer"
        /\ workerPc' \in {"answer", "wait"} /\ Cached' = Cached
        /\ UNCHANGED <<cacheDtorPc, lookupQueue, promise, pidOf, atRequest>>
        /\ workerPc' = "answer" => answer' = answer
    BY <1>9 DEF WorkerAnswer, Args, Forget, Cached
  <2>2. \A i \in 1 .. Len(gets') : i + 1 \in 1 .. Len(gets) /\ gets'[i] = gets[i + 1]
    BY <1>0, <2>1
  <2>3. cacheDtorPc' # "destroyed"
    BY <2>1 DEF Answers
  <2>4. \A i \in 1 .. Len(gets') : \A n \in atRequest[gets'[i]] :
          \A j \in 1 .. Len(lookupQueue) : lookupQueue[j] # n
    BY <2>2, ZenonT(60) DEF Answers
  <2>5. \A i \in 1 .. Len(gets') : \A n \in atRequest[gets'[i]] \intersect Cached :
          n \in answer \/ promise[n] = "error"
    BY <2>1, <2>2 DEF Answers
  <2> QED
    BY <2>1, <2>3, <2>4, <2>5 DEF Answers
<1>10. CASE WorkerWait \/ WorkerTryWait \/ WorkerRead \/ WorkerReadDone \/ WorkerPrune
  <2>1. /\ UNCHANGED <<cacheDtorPc, lookupQueue, gets, pidOf, atRequest>>
        /\ workerPc # "exited" /\ workerPc' # "answer"
    BY <1>10 DEF WorkerWait, WorkerTryWait, WorkerRead, WorkerReadDone, WorkerPrune, Forget,
       AfterPrune
  <2> QED
    BY <2>1 DEF Answers
<1>11. CASE CacheDestroyBegin \/ CacheDestroyPost
  <2>1. /\ UNCHANGED <<workerPc, lookupQueue, gets, answer, promise, pidOf, infos, atRequest>>
        /\ cacheDtorPc' # "destroyed"
    BY <1>11 DEF CacheDestroyBegin, CacheDestroyPost
  <2> QED
    BY <1>2, <2>1 DEF Answers
<1>12. CASE CacheDestroyJoin
  <2>1. /\ UNCHANGED <<workerPc, gets, pidOf, atRequest>> /\ lookupQueue' = <<>>
        /\ workerPc = "exited"
    BY <1>12 DEF CacheDestroyJoin
  <2>2. Len(<<>>) = 0
    OBVIOUS
  <2> QED
    BY <2>1, <2>2 DEF Answers
<1>13. CASE Tick \/ UNCHANGED cacheVars
  BY <1>1, <1>2, <1>13 DEF Tick, cacheVars
<1> QED
  BY <1>4, <1>5, <1>6, <1>7, <1>8, <1>9, <1>10, <1>11, <1>12, <1>13
     DEF CacheNext, WorkerStep, CacheTerminated

\* getAllProcessInfos() misses no pid that was cached when it was called and that
\* has not expired or failed since: its answer is computed after every read that
\* was queued before it.
THEOREM NothingMissed == CacheSpec => []GetAllMissesNothing
<1>1. CacheTypeOK /\ Args /\ Queued /\ [CacheNext]_cacheVars => Queued'
  BY QueuedPreserved
<1>2. CacheTypeOK /\ Args /\ Callers /\ [CacheNext]_cacheVars => Callers'
  BY CallersPreserved
<1>3. CacheTypeOK /\ Args /\ Queued /\ Callers /\ Answers /\ [CacheNext]_cacheVars => Answers'
  BY AnswersPreserved
<1>4. CacheInit => Callers /\ Answers
  <2>1. Len(<<>>) = 0
    OBVIOUS
  <2> QED
    BY <2>1 DEF CacheInit, Callers, Answers, Distinct, Waiting
<1>5. CacheTypeOK /\ Answers => GetAllMissesNothing
  <2>1. CacheTypeOK => DOMAIN gets = 1 .. Len(gets)
    BY DEF CacheTypeOK
  <2> QED
    BY <2>1 DEF Answers, GetAllMissesNothing
<1> QED
  BY <1>1, <1>2, <1>3, <1>4, <1>5, InitQueued, TypeCorrect, PTL DEF CacheSpec
=============================================================================
