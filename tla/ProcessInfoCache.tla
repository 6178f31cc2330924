-------------------------- MODULE ProcessInfoCache --------------------------
(***************************************************************************)
(* eden/common/utils/ProcessInfoCache.{h,cpp}: a map from pids to process  *)
(* infos that one worker thread fills in.  Callers queue a read under the  *)
(* state lock and post a semaphore after they release it; the worker takes *)
(* everything that is queued, eats the semaphore counts it believes belong *)
(* to what it took, reads outside the lock, and prunes expired entries.    *)
(*                                                                         *)
(* An action is one critical section of state_, one semaphore operation or *)
(* one promise being fulfilled.  A node is a ProcessInfoNode together with *)
(* the SharedPromise it owns jointly with its lookupQueue entry; what      *)
(* readInfo_ returns is reduced to whether it returned or threw.           *)
(***************************************************************************)
EXTENDS Integers, Sequences, FiniteSets

CONSTANTS
  Threads,   \* callers of the cache
  Pids,
  Nodes,     \* ProcessInfoNode objects that may be allocated (a bound)
  None,      \* null pointer, absent map entry
  Expiry,    \* expiry_
  MaxTime    \* bound on the clock

ASSUME NoneAssumption == None \notin Nodes /\ None \notin Pids
ASSUME TimeAssumption == Expiry \in Nat /\ MaxTime \in Nat
ASSUME FiniteAssumption == IsFiniteSet(Threads) /\ IsFiniteSet(Pids)

VARIABLES
  infos, lookupQueue, getAllQueue, workerThreadShouldStop,  \* struct State
  sem,                                                      \* sem_
  pidOf, promise, lastAccess,                               \* the nodes
  workerPc, batch, gets, namesSize, waterLevel, workerNow, answer,
  answered,                 \* callers whose getAll promise is fulfilled
  pc, argPid, argNow,       \* each caller's position, pid argument and `now`
  infoHandle,                   \* the ProcessInfoHandle a caller keeps
  threadLocal,              \* RealThreadLocalCache: weak pointers
  cacheDtorPc, clock,
  atRequest                 \* history: the map when each pending getAll was queued

lockedVars  == <<infos, lookupQueue, getAllQueue, workerThreadShouldStop>>
nodeVars   == <<pidOf, promise, lastAccess>>
workerVars == <<workerPc, batch, gets, namesSize, waterLevel, workerNow, answer>>
callVars   == <<pc, argPid, argNow, answered>>
holderVars    == <<infoHandle, threadLocal>>
envVars    == <<cacheDtorPc, clock>>
cacheVars == <<lockedVars, sem, nodeVars, workerVars, callVars, holderVars, envVars, atRequest>>

NodeOrNone == Nodes \union {None}

CacheTypeOK ==
  /\ infos \in [Pids -> NodeOrNone]
  /\ lookupQueue \in Seq(Nodes) /\ getAllQueue \in Seq(Threads)
  /\ workerThreadShouldStop \in BOOLEAN
  /\ sem \in Nat
  /\ pidOf \in [Nodes -> Pids \union {None}]
  /\ promise \in [Nodes -> {"unset", "value", "error"}]
  /\ lastAccess \in [Nodes -> Nat]
  /\ workerPc \in {"wait", "lock", "tryWait", "read", "prune", "collect", "answer", "exited"}
  /\ batch \in Seq(Nodes) /\ gets \in Seq(Threads)
  /\ namesSize \in Nat /\ waterLevel \in Nat /\ workerNow \in Nat
  /\ answer \subseteq Nodes /\ answered \subseteq Threads
  /\ pc \in [Threads -> {"idle", "lookup", "addRead", "addWrite", "post",
                         "postGetAll", "getAll", "get"}]
  /\ argPid \in [Threads -> Pids \union {None}] /\ argNow \in [Threads -> Nat]
  /\ infoHandle \in [Threads -> NodeOrNone]
  /\ threadLocal \in [Threads -> [Pids -> NodeOrNone]]
  /\ cacheDtorPc \in {"alive", "post", "join", "destroyed"}
  /\ clock \in Nat
  /\ atRequest \in [Threads -> SUBSET Nodes]

CacheInit ==
  /\ infos = [p \in Pids |-> None]
  /\ lookupQueue = <<>> /\ getAllQueue = <<>>
  /\ workerThreadShouldStop = FALSE
  /\ sem = 0
  /\ pidOf = [n \in Nodes |-> None]
  /\ promise = [n \in Nodes |-> "unset"]
  /\ lastAccess = [n \in Nodes |-> 0]
  /\ workerPc = "wait"
  /\ batch = <<>> /\ gets = <<>>
  /\ namesSize = 0 /\ waterLevel = 0 /\ workerNow = 0
  /\ answer = {} /\ answered = {}
  /\ pc = [t \in Threads |-> "idle"]
  /\ argPid = [t \in Threads |-> None] /\ argNow = [t \in Threads |-> 0]
  /\ infoHandle = [t \in Threads |-> None]
  /\ threadLocal = [t \in Threads |-> [p \in Pids |-> None]]
  /\ cacheDtorPc = "alive"
  /\ clock = 0
  /\ atRequest = [t \in Threads |-> {}]

Allocated == {n \in Nodes : pidOf[n] # None}
Cached == {infos[p] : p \in Pids} \ {None}

\* weak_ptr::lock() succeeds: the map or a handle owns the node.
Alive(n) == n \in Cached \/ \E t \in Threads : infoHandle[t] = n

\* recordAccess(): an unordered atomic store, so an older `now` may win.
RecordAccess(n, now) == lastAccess' = [lastAccess EXCEPT ![n] = now]

\* A caller may start an operation that needs a new node only while the bound
\* leaves one for it.
Room ==
  Cardinality(Allocated)
    + Cardinality({t \in Threads : pc[t] \in {"lookup", "addRead", "addWrite"}})
      < Cardinality(Nodes)

\* Using the cache is legal until its destructor starts.
MayCall(t) == pc[t] = "idle" /\ cacheDtorPc = "alive"

Call(t, where, pid) ==
  /\ pc' = [pc EXCEPT ![t] = where]
  /\ argPid' = [argPid EXCEPT ![t] = pid]
  /\ argNow' = [argNow EXCEPT ![t] = clock]
  /\ UNCHANGED answered

\* Move on to a point where `pid` and `now` are no longer needed.
Goto(t, where) ==
  /\ pc' = [pc EXCEPT ![t] = where]
  /\ argPid' = [argPid EXCEPT ![t] = None]
  /\ argNow' = [argNow EXCEPT ![t] = 0]
  /\ UNCHANGED answered

\* The miss path shared by lookup() and add(), under the write lock: a new node
\* goes into the queue, the map and the thread-local cache.
Enqueue(t, n) ==
  LET pid == argPid[t] IN
  /\ n \in Nodes \ Allocated
  /\ pidOf' = [pidOf EXCEPT ![n] = pid]
  /\ RecordAccess(n, argNow[t])
  /\ lookupQueue' = Append(lookupQueue, n)
  /\ infos' = [infos EXCEPT ![pid] = IF @ = None THEN n ELSE @]   \* emplace()
  /\ threadLocal' = [threadLocal EXCEPT ![t][pid] = n]
  /\ Goto(t, "post")
  /\ UNCHANGED <<promise, getAllQueue, workerThreadShouldStop>>

-----------------------------------------------------------------------------
(* lookup() *)

\* The thread-local cache answers with a node that is still alive ...
LookupLocal(t, pid) ==
  LET n == threadLocal[t][pid] IN
  /\ MayCall(t)
  /\ n # None
  /\ Alive(n)
  /\ RecordAccess(n, clock)
  /\ infoHandle' = [infoHandle EXCEPT ![t] = n]
  /\ UNCHANGED <<lockedVars, sem, pidOf, promise, workerVars, callVars, threadLocal,
                 envVars, atRequest>>

\* ... or not.
LookupMiss(t, pid) ==
  /\ MayCall(t)
  /\ Room
  /\ threadLocal[t][pid] = None \/ ~Alive(threadLocal[t][pid])
  /\ Call(t, "lookup", pid)
  /\ UNCHANGED <<lockedVars, sem, nodeVars, workerVars, holderVars, envVars, atRequest>>

\* The write-locked part: a hit does not record the access.
LookupLocked(t) ==
  /\ pc[t] = "lookup"
  /\ \/ /\ infos[argPid[t]] # None
        /\ infoHandle' = [infoHandle EXCEPT ![t] = infos[argPid[t]]]
        /\ Goto(t, "idle")
        /\ UNCHANGED <<lockedVars, nodeVars, threadLocal>>
     \/ /\ infos[argPid[t]] = None
        /\ \E n \in Nodes : Enqueue(t, n) /\ infoHandle' = [infoHandle EXCEPT ![t] = n]
  /\ UNCHANGED <<sem, workerVars, envVars, atRequest>>

-----------------------------------------------------------------------------
(* add() *)

\* threadLocalCache_.has(): the pid is known here, dead node or not.
AddLocal(t, pid) ==
  /\ MayCall(t)
  /\ threadLocal[t][pid] # None
  /\ UNCHANGED cacheVars

AddMiss(t, pid) ==
  /\ MayCall(t)
  /\ Room
  /\ threadLocal[t][pid] = None
  /\ Call(t, "addRead", pid)
  /\ UNCHANGED <<lockedVars, sem, nodeVars, workerVars, holderVars, envVars, atRequest>>

\* The check of tryRlockCheckBeforeUpdate.
AddHit(t) ==
  /\ infos[argPid[t]] # None
  /\ RecordAccess(infos[argPid[t]], argNow[t])
  /\ Goto(t, "idle")
  /\ UNCHANGED <<lockedVars, pidOf, promise, threadLocal>>

\* Under the read lock ...
AddRead(t) ==
  /\ pc[t] = "addRead"
  /\ \/ AddHit(t)
     \/ /\ infos[argPid[t]] = None
        /\ pc' = [pc EXCEPT ![t] = "addWrite"]
        /\ UNCHANGED <<argPid, argNow, answered, lockedVars, nodeVars, threadLocal>>
  /\ UNCHANGED <<sem, workerVars, infoHandle, envVars, atRequest>>

\* Mutant of AddWrite: the check is not repeated under the write lock.
AddWrite_NoRecheck(t) ==
  /\ pc[t] = "addWrite"
  /\ \E n \in Nodes : Enqueue(t, n)
  /\ UNCHANGED <<sem, workerVars, infoHandle, envVars, atRequest>>

\* ... and again under the write lock, "something may have raced".
AddWrite(t) ==
  /\ pc[t] = "addWrite"
  /\ \/ AddHit(t)
     \/ infos[argPid[t]] = None /\ \E n \in Nodes : Enqueue(t, n)
  /\ UNCHANGED <<sem, workerVars, infoHandle, envVars, atRequest>>

-----------------------------------------------------------------------------
(* getAllProcessInfos(), and the semaphore *)

GetAll(t) ==
  /\ MayCall(t)
  /\ getAllQueue' = Append(getAllQueue, t)
  /\ Goto(t, "postGetAll")
  /\ atRequest' = [atRequest EXCEPT ![t] = Cached]
  /\ UNCHANGED <<infos, lookupQueue, workerThreadShouldStop, sem, nodeVars, workerVars,
                 holderVars, envVars>>

\* sem_.post(), always after the unlock.
Post(t) ==
  /\ pc[t] \in {"post", "postGetAll"}
  /\ sem' = sem + 1
  /\ Goto(t, IF pc[t] = "post" THEN "idle" ELSE "getAll")
  /\ UNCHANGED <<lockedVars, nodeVars, workerVars, holderVars, envVars, atRequest>>

\* future.get() returns.
GetAllReturn(t) ==
  /\ pc[t] = "getAll"
  /\ t \in answered
  /\ pc' = [pc EXCEPT ![t] = "idle"]
  /\ answered' = answered \ {t}
  /\ atRequest' = [atRequest EXCEPT ![t] = {}]
  /\ UNCHANGED <<lockedVars, sem, nodeVars, workerVars, argPid, argNow, holderVars, envVars>>

-----------------------------------------------------------------------------
(* ProcessInfoHandle *)

\* get_optional() and the non-blocking start of get().
HandleGet(t) ==
  /\ pc[t] = "idle"
  /\ infoHandle[t] # None
  /\ RecordAccess(infoHandle[t], clock)
  /\ Goto(t, "get") \/ UNCHANGED callVars
  /\ UNCHANGED <<lockedVars, sem, pidOf, promise, workerVars, holderVars, envVars, atRequest>>

\* get() returns, with the value or by throwing the reader's exception.  The
\* promise cannot be broken: the handle's node owns it.
HandleGetReturn(t) ==
  /\ pc[t] = "get"
  /\ promise[infoHandle[t]] # "unset"
  /\ Goto(t, "idle")
  /\ UNCHANGED <<lockedVars, sem, nodeVars, workerVars, holderVars, envVars, atRequest>>

HandleDrop(t) ==
  /\ pc[t] = "idle"
  /\ infoHandle[t] # None
  /\ infoHandle' = [infoHandle EXCEPT ![t] = None]
  /\ UNCHANGED <<lockedVars, sem, nodeVars, workerVars, callVars, threadLocal, envVars,
                 atRequest>>

-----------------------------------------------------------------------------
(* workerThread() *)

WorkerWait ==
  /\ workerPc = "wait"
  /\ sem > 0
  /\ sem' = sem - 1
  /\ workerPc' = "lock"
  /\ UNCHANGED <<lockedVars, nodeVars, batch, gets, namesSize, waterLevel, workerNow,
                 answer, callVars, holderVars, envVars, atRequest>>

\* Mutants of TakeQueues: the lookups are copied, not swapped out; one lookup is
\* taken at a time.
TakeQueues_Copied ==
  /\ batch' = lookupQueue /\ UNCHANGED lookupQueue
  /\ gets' = getAllQueue /\ getAllQueue' = <<>>
TakeQueues_OneLookup ==
  /\ \/ lookupQueue = <<>> /\ batch' = <<>> /\ UNCHANGED lookupQueue
     \/ lookupQueue # <<>> /\ batch' = <<Head(lookupQueue)>> /\ lookupQueue' = Tail(lookupQueue)
  /\ gets' = getAllQueue /\ getAllQueue' = <<>>
TakeQueues ==
  /\ batch' = lookupQueue /\ lookupQueue' = <<>>
  /\ gets' = getAllQueue /\ getAllQueue' = <<>>

\* Stop, or take both queues and remember the size of the map.
WorkerLock ==
  /\ workerPc = "lock"
  /\ IF workerThreadShouldStop
     THEN workerPc' = "exited" /\ UNCHANGED <<lookupQueue, getAllQueue, batch, gets, namesSize>>
     ELSE /\ workerPc' = "tryWait"
          /\ TakeQueues
          /\ namesSize' = Cardinality({p \in Pids : infos[p] # None})
  /\ UNCHANGED <<infos, workerThreadShouldStop, sem, nodeVars, waterLevel, workerNow,
                 answer, callVars, holderVars, envVars, atRequest>>

Taken == Len(batch) + Len(gets)

\* Mutant of EatCounts: one count per entry, the one wait() took included.
EatCounts_OneTooMany == IF Taken <= sem THEN Taken ELSE sem
\* sem_.tryWait(n) takes at most n counts, and never blocks.
EatCounts == IF Taken = 0 THEN 0 ELSE IF Taken - 1 <= sem THEN Taken - 1 ELSE sem

WorkerTryWait ==
  /\ workerPc = "tryWait"
  /\ sem' = sem - EatCounts
  /\ waterLevel' = waterLevel + 2 * Len(batch)
  /\ workerPc' = "read"
  /\ UNCHANGED <<lockedVars, nodeVars, batch, gets, namesSize, workerNow, answer,
                 callVars, holderVars, envVars, atRequest>>

\* readInfo_() returns or throws; setWith() fulfils the promise either way.
WorkerRead ==
  /\ workerPc = "read"
  /\ batch # <<>>
  /\ \E r \in {"value", "error"} : promise' = [promise EXCEPT ![Head(batch)] = r]
  /\ batch' = Tail(batch)
  /\ UNCHANGED <<lockedVars, sem, pidOf, lastAccess, workerPc, gets, namesSize, waterLevel,
                 workerNow, answer, callVars, holderVars, envVars, atRequest>>

\* The gets come next, or another round, in which the locals start afresh.
AfterPrune == IF gets = <<>> THEN "wait" ELSE "collect"
Forget(next, names, now) ==
  /\ workerPc' = next
  /\ namesSize' = IF next = "wait" THEN 0 ELSE names
  /\ workerNow' = IF next = "wait" THEN 0 ELSE now

\* All additions are read before the clock is.
WorkerReadDone ==
  /\ workerPc = "read"
  /\ batch = <<>>
  /\ Forget(IF waterLevel > namesSize THEN "prune" ELSE AfterPrune, namesSize, clock)
  /\ UNCHANGED <<lockedVars, sem, nodeVars, batch, gets, waterLevel, answer,
                 callVars, holderVars, envVars, atRequest>>

\* The map after clearExpired(workerNow).
Unexpired ==
  [p \in Pids |-> IF infos[p] # None /\ workerNow - lastAccess[infos[p]] >= Expiry
                  THEN None ELSE infos[p]]

WorkerPrune ==
  /\ workerPc = "prune"
  /\ infos' = Unexpired
  /\ waterLevel' = 0
  /\ Forget(AfterPrune, namesSize, workerNow)
  /\ UNCHANGED <<lookupQueue, getAllQueue, workerThreadShouldStop, sem, nodeVars, batch, gets,
                 answer, callVars, holderVars, envVars, atRequest>>

\* The answer to the pending gets: what is cached, ready and has a value.
WorkerCollect ==
  /\ workerPc = "collect"
  /\ infos' = Unexpired
  /\ answer' = {n \in {Unexpired[p] : p \in Pids} \ {None} : promise[n] = "value"}
  /\ workerPc' = "answer"
  /\ UNCHANGED <<lookupQueue, getAllQueue, workerThreadShouldStop, sem, nodeVars, batch, gets,
                 namesSize, waterLevel, workerNow, callVars, holderVars, envVars, atRequest>>

\* One promise of getAllQueue is fulfilled; its caller may not even have posted.
WorkerAnswer ==
  /\ workerPc = "answer"
  /\ gets' = Tail(gets)
  /\ answered' = answered \union {Head(gets)}
  /\ Forget(IF Len(gets) = 1 THEN "wait" ELSE "answer", namesSize, workerNow)
  /\ answer' = IF Len(gets) = 1 THEN {} ELSE answer
  /\ UNCHANGED <<lockedVars, sem, nodeVars, batch, waterLevel,
                 pc, argPid, argNow, holderVars, envVars, atRequest>>

WorkerStep ==
  \/ WorkerWait \/ WorkerLock \/ WorkerTryWait \/ WorkerRead \/ WorkerReadDone
  \/ WorkerPrune \/ WorkerCollect \/ WorkerAnswer

-----------------------------------------------------------------------------
(* ~ProcessInfoCache() *)

\* The owner destroys the cache while nobody is inside lookup(), add() or
\* getAllProcessInfos(); a thread may be blocked in ProcessInfoHandle::get().
CacheDestroyBegin ==
  /\ cacheDtorPc = "alive"
  /\ \A t \in Threads : pc[t] \in {"idle", "get"}
  /\ workerThreadShouldStop' = TRUE
  /\ cacheDtorPc' = "post"
  /\ UNCHANGED <<infos, lookupQueue, getAllQueue, sem, nodeVars, workerVars, callVars,
                 holderVars, clock, atRequest>>

\* Mutant of StopPost: the destructor does not wake the worker.
StopPost_Missing == UNCHANGED sem
StopPost == sem' = sem + 1

CacheDestroyPost ==
  /\ cacheDtorPc = "post"
  /\ StopPost
  /\ cacheDtorPc' = "join"
  /\ UNCHANGED <<lockedVars, nodeVars, workerVars, callVars, holderVars, clock, atRequest>>

\* join() returns and the members are destroyed, what is still queued included.
CacheDestroyJoin ==
  /\ cacheDtorPc = "join"
  /\ workerPc = "exited"
  /\ cacheDtorPc' = "destroyed"
  /\ infos' = [p \in Pids |-> None]
  /\ lookupQueue' = <<>>
  /\ UNCHANGED <<getAllQueue, workerThreadShouldStop, sem, nodeVars, workerVars, callVars,
                 holderVars, clock, atRequest>>

Tick ==
  /\ clock < MaxTime
  /\ clock' = clock + 1
  /\ UNCHANGED <<lockedVars, sem, nodeVars, workerVars, callVars, holderVars, cacheDtorPc, atRequest>>

CacheTerminated ==
  /\ cacheDtorPc = "destroyed"
  /\ \A t \in Threads : pc[t] \in {"idle", "get"}
  /\ UNCHANGED cacheVars

CallerStep(t) ==
  \/ \E pid \in Pids : LookupLocal(t, pid) \/ LookupMiss(t, pid)
                       \/ AddLocal(t, pid) \/ AddMiss(t, pid)
  \/ LookupLocked(t) \/ AddRead(t) \/ AddWrite(t) \/ GetAll(t) \/ Post(t)
  \/ GetAllReturn(t)
  \/ HandleGet(t) \/ HandleGetReturn(t) \/ HandleDrop(t)

CacheNext ==
  \/ \E t \in Threads : CallerStep(t)
  \/ WorkerStep
  \/ CacheDestroyBegin \/ CacheDestroyPost \/ CacheDestroyJoin
  \/ Tick
  \/ CacheTerminated

\* Threads inside the cache keep running; readInfo_ returns.
CacheFairness ==
  /\ WF_cacheVars(WorkerStep)
  /\ \A t \in Threads :
       WF_cacheVars(LookupLocked(t) \/ AddRead(t) \/ AddWrite(t) \/ Post(t)
               \/ GetAllReturn(t) \/ HandleGetReturn(t))
  /\ WF_cacheVars(CacheDestroyPost) /\ WF_cacheVars(CacheDestroyJoin)

CacheSpec == CacheInit /\ [][CacheNext]_cacheVars
CacheFairSpec == CacheSpec /\ CacheFairness

-----------------------------------------------------------------------------
(* What the cache promises *)

\* Counts that callers (or the destructor) have yet to post.
UnpostedBy == {t \in Threads : pc[t] \in {"post", "postGetAll"}}
Unposted == Cardinality(UnpostedBy) + (IF cacheDtorPc = "post" THEN 1 ELSE 0)

\* The semaphore never runs short: when the worker is about to sleep, every
\* queued request (and the order to stop) still has a count, posted or on its
\* way, although tryWait() eats counts of requests it did not take and skips
\* counts that were not posted yet.  No request is stranded.
NoStrandedRequest ==
  workerPc = "wait" =>
    sem + Unposted >= Len(lookupQueue) + Len(getAllQueue)
                      + (IF workerThreadShouldStop THEN 1 ELSE 0)

\* Every node whose info was not read yet is queued, or in the worker's hands,
\* exactly once, so setWith() neither forgets a promise nor fulfils one twice.
EveryReadPendingOnce ==
  LET pending == batch \o lookupQueue IN
  /\ \A i, j \in DOMAIN pending : pending[i] = pending[j] => i = j
  /\ \A i \in DOMAIN pending : promise[pending[i]] = "unset"
  /\ cacheDtorPc # "destroyed" =>
       \A n \in Allocated : promise[n] = "unset" => \E i \in DOMAIN pending : pending[i] = n

\* The double-checked locking of add() queues a pid once: a second read of the
\* same pid is queued only after the node of the first was pruned.
OneReadPerPid ==
  \A i, j \in DOMAIN lookupQueue :
    i < j /\ pidOf[lookupQueue[i]] = pidOf[lookupQueue[j]] => lookupQueue[i] \notin Cached

\* "Process all additions before any gets so none are missed" (cpp:348): an
\* answer holds every pid that was cached when the get was queued, unless it
\* expired meanwhile or its read failed.
GetAllMissesNothing ==
  workerPc = "answer" =>
    \A i \in DOMAIN gets : \A n \in atRequest[gets[i]] \intersect Cached :
      n \in answer \/ promise[n] = "error"

\* Whatever counts the worker's tryWait() eats, getAllProcessInfos() returns, and a
\* blocked ProcessInfoHandle::get() does as long as the cache lives.
BlockedCallsReturn ==
  \A t \in Threads :
    /\ (pc[t] = "getAll") ~> (pc[t] = "idle")
    /\ (pc[t] = "get") ~> (pc[t] = "idle" \/ cacheDtorPc # "alive")

\* The destructor returns, whatever is queued.
CacheDestructorReturns == (cacheDtorPc = "post") ~> (cacheDtorPc = "destroyed")

\* ProcessInfoCache.cpp:163-167, 260-281, 312-393: nobody waits for ever for a worker that has
\* eaten one count too many: neither the callers nor the destructor.
CacheProgress == BlockedCallsReturn /\ CacheDestructorReturns

\* ProcessInfoCache.h:72-73 on ProcessInfoHandle::get(): "May throw, notably if
\* the ProcessInfoCache is destroyed before it could read the process info."
GetReturnsOrThrows == \A t \in Threads : (pc[t] = "get") ~> (pc[t] = "idle")
=============================================================================
