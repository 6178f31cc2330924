----------------------------- MODULE MCServices -----------------------------
(***************************************************************************)
(* The concurrent services, fairly scheduled, for TLC: those of Services   *)
(* and the ones instantiated below.  The initial state chooses the one     *)
(* that runs.  The others rest in their initial states.                    *)
(***************************************************************************)
EXTENDS Services

VARIABLES
  part,
  done, subscriptions, writeBuffer, sequenceNumber, unsubscribe, hasThrownException, hasSubscription, threadPc,
  readBuffer, lastObserved, threadDone, toVisit, publisherPc, ownerRef, handle, dtorPc, subscribedAt, observed,
  freed,
  infos, lookupQueue, getAllQueue, workerThreadShouldStop, sem, pidOf, promise, lastAccess, workerPc, batch, gets,
  namesSize, waterLevel, workerNow, answer, answered, pc, argPid, argNow, infoHandle, threadLocal, cacheDtorPc, clock,
  atRequest,
  faults, blockedChecks, checkPc, key, token, hands, cancelled, alive, count, hits

busVars == <<done, subscriptions, writeBuffer, sequenceNumber, unsubscribe, hasThrownException, hasSubscription,
             threadPc, readBuffer, lastObserved, threadDone, toVisit, publisherPc, ownerRef, handle, dtorPc,
             subscribedAt, observed, freed>>
cacheVars == <<infos, lookupQueue, getAllQueue, workerThreadShouldStop, sem, pidOf, promise, lastAccess, workerPc,
               batch, gets, namesSize, waterLevel, workerNow, answer, answered, pc, argPid, argNow, infoHandle,
               threadLocal, cacheDtorPc, clock, atRequest>>
faultVars == <<faults, blockedChecks, checkPc, key, token, hands, cancelled, alive, count, hits>>
processVars == <<process, exit, ours, reapedElsewhere, pidReused, strangerSignalled, processHandle, call, timer, future>>
pipeVars == <<threaded, piped, data, pipes, childEnds, echo, toSay, said, heard, toWrite, outputs, revents, readers,
              commPc, interrupts>>

Bus == INSTANCE TraceBus WITH
  Publishers <- {"p1", "p2"}, Subs <- {"s1"}, Capacity <- 2, MaxEvents <- 4
Cache == INSTANCE ProcessInfoCache WITH
  Threads <- {"t1", "t2"}, Pids <- {"pid"}, Nodes <- {"node"}, None <- "none", Expiry <- 0, MaxTime <- 0
Injector == INSTANCE FaultInjector WITH
  Checkers <- {"c1", "c2"}, Testers <- {"u1"}, Keys <- {"k1", "k2"}, Regexes <- {{"k1"}, {"k1", "k2"}},
  None <- "none", MaxFaults <- 1, Counts <- {0, 2}, pc <- checkPc
\* What the write callback has to write to the child.
FiveChunks == <<"a", "b", "c", "d", "e">>

ServicesInit ==
  /\ part \in {"TraceBus", "ProcessInfoCache", "FaultInjector", "SpawnedProcess", "Communicate"}
  /\ Bus!Init /\ Cache!CacheInit /\ Injector!Init
  /\ Process!Init /\ (part = "SpawnedProcess" \/ ours)
  /\ Comm!Init /\ (part = "Communicate" \/ (threaded /\ piped = Comm!Streams /\ echo = <<"stdout">>))

ServicesNext ==
  /\ UNCHANGED part
  /\ IF part = "TraceBus" THEN Bus!Next ELSE UNCHANGED busVars
  /\ IF part = "ProcessInfoCache" THEN Cache!CacheNext ELSE UNCHANGED cacheVars
  /\ IF part = "FaultInjector" THEN Injector!Next ELSE UNCHANGED faultVars
  /\ IF part = "SpawnedProcess" THEN Process!Next ELSE UNCHANGED processVars
  /\ IF part = "Communicate" THEN Comm!Next ELSE UNCHANGED pipeVars

\* The fairness of every service, for when it is the one that runs.
ServicesFairness ==
  /\ WF_busVars(part = "TraceBus" /\ Bus!ThreadStep)
  /\ \A p \in {"p1", "p2"} :
       /\ WF_busVars(part = "TraceBus" /\ Bus!PublishWoken(p))
       /\ WF_busVars(part = "TraceBus" /\ Bus!PublishNotify(p))
  /\ WF_busVars(part = "TraceBus" /\ Bus!Unsubscribe("s1"))
  /\ WF_busVars(part = "TraceBus" /\ Bus!DestroyBegin)
  /\ WF_busVars(part = "TraceBus" /\ Bus!DestroyNotify)
  /\ WF_busVars(part = "TraceBus" /\ Bus!DestroyJoin)
  /\ WF_cacheVars(part = "ProcessInfoCache" /\ Cache!WorkerStep)
  /\ \A t \in {"t1", "t2"} :
       WF_cacheVars(part = "ProcessInfoCache" /\
                    (Cache!LookupLocked(t) \/ Cache!AddRead(t) \/ Cache!AddWrite(t) \/ Cache!Post(t)
                     \/ Cache!GetAllReturn(t) \/ Cache!HandleGetReturn(t)))
  /\ WF_cacheVars(part = "ProcessInfoCache" /\ Cache!CacheDestroyPost)
  /\ WF_cacheVars(part = "ProcessInfoCache" /\ Cache!CacheDestroyJoin)
  /\ \A c \in {"c1", "c2"} : WF_faultVars(part = "FaultInjector" /\ Injector!CheckerStep(c))
  /\ \A u \in Injector!Unblockers : WF_faultVars(part = "FaultInjector" /\ Injector!Fulfil(u))
  /\ WF_processVars(part = "SpawnedProcess" /\ Process!ContinueCall)
  /\ WF_processVars(part = "SpawnedProcess" /\ Process!TimeoutExpired)
  /\ WF_pipeVars(part = "Communicate" /\ Comm!Parent)
  /\ WF_pipeVars(part = "Communicate" /\ Comm!Child)
  /\ \A s \in Comm!Outputs : WF_pipeVars(part = "Communicate" /\ Comm!ReaderStep(s))

servicesVars == <<part, busVars, cacheVars, faultVars, processVars, pipeVars>>

ServicesSpec == ServicesInit /\ [][ServicesNext]_servicesVars /\ ServicesFairness

-----------------------------------------------------------------------------
(* The progress that each service makes when it runs. *)

\* TraceBus-inl.h:46-86, 136-226: promised events arrive, publishers and the destructor go on.
BusProgress == part = "TraceBus" => Bus!BusProgress

\* ProcessInfoCache.cpp:163-167, 260-281, 312-393: callers and the destructor get their answers.
CacheProgress == part = "ProcessInfoCache" => Cache!CacheProgress

\* FaultInjector.cpp:57-118, 230-340: a check that is to be released is released.
ChecksReturn == part = "FaultInjector" => Injector!ChecksReturn

\* SpawnedProcess.cpp:837-875, 992-1021: terminateOrKill() and future_wait() come to an end.
CallsReturn == part = "SpawnedProcess" => Process!CallsReturn

\* SpawnedProcess.cpp:1067-1216: communicate() and the child never wait for each other for ever.
CommunicateReturns == part = "Communicate" => Comm!CommunicateReturns
=============================================================================
