------------------------------ MODULE Library ------------------------------
(***************************************************************************)
(* The small utilities with a state of their own: LazyInitialize, IDGen,   *)
(* RefPtr, IoFuture, LeaseCache, CoverageSet, BucketedLog, FaultInjector,  *)
(* Tracing, SpawnOptions, FileDescriptor and ImmediateFuture.  They share  *)
(* nothing.  What is stated of each here is checked by MCLibrary on small  *)
(* instances and is what LibraryProofs is about.                           *)
(***************************************************************************)
EXTENDS Naturals, FiniteSets, Sequences

CONSTANTS
  Threads, MaxInits,             \* LazyInitialize; Threads also of IDGen
  kRangeSize, Ranges,            \* IDGen
  Pointers,                      \* RefPtr
  MaxWaits,                      \* IoFuture
  Getters, Keys, MaxSize, MaxPromises,  \* LeaseCache
  MaxEnd,                        \* CoverageSet
  Size, MaxTime,                 \* BucketedLog
  Checkers, Testers, Regexes, MaxFaults, Counts,  \* FaultInjector, with the Keys of LeaseCache
  Tracers, kBufferPoints, MaxPoints,  \* Tracing
  MaxFd, Elsewhere, Targets, MaxOptions,  \* SpawnOptions; MaxFd also of FileDescriptor
  Objects, Capacity, IovMax, SendEnds, RecvEnds, MaxInterrupts,  \* FileDescriptor
  Count, MaxThens                \* ImmediateFuture

VARIABLES
  lazyPtr, inits, lazyPc, cond, result, seen,
  counter, localCounter, fetches, calls, handed,
  refPtr, dropping, refcnt, deleted,
  waits, ioPromise, suspended, timer, handler, ioAlive, eventsFailed,
  cache, leasePromise, fetching, inFlight, waiting, abandoned,
  set, added,
  buckets, windowStart, known,
  faults, blockedChecks, checkPc, key, token, hands, cancelled, injectorAlive, count, hits,
  enabled, clock, ring, currNum, alive, written, request, blocks, toFlush, tracepoints, returned,
  parentFds, others, descriptors, optionPipes, intended, lateOption, freeTarget, spawnCalls, phase, pending, childFds,
  pipeFd, raw, openFds, pipe, memory, sender, receiver, interrupts,
  alwaysDefer, lastTaken, promise, futures, chains, thens, consumer, semisIndices, results, done

ASSUME PointersAssumption == IsFiniteSet(Pointers) /\ "nobody" \notin Pointers
ASSUME MaxSizeAssumption == MaxSize \in Nat
ASSUME MaxEndAssumption == MaxEnd \in Nat
ASSUME RangeAssumption == kRangeSize \in Nat \ {0} /\ Ranges \in Nat \ {0}
ASSUME SizeAssumption == Size \in Nat \ {0} /\ MaxTime \in Nat
ASSUME CountsAssumption == Counts \subseteq Nat /\ MaxFaults \in Nat
ASSUME BufferAssumption == kBufferPoints \in Nat \ {0}
ASSUME FdAssumption == MaxFd \in Nat /\ MaxFd >= 2 /\ Elsewhere \subseteq 0 .. MaxFd /\ Targets \subseteq 0 .. MaxFd
ASSUME TransferAssumption ==
  /\ "pipe.write" \in Objects /\ "temporary" \notin Objects
  /\ Capacity \in Nat /\ IovMax \in Nat \ {0}
  /\ \A ends \in SendEnds \cup RecvEnds :
       ends \in Seq(Nat) /\ ends # <<>> /\ \A i, j \in 1 .. Len(ends) : i <= j => ends[i] <= ends[j]
ASSUME CountAssumption == Count \in Nat

Lazy == INSTANCE LazyInitialize WITH ptr <- lazyPtr, pc <- lazyPc
Ids == INSTANCE IDGen
Ref == INSTANCE RefPtr WITH ptr <- refPtr
Io == INSTANCE IoFuture WITH promise <- ioPromise, alive <- ioAlive
Lease == INSTANCE LeaseCache WITH Threads <- Getters, promise <- leasePromise
Coverage == INSTANCE CoverageSet
Log == INSTANCE BucketedLog
Injector == INSTANCE FaultInjector WITH None <- "none", pc <- checkPc, alive <- injectorAlive
Tracer == INSTANCE Tracing WITH Threads <- Tracers
Options == INSTANCE SpawnOptions WITH calls <- spawnCalls
Descriptor == INSTANCE FileDescriptor WITH fd <- pipeFd
Future == INSTANCE ImmediateFuture

lazyVars == <<lazyPtr, inits, lazyPc, cond, result, seen>>
idVars == <<counter, localCounter, fetches, calls, handed>>
refVars == <<refPtr, dropping, refcnt, deleted>>
ioVars == <<waits, ioPromise, suspended, timer, handler, ioAlive, eventsFailed>>
leaseVars == <<cache, leasePromise, fetching, inFlight, waiting, abandoned>>
coverageVars == <<set, added>>
logVars == <<buckets, windowStart, known>>
faultVars == <<faults, blockedChecks, checkPc, key, token, hands, cancelled, injectorAlive, count, hits>>
tracingVars == <<enabled, clock, ring, currNum, alive, written, request, blocks, toFlush, tracepoints, returned>>
spawnVars ==
  <<parentFds, others, descriptors, optionPipes, intended, lateOption, freeTarget, spawnCalls, phase, pending, childFds>>
pipeVars == <<pipeFd, raw, openFds, pipe, memory, sender, receiver, interrupts>>
futureVars == <<alwaysDefer, lastTaken, promise, futures, chains, thens, consumer, semisIndices, results, done>>

-----------------------------------------------------------------------------
\* LazyInitialize.h:22: a caller that looks after an object was made does not call init() again.
LateCallersReuse == Lazy!LateCallersReuse

\* IDGen.cpp:35-56: no ID is handed out twice, and zero only as the very last one.
IDsUniqueNonzero == Ids!IDsUniqueNonzero

\* RefPtr.h:36-50, 121-262: the object is deleted once, by the last owner.
DeletedByLastOwner == Ref!DeletedByLastOwner

\* IoFuture.cpp:27-80, IoFuture.h:52-62: a wait that is pending can end, and ends once.
WaitsSettle == Io!WaitsSettle

\* LeaseCache.h:48-70: a fetch that ends answers those who wait for it, and a late one replaces
\* nothing that is newer.
LeasesSettle == Lease!LeasesSettle

\* CoverageSet.cpp:21-95: covers() does not claim more than was added, and nothing is lost.
CoversOnlyCovered == Coverage!CoversOnlyCovered

\* BucketedLog.h:43-112: every bucket holds the samples of its tick.
BucketsAreWindow == Log!BucketsAreWindow

\* FaultInjector.cpp:57-118, 341-356: no blocked check is lost, no fault matches too often.
InjectorSound == Injector!InjectorSound

\* Tracing.cpp:13-36, Tracing.h:63-80: every tracepoint is returned once.
TracepointsOnce == Tracer!TracepointsOnce

\* SpawnedProcess.cpp:237-376, 533-561, 714-720: the child gets the files it was promised, and the
\* parent keeps its ends of the pipes only.
SpawnedAsConfigured == Options!SpawnedAsConfigured

\* FileDescriptor.cpp:25-116, 370-446: bytes arrive once and in place, descriptors have one owner.
DescriptorsSound == Descriptor!DescriptorsSound

\* ImmediateFuture.h:17-34, 386-388: results do not depend on when continuations run.
ResultIndependentOfTiming == Future!ResultIndependentOfTiming
=============================================================================
