# TLA+ verification of edencommon

edencommon (`src/eden/common`) is the C++ library that EdenFS and Watchman
share: telemetry, and utilities for concurrency, sockets, processes and paths.
It has no main program. What it has to get right is the behaviour of a dozen
components that other programs use from many threads, and this project models
those components one by one.

Paths below are relative to `src/eden/common/`.

## 1. Inventory

| Component | State | Operations | What is hard | What makes it correct |
|---|---|---|---|---|
| `telemetry/TraceBus` | two event buffers, sequence number, intrusive list of subscriptions, `done`, two condition variables, one thread | `publish`, `subscribe`, `unsubscribe`, handle, `threadLoop`, destructor | publishers block on a full buffer; notifications are sent after the unlock and only on transitions; the list is traversed without the lock while it is changed; a subscriber throws in a batch; the handle's weak pointer races the last owner | events reach every subscriber once and in order; nobody sleeps through a wakeup; a deleted subscription is not used; the destructor returns |
| `utils/ProcessInfoCache` | map pid → node, two queues, a semaphore, one worker, thread-local weak pointers, expiry times | `lookup`, `add`, `getAllProcessInfos`, `ProcessInfoHandle`, `workerThread`, destructor | posts follow the unlock, `tryWait` eats counts of other requests; double-checked locking; nodes expire while their read is queued | no request is stranded; one read per pid; answers are complete; blocked calls return |
| `telemetry/SubprocessScribeLogger` (with `utils/SpawnedProcess`) | byte-limited message queue, stop flags, writer thread, child process and its pipe | constructor, `log`, `writerThread`, destructor, `closeProcess` | a child that hangs, ignores SIGTERM or dies; the flush timeout races the writer | messages neither lost nor reordered; byte accounting; the destructor is bounded |
| `utils/UnixSocket` | descriptor, registered events, timeout, send queue, receive buffers, callbacks | `connect`, `send`, `setReceiveCallback`, `close`, `closeNow`, `destroy`, event handlers | every callback may re-enter the socket; failures in the middle of the queue; graceful close; destruction from a callback | every send is answered once and in order; registered for exactly what it waits for; nothing happens on a closed socket |
| `utils/FutureUnixSocket` | a UnixSocket, queue of promises with timeouts | `connect`, `send`, `receive` | a timeout or a closing socket races a message; continuations re-enter; messages travel in pieces, descriptors with the first byte | messages arrive as sent; promises are fulfilled once, in order |
| `utils/FaultInjector` | faults with their remaining counts, blocked checks, cancellation tokens | `check*`, `waitForCancelOrTimeout`, `inject*`, `removeFault`, `unblock*`, destructor | a fault is looked up under one lock and the check enlisted under another; promises are fulfilled outside the lock; tokens are set and used under two locks | no blocked check is forgotten or answered twice; counts are exact; waiting ends |
| `utils/MappedDiskVector` | mapped file: header and entries; a file lock | `open`, `createOrOverwrite`, `emplace_back`, `pop_back`, migration | crashes and failures between the steps, in growth and migration; another process | what is at the path changes only by whole operations; no access beyond the file |
| `utils/SpawnedProcess` | descriptor maps, pipe ends, pid, status, poll timer | options, spawn, `wait*`, signals, `future_wait`, `communicate` | `dup2` in an arbitrary order; a pid reaped elsewhere; full pipes both ways | the child gets what was configured; statuses are true; nothing is lost and nobody waits for ever |
| `utils/FileDescriptor`, `utils/Pipe` | a descriptor | ownership, `readFull`, `writevFull`, ... | partial transfers, EINTR, empty buffers | bytes once and in place; one owner |
| `utils/ImmediateFuture` | immediate value, semi-future or moved-from | `thenTry` & co., `get`, `collectAll*` | the moment a continuation runs depends on readiness, laziness, build | results do not |
| `utils/IoFuture` | promise, timer, handler | `wait`, two event callbacks | `wait()` within `wait()`, event refused by libevent | a pending wait can end and ends once |
| `utils/LeaseCache` | LRU of shared promises | `get`, `set`, `erase` | fetch outside the lock, eviction, late results | a fetch that ends answers everyone who waits for it; a late one replaces nothing newer |
| `utils/LazyInitialize` | synchronized shared pointer | `lazyInitialize` | two locks | `init` once when needed |
| `utils/IDGen` | global atomic, per-thread range | `generateUniqueID` | range boundaries, wrap-around | unique, nonzero |
| `utils/RefPtr` | intrusive count | copy, move, `reset` | the last two owners let go together | deleted once, by the last |
| `telemetry/Tracing` | per-thread rings, request and block ids | blocks, `getAllTracepoints` | rings are flushed one by one while threads write and end | every tracepoint once |
| `telemetry/RequestMetricsScope` | locked list of watches | constructor, moves, destructor, reads | the watch starts before the lock | the front is the longest |
| `utils/PathFuncs`, `utils/PathMap`, `utils/PathMapMutator` | strings; sorted vectors | sequential | `..`, prefixes, iterators both ways; marks and suffixes, case | agree with lists of components, with a dictionary |
| `utils/BucketedLog`, `utils/CoverageSet` | ring of buckets; interval set | sequential | window edge; touching and overlapping intervals | agree with the samples, with the points |

Interaction. Components talk through mutexes, condition variables, semaphores
and callbacks; none sends messages over a network to another component of this
library. `SubprocessScribeLogger` owns a `SpawnedProcess`, which owns
`FileDescriptor`s and `Pipe`s; `FutureUnixSocket` owns a `UnixSocket`;
`PathMap` compares keys with `PathFuncs`; `ProcessInfoCache` uses
`Synchronized.h`. Everything else stands by itself.

`PROJECT.json` lists all components, including those that are not modelled, and
the hazards, each at the line where it bites.

## 2. Modules

Each component module has one action per critical section, notification,
semaphore operation or callback. These are the points where another thread (or, in a
socket, the user's callback) can act. Locks are not modelled as variables:
a critical section is one atomic step.

### TraceBus

| Variables | Code |
|---|---|
| `done, subscriptions, writeBuffer, sequenceNumber` | `State` under the mutex |
| `unsubscribe, hasThrownException` | fields of `Subscription` |
| `hasSubscription` | the atomic flag |
| `threadPc, readBuffer, lastObserved, threadDone, toVisit` | position and locals of `threadLoop` |
| `publisherPc` | position of each publisher in `publish()` |
| `ownerRef, handle, dtorPc` | the owner's shared pointer, the handles' weak pointers, the destructor |
| `subscribedAt, observed, freed` | history |

`Publish`, `PublishWoken`, `PublishNotify` are `publish()`; `Subscribe`,
`HandleLock`, `Unsubscribe` the subscription and its handle; `ThreadTop`,
`ThreadWoken`, `ThreadNotifyFull`, `Observe`, `ThreadClear` one round of
`threadLoop`; `OwnerRelease`, `DestroyBegin`, `DestroyNotify`, `DestroyJoin` the
destruction. `SpuriousWakeup` wakes a waiter nobody notified. An event is its sequence
number. The list is a set, because a traversal that has read the head does not
meet what is pushed before it, and observers have no order among themselves.
Callbacks observe and may throw; they do not call back into the bus.

### ProcessInfoCache

`infos, lookupQueue, getAllQueue, workerThreadShouldStop` are the `State`; `sem`
the LifoSem; `pidOf, promise, lastAccess` the nodes; `workerPc, batch, gets,
namesSize, waterLevel, workerNow, answer` the worker's locals; `pc, argPid,
argNow, answered, infoHandle, threadLocal` the callers. `lookup()` is `LookupLocal`,
`LookupMiss`, `LookupLocked`; `add()` is `AddLocal`, `AddMiss`, `AddRead`,
`AddWrite`; then `GetAll`, `Post`, `GetAllReturn`, the handle's `HandleGet`,
`HandleGetReturn`, `HandleDrop`, the worker's eight `Worker...` steps and the
three of the destructor. The content of a process info is reduced to whether
`readInfo_` returned or threw. The thread-local cache never evicts for size (256
entries in the code against two pids here).

### SubprocessScribeLogger

`shouldStop, didStop, totalBytes, messages` are its `State`; `writerPc, current,
fd` the writer thread; `dtorPc` runs from the destructor through
`waitOrTerminateOrKill` to the join; `process, pipe, childRead` are the child.
A message is the number under which it was accepted; `ends` holds running totals, from
which its size follows. The child reads, stops reading or dies at any moment.
`fd` says who owns the write end: `process_.stdinFd()` moves it to the writer, so
`closeParentFd()` finds something to close only if the writer has not started.

### UnixSocket

Single-threaded, so interleaving means re-entrance. `stack` is the C++ call
stack: a frame names the point where a method goes on after a callback, `user`
is a running callback, from which every public method may be called. An action
runs the topmost method up to its next callback or return. `destroyed`
follows DelayedDestruction: with a guard on the stack the destruction is pending
until the last guarded frame has gone. One `sendmsg` finishes the message, leaves it
incomplete, or fails: what is inside a message is the matter of the next module.

### UnixSocketStream, FutureUnixSocket

`UnixSocketStream` is one direction of a connection: `sendQueue` holds the entries
with the iovecs and files that are left, `wire` the bytes in the kernel,
`recv` the receiver's header, data and files. The kernel takes and gives any
number of bytes; files travel with the first byte of their `sendmsg`. Every byte
remembers its message and place, so that a receiver which mixes messages up is
seen to. Its operators are the steps of `FutureUnixSocket`, which EXTENDS it:
`recvQueue` holds the promises that wait, `failing` the local queue of a
`failReceiveQueue()` under way (each failed promise runs a continuation that may
call `receive`, `closeNow` or `connect`), `answers` what became of each receive.
Sizes are taken modulo `SizeModulus` where the code puts them into 32 bits.

### FaultInjector

`faults` and `blockedChecks` are the `State`; a fault is the set of keys its
regular expression matches, its remaining count, its behaviour and, if it waits
for a cancellation, the token. `pc, key, token` are the checking threads (or
futures), `hands` the promises that a tester or the destructor has taken out and
not fulfilled yet; the indices of the list say which are taken and which stay. All the `check*` methods are `Check`, followed by `Enlist`
(block), `PollCancelled`/`PollTimeout` (block with cancel) or `SleepEnds` (delay);
`waitForCancelOrTimeout` is `UpdateToken`, `CheckAfterUpdate`. All `inject*`
methods are `Inject`, all `unblock*` methods are `Unblock` and then one `Fulfil`
per promise. Key classes share nothing, so there is one; fault injection is
enabled (otherwise every method returns at once or throws). Faults that wait for
a cancellation are defined with the placeholder token that the header speaks of.
The injector is destroyed only while nobody is inside one of its methods.

### MappedDiskVector, PersistentVector

`header, entryCount, records` are the files (inodes), `path, tmpPath` the
directory, `lock` the flocks; `pc, fd, original, size, mapUnits, item` what each
process has. `open()` is `Open`, `TryLock` or `TryLockFails`, `Load`, and then
nothing more, `InitExtend`, `InitHeader` for an empty file, or the migration
(`MigrateCreate`, the steps of a new vector, `CopyRecord` with the steps of
`emplace_back`, `Rename`, `CloseOriginal`). `emplace_back()` is `EmplaceBack`,
when there is no room `GrowFile` and `Remap`, then `ConstructRecord` and
`CountRecord`; `EmplaceThrows` is every failure in it. `Stop` ends the process,
or a failed `open()`, at every point. A store to the mapping is in the file at
once: the page cache outlives a process, and losing it (power failure) is not
modelled, since the code never flushes and promises nothing about it.

`PersistentVector` is the abstract specification: a sequence that is appended to,
popped and emptied. The refinement mapping takes the first `entryCount` records
of the file at the path, and nothing for a file without a header.

`Contended` says whether a file may be overwritten, created or migrated while
another process uses it. The passing run says no (a second process may still
open a file in use and meets its lock), because the code does not survive it:
see finding 3 and the remark on `createOrOverwrite` there.

### SpawnedProcess, SpawnOptions, Communicate, FileDescriptor

`SpawnOptions` has two tables of descriptors, the parent's and the child's, from
numbers to open files: options open files and pipes and enter them into
`descriptors` and `optionPipes`; spawning is a step that copies the parent's table, one step per `dup2`
action, in any order of the unordered map, and the `exec` that closes what is not meant for the child. `SpawnedProcess` has one action per call of `waitpid` or `kill`,
and beside it a process that ends, other code that reaps children, and a kernel that
reuses pids. `Communicate` has the parent in either of its two implementations
(`poll()`, or a reader thread per stream) and a child that echoes, makes noise or dies.
`FileDescriptor` has a sender and a receiver that run one of the transfer functions each, a system call at a time,
over buffers described by where they end, and the owners of a descriptor.

### ImmediateFuture, IoFuture, LeaseCache, RefPtr, Tracing, RequestMetricsScope

`ImmediateFuture` holds `Count` futures with what each has put off and, as history,
their chains of continuations and the callbacks that ran; the reference is the plain composition of a chain.
`IoFuture` counts the calls of `wait()` that are suspended in the continuation of a
future they have cancelled. `LeaseCache` separates `get()` under the lock, the start of the fetch
and its end. `RefPtr` separates the load and the decrement of `decRef()`.
`Tracing` separates the flush of each ring from the loop over them.
`RequestMetricsScope` separates the watch and its insertion.

### PathFuncs, PathMap, BucketedLog, CoverageSet

The operators are the functions of the code, and the states are their inputs: strings
that grow one character at a time, vectors of entries, logs and interval sets reached
by calls. In `PathFuncs` a string is a sequence of characters, because what is checked is how the
code finds separators and dots; an iterator moves back and forth over it. In `PathMap` two
keys differ in case only.

### LazyInitialize, IDGen

`LazyInitialize` has the read lock and the write lock as two steps. `IDGen` has
one step per call, with arithmetic modulo a small multiple of the range size.

### MC modules

`MCShared` (the trace bus and the process info cache, with their symmetry sets), `MCMessages`
(the logger and the future socket, with the messages that are sent), `MCServices` (five services, fairly
scheduled) and `MCLibrary` (fifteen building blocks) each put modules that share nothing into one run: the
initial state chooses the one that moves, the others rest. `MCShared` and `MCMessages` extend the two modules as
they are, which is why `ProcessInfoCache` has `CacheInit`, `CacheNext`, `CacheSpec` and the logger
`LoggerInit`, `LoggerNext`, `LoggerSpec`.

What such a run checks and what is proved are the same definitions. `Library` declares the constants and the
state of twelve of the blocks (`LazyInitialize`, `IDGen`, `RefPtr`, `IoFuture`, `LeaseCache`,
`CoverageSet`, `BucketedLog`, `FaultInjector`, `Tracing`, `SpawnOptions`, `FileDescriptor`, `ImmediateFuture`) and
states their properties. `MCLibrary` extends it and `MappedDiskVector` and adds `PathFuncs` and `PathMap`, which only
TLC checks; `LibraryProofs` and `FilesProofs` extend it too. In the same way `Services` declares `SpawnedProcess` and
`Communicate`, and `MCServices` and `ServicesProofs` extend it. The remaining modules are run as they are. The
operators named `X_Something` before a definition `X`
are mutants: plausible bugs of `X`, used to show that each property can fail.

## 3. Runs

| Run | Bounds | Shows |
|---|---|---|
| `shared_objects` | the bus: 2 publishers, 2 subscribers, capacity 1, 4 events; the cache: 2 threads, 2 pids, 2 nodes, expiry 1, clock to 1; 4.5 M states | `NoEventLost`, `NoUseAfterFree`, `NoLostWakeup`, `SubscriptionsSound`, `EventsInOrder`; `NoStrandedRequest`, `EveryReadPendingOnce`, `OneReadPerPid`, `GetAllMissesNothing` |
| `messages` | the logger: 2 loggers, sizes 0..2, limit 3, pipe of 2, 4 messages; the socket: header of 2 bytes, 2 messages of five kinds, 3 receives, 2 connections, 3 bytes in the kernel; 769 k states | `MessagesKept` (order, byte accounting, wakeups), `LoggerProgress`; `DeliveredAsSent`, `AnsweredInOrder`, `ReceiveProgress` |
| `unix_socket` | 3 sends, 2 messages at once; 401 k states | `SendsAnsweredOnce`, `QuietWhenDone`, `SocketProgress` |
| `services` | see `Services.cfg` and, for the other services, `MCServices`; 140 k states | `BusProgress`, `CacheProgress`, `ChecksReturn`, `CallsReturn`, `CommunicateReturns` under fairness; `WaitedTruthfully`, `CommunicateComplete` |
| `library` | see `Library.cfg` and, for the other blocks, `MCLibrary`; 1.28 M states | one property per building block: `IDsUniqueNonzero`, `LateCallersReuse`, `FileSound`, `VectorPersists`, `ResultIndependentOfTiming`, `PathsSound`, `PathMapSound`, `SpawnedAsConfigured`, `DescriptorsSound`, `LeasesSettle`, `CoversOnlyCovered`, `BucketsAreWindow`, `DeletedByLastOwner`, `TracepointsOnce`, `InjectorSound`, `WaitsSettle` |
| `trace_bus_unsubscribe` | 1 publisher, 1 subscriber, capacity 1, 2 events; violation | `UnsubscribeIsFinal` fails |
| `lazy_initialize_once` | 2 callers; violation | `InitOnlyWhenNeeded` fails |
| `process_info_cache_get_after_destroy` | violation | `GetReturnsOrThrows` fails |
| `unix_socket_connect` | violation | `SuccessIsConnected` fails |
| `mapped_disk_vector_lock` | contended, 3 inodes, 1 unit; violation | `ExclusiveOwner` fails |
| `coverage_set` | points to 5; violation | `CoversAllCovered` fails |
| `request_metrics` | 3 scopes, 4 watches; violation | `FrontIsLongest` fails |

`VectorPersists` is the refinement of `PersistentVector` together with the action property
that what is at the path changes by whole operations only.

Why the bounds are enough:

- TraceBus: with capacity 1 every publish fills the buffer, so both publishers
  block and race for one slot, and four events give four rounds: subscribe,
  unsubscribe, the round that still observes and the round that deletes.
  Batches of more than one event need capacity 2, which `services` has. `TraceBusProofs` removes the bounds
  for all five properties.
- ProcessInfoCache: a second node lets a pid be cached again after it expired,
  or two pids compete; two threads suffice for every race of `add` with `lookup`
  and for a post that is missing when the worker drains. The proofs remove the
  bounds for all four safety properties.
- SubprocessScribeLogger: limit 3 with sizes up to 2 makes a message fit or not
  depending on what is queued; size 0 is the boundary; a pipe of 2 fills while
  messages are still queued. `SubprocessScribeLoggerProofs` removes the bounds for `MessagesKept`.
- UnixSocket: three sends allow one being sent, one queued behind it and one
  made by a callback. Two messages at once stand for `MAX_MSGS_AT_ONCE` (10), so
  that the loop limit is hit with something left.
- FaultInjector: the first regex is contained in the second, so the order of faults
  and of blocked checks matters; two faults of two matches let one be used up or
  removed while the other is in use, and two testers extract from the same list. The proof removes the bounds.
- MappedDiskVector: one record per unit makes every `emplace_back` but the first grow the file,
  and two units let growth fail half way and be tried again. A migration needs
  two inodes; the violation run has a third, for a replaced file that another process still holds. `FilesProofs`
  removes the bounds of the passing run.
- FutureUnixSocket: the kinds of messages are empty, with data and a file, with more files than
  one `sendmsg` takes (`kMaxFDs` 2), larger than the receiver accepts, and larger than
  the header can say. Three receives on two messages leave one to time out, fail or be answered
  on a second connection. The proofs remove the bounds for both safety properties.
- Communicate: pipes of 2 against five chunks of input that the child echoes, and a child that does not listen
  and says `2 * Noise` chunks (6): both pipes fill up while the other side is busy. `ServicesProofs` removes the bounds for
  `CommunicateComplete`; `SpawnedProcess` has none.
- FileDescriptor: `IovMax` 2 stands for `kIovMax`; the buffers are empty at the front and in the middle, and in one list
  as many empty ones follow each other as one `writev` takes. The code takes such a run for the end of the file, so the
  property exempts it (`EmptyRun`). The proof removes the bounds.
- SpawnOptions: three options on numbers that are free, in use elsewhere or targets of each other. The proof
  removes the bounds.
- ImmediateFuture: two continuations on two futures meet every combination of ready, deferred,
  failed and nested futures. The proof is for any number of both.
- PathFuncs: every string of up to five characters of `/`, `.` and `a`, and for a second one up to four:
  enough for `../..`, names that are prefixes of others and names of dots.
- PathMap: three entries over keys that differ in case, with a mutator that erases, revives and
  compacts.
- IoFuture: four calls of `wait()` let two be suspended at once.
- RefPtr: three pointers: two that let go and one that copies. Tracing: rings of two points, so that three of
  four points in one thread wrap around. LeaseCache: one entry for two keys, so that every `get()` of the other key evicts; a `MaxSize` of 0, no limit in the
  code, is covered by the proof.
- CoverageSet, BucketedLog: intervals within [0, 4) overlap, touch and contain each other on
  both sides at once; a window of two ticks is left by one, two and three.
- LazyInitialize: three callers and two objects, of which the second may replace the first.
- IDGen: three slots over four ranges reach the last range and its wrap with
  other threads in the middle of theirs.
- For these blocks and the sequential ones above, but not for PathFuncs and PathMap, `LibraryProofs` removes the bounds.

Deadlock is checked except in `services` and `library`, whose parts come to rest when
everybody is idle at the bounds (identifiers used up, strings at full length, a
process waited for, a `communicate()` that has returned), and in `coverage_set`,
`request_metrics` and `lazy_initialize_once`, which have the same kind of bounds. The runs of the bus, the cache, the logger and
the sockets do check it.

### Fairness

- Threads inside the code keep running (weak fairness of each thread's steps) and
  callbacks and `readInfo_` return. Nobody is obliged to call anything, and
  no spurious wakeup is promised.
- `SubprocessScribeLogger` has strong fairness for the flush timeout: `wait_until` has an
  absolute deadline, so spurious wakeups cannot postpone it for ever. Nothing is
  assumed of the child; `LoggedIsReceived` carries its assumption (a child
  that keeps reading) as an antecedent.
- `UnixSocket`: a callback returns in the end however much it calls (strong,
  because its calls may interrupt it), the event loop delivers a pending timeout
  or writable event although other events come first, and a kernel that
  reports the socket writable again and again eventually takes the message.
- `FaultInjector`: a thread inside a check, an unblock or the destructor goes on, and time
  passes for sleeps and timeouts. Nobody is obliged to unblock or cancel anything:
  a check that no tester chooses may stay blocked.
- `SpawnedProcess`: the calling thread and the event base go on; the process itself need
  not end. `Communicate`: parent, readers and the child run. A child that neither reads, writes nor
  ends keeps `communicate()` waiting, by design.
- `FutureUnixSocket`: timeouts expire and a `failReceiveQueue()` goes on; the peer owes nothing.
- The other parts check safety only.

## 4. Findings

Each is a violation run together with the line it contradicts.

1. `ProcessInfoCache.h:72-73` says `get()` throws if the cache is destroyed first.
   The handle itself keeps the promise alive, so it blocks for ever.
2. `UnixSocket.cpp:81` asks for the result of a pending connect, but line 85 tests
   only whether the question was answered: a failed connection is handed to
   `connectSuccess()`.
3. `MappedDiskVector.h:90-91` says the flock keeps other processes away. `open()`
   locks the descriptor it has opened without looking whether the path still names
   that file. A process that opened the path before a migration's rename gets the
   lock of the replaced file once the migrating process closes it, finds the old
   version in it, migrates it again and replaces the file that is in use.

4. `CoverageSet.h:36-39` says `covers()` is true of what the inserted intervals cover. `add()`
   merges to the left only where intervals touch (cpp:59): after `add(0, 10)` and `add(5, 7)`,
   `covers(6, 9)` is false. `CoversOnlyCovered` shows that the error is on this side only.
5. `RequestMetricsScope.cpp:129-131` says the front of the list is the longest running watch.
   The constructor starts the watch before it takes the lock, so a later one may come first.
6. `TraceBus.h:251-256` guarantees that a subscriber sees no event published after `unsubscribe()`
   returns. The thread takes the batch after that and every subscription in its list observes it whole, so
   the rest of a batch and one more batch may be seen. The bound that does hold is part of `SubscriptionsSound`.
7. `LazyInitialize.h:22` says `init` "will only be called once when it is needed". Two
   first callers both call it, because the pointer is not looked at again under the
   write lock. `LateCallersReuse` says how far the promise holds.

Observed while modelling, without a run of their own:

- `UnixSocket.cpp:246` asserts that a closed socket has no send queue. An error
  callback that closes or destroys the socket, which `socketError()` provides
  for at 991-992, fails the assertion of a debug build while sends are left.
  This is a disagreement of the assertion with the code around it; `AssertionsFailOnlyInErrors` proves that it is the
  only way in which an XDCHECK of `closeNow()`, `socketError()` or `tryReceive()` fails.
- `UnixSocket.cpp:727-728` asserts that a message whose header is incomplete has neither data nor files. Files come
  with the first byte, so when the header of a message with files arrives in two pieces the second call of
  `tryReceiveOne()` finds them and fails the assertion of a debug build. An optimised build goes on, and the message is
  delivered as sent. `ReceiveAssertionsHold` proves that there is no other way as long as the sizes fit the header.
- `MappedDiskVector::createOrOverwrite()` truncates the file (O_TRUNC, h:243) before
  it asks for the lock, so it empties a file that another process has mapped. A
  crash or a failed write between h:482 and h:491 leaves a file that no `open()`
  accepts again. The move assignment (h:267-282) has no return statement.
- `FaultInjector::waitForCancelOrTimeout()` (h:143-154) sets the token of the fault
  and then checks, under two locks: of two concurrent calls one may poll the token
  of the other. Both still end by the timeout (`ChecksReturn`).
  `pollCancellationToken()` is a coroutine that keeps `string_view`s of its
  caller's key for its log lines.
- `ProcessInfoCache::add()` returns early on a thread-local entry whose node has
  expired (cpp:198), so the pid is not read; `lookup()` that hits the shared map does not
  record the access, and `lastAccess` may go backwards.
- `SubprocessScribeLogger::closeProcess()` closes a descriptor that the writer has
  normally taken already, so the child sees the end of its input only when the
  writer returns.
- `UnixSocket::send()` calls a callback that may be null (cpp:345, 363; h:232-233
  allows null). `close()` (228-237) uses `socket_` after `socketClosed()` without
  a DestructorGuard, which is why `QuietWhenDone` exempts that frame.
- `FutureUnixSocket::eofReceived()` resets the socket before it fails the promises, so they say
  "socket closed locally". `connect()` or assignment onto an object with a pending receive
  destroys the new socket (cpp:121), and moving an object leaves the receiver's pointers
  at the old one. A timeout fails all receives that are queued, also later ones with longer
  timeouts. `serializeHeader()` cuts the size to 32 bits.
- `IoFuture::wait()` (cpp:50-63): where libevent refuses one of the two events, the other may stay armed, and its
  callback then fulfils a promise twice in a `noexcept` function. A wait made by the continuation of
  a cancelled one is broken as soon as the outer `wait()` goes on, without ECANCELED.
- `PathFuncs` does not do what its comments or its own checks say in these cases, which are outside the
  scope of `PathsSound`: `canonicalPath()` of a relative path that climbs more than one directory drops the
  second `..` (cpp:103 against h:2090-2091); `dirname()` of the absolute path `/a` is the empty string (h:1594), which is not an
  absolute path (h:1570-1577); `stem()` throws for names like `..a` (h:1542-1550); `relativize()` from `/` loses a character
  (h:1681-1686, 2069-2078); an iterator of `components()` or `rcomponents()` that comes back from `end()` loses a character
  (h:1029-1033). Coming back from the end of `rsuffixes()` fails an XDCHECK (h:1902) for a step that the next lines
  provide for; the model takes that step, as an optimised build does.
- `collatePathMaps()` of maps with different case sensitivity loses entries.
- `SpawnedProcess::Options`: a second descriptor for the same number is ignored silently; an option used
  after `inheritDescriptor()`, or a target outside stdio, can collide with a source, and what the child then
  gets depends on the order of the unordered map. `SpawnedAsConfigured` exempts these. The poll interval of
  `future_wait()` doubles once only (h:271-273); assigning onto a handle that has waited aborts (436);
  the condition at cpp:1071-1077 is the opposite of its comment, without consequence; a callback that throws
  in the threaded `communicate()` leaves reader threads that use the object.
- `FileDescriptor`: as many empty buffers in a row as one call takes look like the end of the file; an
  error in a full transfer loses the count of what was transferred.
- `LeaseCache`: a fetcher that throws leaves its promise pending for ever; `setMaxSize()` and
  `exists()` do not take the lock.
- `BucketedLog::add()` ignores only what is before the window; its comment says more. `getAll(now)` with an old
  `now` returns rotated buckets.
- `RequestMetricsScope`: assignment over a scope that has a watch leaves the watch in the list.
- `ImmediateFuture`: a consumed future stays `valid()`. `RefPtr`'s conversion reinterprets the pointer.
  `Tracing`: blocks closed out of order leave a request at a closed block.
- `IDGen.h:18` promises nonzero IDs; the very last ID before the 64-bit counter
  wraps is 0.

## 5. Proofs

Checked by TLAPS. The bounds of section 3 do not apply: the theorems hold for every number of threads,
processes, subscribers, sends, messages and so on, and for every capacity and limit that the named
assumptions admit. Every theorem that has a run's property as its statement names that definition itself.
The 34 theorems are in eight modules, listed below.

### `TraceBusProofs`, from `CapacityAssumption` and `MaxEventsAssumption`

| Theorem | Statement | Argument |
|---|---|---|
| `TypeCorrect` | `[]TypeOK` | each action preserves it; the capacity of both buffers comes from the test in `EnterPublish` and from clearing the read buffer |
| `WakeupsArrive` | `[]NoLostWakeup` | inductive with `TypeOK` |
| `MemorySafe` | `[]NoUseAfterFree` | from `Control` (what holds at each position of the thread) and `Lifecycle` (a subscription is in the list exactly from `Subscribe` until it is freed; only marked ones are freed while the bus lives) |
| `ObservedInOrder` | `[](EventsInOrder /\ Position)` | `Numbering`: the two buffers hold consecutive numbers that end before `sequenceNumber`; `Position`: the last event a subscriber saw is the one before what is buffered for it |
| `Reliable` | `[]NoEventLost` | `Progress` bounds `lastObserved`, `Delivery` says which events a subscriber has seen up to the point the thread has reached; a subscription is deleted only beyond that point |
| `UnsubscriptionEnds` | `[]SubscriptionsSound` | `Horizon`: a mark set at sequence number n is found by the end of the round that handles what was buffered at n, and neither buffer holds more than its capacity |

`NoEventLost` by itself is not inductive. It does not say why an unmarked
number of events between the buffers cannot exist (`Numbering`), nor why
`lastObserved`, taken at the beginning of a round, is not ahead of what
was observed (`Progress`).

### `ProcessInfoCacheProofs`, from `NoneAssumption`, `TimeAssumption` and `FiniteAssumption`

| Theorem | Statement | Argument |
|---|---|---|
| `TypeCorrect` | `[](CacheTypeOK /\ Args)` | `Args`: a caller inside `lookup` or `add` has a pid; a caller in `get` a handle |
| `WorkerIsWoken` | `[]NoStrandedRequest` | `Credits`: counts posted or on their way, minus requests queued, is bounded from below at every position of the worker, with one count in its hand between `wait` and `tryWait` |
| `ReadOnce` | `[]EveryReadPendingOnce` | `Queued`: pending nodes are allocated, distinct and unread, and every unread node is pending |
| `NoDuplicateRead` | `[]OneReadPerPid` | from `Queued`; a pid is queued only while the map has no node for it |
| `NothingMissed` | `[]GetAllMissesNothing` | `Callers` ties each waiting caller to its place in a queue, `Answers` says that what was cached at the request is read before the answer is collected |

### `SubprocessScribeLoggerProofs`, from `SizeAssumption`

`LoggerKeepsMessages` is `[]MessagesKept`. Its invariant gives each accepted message one place:
`Numbering` (the queue holds the latest messages, consecutively, and the one being written precedes
them), `Route` (before those come what is in the pipe and what was received), `Bytes` (`totalBytes` is
the difference of two running totals, so no sum over the queue is needed), `Control` (what
the writer holds at each of its positions, and whether it found its descriptor gone), together with
`NoLostWakeup`.

### `UnixSocketProofs`, from `BoundAssumption`

| Theorem | Statement | Argument |
|---|---|---|
| `SocketAnswersOnce` | `[]SendsAnsweredOnce` | `SendInv`: every send is in one place, and the answers are in order; `Ordered`: those that wait are the latest; `Failure`: once a send has failed, what is left of the queue is being failed by a frame of the stack |
| `SocketQuietWhenDone` | `[]QuietWhenDone` | `Registered`: with no settling frame on the stack, the socket is registered for exactly what it waits for; `Destruction`: what a destroyed socket still has on the stack |
| `AssertionsFailOnlyInErrors` | the action property `AssertsFailOnlyInErrors`: an XDCHECK fails only when a callback that `socketError()` runs closes or destroys the socket with sends left | from `IInv` and `FirstRound`, action by action: a step that fails an XDCHECK is a `closeNow()` with sends left, and then a frame of `socketError()` is failing the queue |

The invariant `IInv` is the conjunction of these with `ControlType` and `StackInv`. A callback may call any
method while others are suspended below it, so neither property is inductive without `StackOK`: what the
frames owe each other, such as that a frame which fails the queue is never below one that would send.
Each action changes only the top of the stack, and the lemmas on `Push` and `Has` carry `StackOK` over.
`AssertionsFailOnlyInErrors` has in addition `FirstRound`: a receive loop that has not called back yet is on top of the stack and
has its receive callback.

### `FilesProofs`, from `FdAssumption` and `TransferAssumption`

| Theorem | Statement | Argument |
|---|---|---|
| `MemoryMatchesFile` | `Assumptions /\ Spec => []FileSound` | `FileOK` of each inode, `Directory`, `Locks`, and for each process `Where` (its descriptors), `View` (its mapping against the file), `Copying` (in a migration, the copy is a prefix of the original) |
| `VectorSurvives` | `Assumptions /\ Spec => VectorPersists` | every step leaves the contents of the file at the path alone, or is one step of `PersistentVector` made by a process that is in `emplace_back`, `pop_back` or `createOrOverwrite`: the refinement, initial states and steps, and the action property together |

`Assumptions` requires positive sizes, a `None` that is nothing else, and `~Contended`: the code has no
protection against a second process that overwrites or migrates, which is finding 3. A second process
that opens the file and meets the lock is part of the theorem. It is a hypothesis and not an ASSUME because the violation
run instantiates the same module with contention.

| Theorem | Statement | Argument |
|---|---|---|
| `ChildSpawnedAsConfigured` | `[]SpawnedAsConfigured` | `SpawnTable`: every open number of the parent has one owner and a file of its own, and what is intended for a target is the file of its source; `SpawnOrder`: with the options used as they are meant, no source is a target, so that no `dup2` overwrites the source of a later one; `ChildTable`: while they run, a target that is done has the intended file and a source that is needed still has its own; `ChildSound`: what `exec` leaves |
| `DescriptorsAreSound` | `[]DescriptorsSound` | `Arrived`: both calls stand where the bytes transferred so far end, the pipe holds the bytes between the two, memory those before; `Returns`: why a call has stopped; `OwnerTypes`, `OwnedOnce`: each open descriptor has one owner |

For the transfers, `OfferedBytes` and `BytesInOrder` say what one system call is offered: the next bytes, whatever the
partition into buffers. `NothingOffered` says that this is nothing only at the end or in an `EmptyRun`, and
`AdvanceSound` that shortening the buffers by what a call transferred leaves exactly the rest.
They are proved with the least index at which two partial sums could differ (`Least`), in place of an induction over buffers.
`FdAssumption` says that the numbers in use elsewhere and the targets are descriptor numbers; `TransferAssumption` that there
is a buffer, that buffers end no earlier than those before them, and that an operation takes at least one.

### `FutureUnixSocketProofs`, from `StreamAssumption` and `BoundAssumption`

| Theorem | Statement | Argument |
|---|---|---|
| `MessagesDeliveredAsSent` | `[]DeliveredAsSent` | every byte has a place (`Key`) and every place a successor (`Succ`): header, data, then the pad bytes that carry the files beyond `kMaxFDs`. `Wire`: the bytes in the kernel follow each other, and the sender's next byte (`Sender`) follows the last of them. `Receiver`: the receiver has the bytes before the first on the wire, and so waits for exactly that one. A short `sendmsg` or `recvmsg` moves bytes and changes no successor |
| `ReceiveAssertionsHold` | an action property: as long as the sizes fit into the header, the XDCHECKs of `tryReceiveOne()` fail only on a header with files that arrives in pieces | from the same invariant: files are in hand before the header is complete only if one `recvmsg` has returned a part of the header, since files come with the first byte |
| `ReceivesAnsweredInOrder` | `[]AnsweredInOrder` | `OnePlace` (each receive is queued, being failed, or answered), `Past` and `Queue` (the queue holds the newest receives of the connection, in order), `Ordered`, and `AsManyAsArrived`, a count of the answers that are messages |

`DeliveredAsSent` says nothing of messages of `SizeModulus` bytes or more and of what follows one on its
connection, whose size the header cannot express; `Fits` is where this enters.

### `ServicesProofs`, from `InputAssumption`, `NoiseAssumption` and `BufSizeAssumption`

| Theorem | Statement | Argument |
|---|---|---|
| `ProcessWaited` | `[]WaitedTruthfully` | `OneHandle`: at most one handle still has the pid, a handle that has not waited has it, and a status it has is true; `Reaping`: a process that only this code reaps is reaped by the handle that has it, so its pid is not reused while the handle may signal it |
| `Communicated` | `[]CommunicateComplete` | `NothingLost`: for each stream, what was returned, what the pipe holds and what is still to come are, in this order, all there is; `Ends`: a stream is given up only when the child's end is closed and the pipe is empty; `Reports`: what `poll()` reported stays true until it is handled; `Modes`: the two implementations do not mix |

The input is any sequence, a buffer holds at least one chunk.

### `LibraryProofs`, from the other assumptions of `Library`

They are: the pointers are finitely many (`PointersAssumption`), a range has a positive size and there is at least one
(`RangeAssumption`), the window has at least one bucket (`SizeAssumption`), a ring at least one point (`BufferAssumption`), and
the other bounds and counts are naturals (`MaxSizeAssumption`, `MaxEndAssumption`, `CountsAssumption`,
`CountAssumption`). Threads, keys, regular expressions and the rest are any sets.

| Theorem | Statement | Argument |
|---|---|---|
| `RefPtrDeletesOnce` | `[]DeletedByLastOwner` | `RefControl`: only an owner is in the middle of giving its reference up, and the pointer it takes over from rests meanwhile; with the property itself this is inductive, by the cardinality of the set of owners |
| `LateCallersDoNotInit` | `[]LateCallersReuse` | `LazyInv`: no caller has seen more objects than were made |
| `IoWaitsSettle` | `[]WaitsSettle` | `IoInv`; each suspended `wait()` has cancelled the future before it |
| `LeasesAreSettled` | `[]LeasesSettle` | `LeaseInv`: `LeaseOnce` (no promise is fetched by two threads), `LeasePending`, and `LeaseMap`: entries have distinct keys, each with the newest promise of its key, which erasing, pushing to the front and cutting the tail preserve |
| `CoverageIsTrue` | `[]CoversOnlyCovered` | `MovedEndCovers`: the loop in `add()` stops at an end where everything it has passed ends, with no hole on the way, so the merged interval has no point that was not added and the removed ones lie within it |
| `IDsAreUnique` | `[]IDsUniqueNonzero` | `IdInv`: each thread with IDs left owns one range (`Owns`), no other thread has it, and its next IDs have not been handed out; `Multiples` and `Remainder` keep ranges apart under the modulus |
| `WindowIsKept` | `[]BucketsAreWindow` | `LogInv`: no known sample is after the window; two ticks of one window are in different buckets (`SameBucket`), and the buckets cleared are those of the ticks that roll out |
| `FaultsAreSound` | `[]InjectorSound` | `FaultInv`: `OnePlace` (a blocked check is enlisted once, or in one hand once, or not waiting), `FaultCounts` (a fault that is left has exactly the matches left that it has not had), `DestructorIdle` |
| `TracepointsReturnedOnce` | `[]TracepointsOnce` | `TraceInv`: `Timestamps` (what a thread writes is later than what it wrote), `RingHolds` (a ring holds the latest points since its last flush, at most `kBufferPoints`, at their places), `Flushes` (what was flushed is collected once, but for what had been overwritten), `InOrder`, `Nesting` (blocks and their parents) |
| `ResultsIndependentOfTiming` | `[]ResultIndependentOfTiming` | `FutureInv`: each future is `Sound`: there is a composition of a part of its chain (`Composes`), the future holds the last result of it or waits for the same promise (`Reached`), the callbacks that ran are those of that part (`Logged`), and what it has put off is the rest of the chain (`Left`). `Waits` and `Delivers` are about the consumer of `collectAll` |

The reference of `ResultIndependentOfTiming` is a recursive function over a chain. `CompositionReached` says that any composition
agrees with it: at the least place where they differ, both made the same step from the same result. Running a continuation
at once (`RunNowSound`), putting it off (`DeferSound`) and driving what was put off (`DriveSound`) each extend the
composition by the continuations that ran and leave the rest, which is why the moment does not matter.

### Only model-checked

- Liveness, which needs fairness and ENABLED: `LoggerProgress`, `SocketProgress`, `ReceiveProgress`, and the
  five progress properties of `services`.
- `PathsSound` and `PathMapSound`: what folds and recursive functions over strings and entries compute, which
  needs induction over data.

## 6. Plan

The modules of the first plan are written and 30 of the runs' properties are proved, as are two
action properties on the assertions of the sockets. What is left, in this order:

1. `PathMap` against its dictionary without folds: the sorted vector of entries as a set, so that lookup and the
   mutator's compaction can be proved.
2. `UnixSocket` on top of `UnixSocketStream`: the callbacks that re-enter and the framing in one state, when
   TLC can hold it.
3. `FutureUnixSocket` objects that are moved with receives pending; `Tracing` with blocks that are closed out of
   order; `get()` of an `ImmediateFuture` with a timeout.

## 7. Not modelled

- Reads of the operating system's process, user and file tables, string
  conversion, formatting of log records: I/O or sequential helpers without a
  protocol.
- Stats groups and executors: thin wrappers of folly.
- The C++ memory model: every access outside a lock that the models allow is to
  an atomic, or is ordered by one of the modelled steps. An exception is `fd` of
  the scribe logger, on which the writer and the destructor race; the model lets
  either come first.
- `TraceBus` callbacks that call back into the bus: one that publishes to a full buffer, or drops the last
  reference, waits for the thread it runs on. The class comment leaves this to the caller.
- In `Tracing`, two calls of `getAllTracepoints()` at the same time. In `FutureUnixSocket`, the promise of `send()`
  (`UnixSocket` has the answers of sends), and a continuation that runs inside `connect()` between closing the old
  socket and taking the new one: `Connect` is one step. In `UnixSocket`, which errno a failing `shutdown()` gives.
- `attachEventBase`, `detachEventBase` and `getRemoteUID` of the socket; `Environment`, the working directory and the
  arguments of a spawned process; Windows code throughout; UNC paths; hashing and formatting of paths.
