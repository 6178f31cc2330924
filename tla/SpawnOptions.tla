---------------------------- MODULE SpawnOptions ----------------------------
(***************************************************************************)
(* eden/common/utils/SpawnedProcess{.h,.cpp}: SpawnedProcess::Options and  *)
(* the constructor, with FileDescriptor and Pipe: which descriptors are    *)
(* opened for a child, how they are numbered, what the child finds under   *)
(* each number and what is left open in the parent.                        *)
(*                                                                         *)
(* A table of descriptors maps numbers to open files, 0 is a closed        *)
(* number.  The kernel gives out the lowest free number.  Everything is    *)
(* opened close-on-exec, only stdio is inherited.                          *)
(***************************************************************************)
EXTENDS Naturals, Functions

CONSTANTS
  MaxFd,       \* bound on descriptor numbers
  Elsewhere,   \* the numbers other parts of the parent may already use
  Targets,     \* the targetFds of dup2(), open() and pipe()
  MaxOptions   \* bound on the calls that configure a child

VARIABLES
  parentFds,        \* the table of the parent
  others,           \* descriptors of other parts of the parent
  descriptors,      \* Options::descriptors_: target -> source descriptor
  optionPipes,      \* pipes_: target -> the parent's descriptor
  intended,         \* history: target -> the file the caller wants there
  lateOption,       \* history: an option was given after inheritDescriptor()
  freeTarget,       \* history: a targetFd that is not a stdio stream was used
  calls, phase,
  pending,          \* while the child is made: the targets of the dup2() actions to come
  childFds          \* the table of the child

spawnVars ==
  <<parentFds, others, descriptors, optionPipes, intended, lateOption, freeTarget, calls, phase, pending, childFds>>

Stdio == 0 .. 2
Numbers == 0 .. MaxFd
Free(fds) == {n \in Numbers : fds[n] = 0}
Open(fds) == Numbers \ Free(fds)
Lowest(set) == {n \in set : \A m \in set : n <= m}
NewFile == MaxFd + 2 * (calls + 1)     \* and the next one, if it is a pipe
Closed(fds, n) == [fds EXCEPT ![n] = 0]
Nowhere == [n \in {} |-> 0]
With(f, key, value) == [k \in DOMAIN f \union {key} |-> IF k = key THEN value ELSE f[k]]
WithoutKey(f, key) == [k \in DOMAIN f \ {key} |-> f[k]]
FirstTarget == 5

\* unordered_map::emplace(): the first entry of a target stays, and the source of
\* a second one is closed.
EmplaceDescriptor(fds, source, target) ==
  IF target \in DOMAIN descriptors
  THEN parentFds' = Closed(fds, source) /\ UNCHANGED <<descriptors, intended>>
  ELSE /\ parentFds' = fds
       /\ descriptors' = With(descriptors, target, source)
       /\ intended' = With(intended, target, fds[source])

\* Options::dup2()
Dup2(fds, source, target) ==
  IF source = target
  THEN \E copy \in Lowest(Free(fds)) :
         EmplaceDescriptor([fds EXCEPT ![copy] = fds[source], ![source] = 0], copy, target)
  ELSE EmplaceDescriptor(fds, source, target)

Configure(target) ==
  /\ phase = "options" /\ calls < MaxOptions
  /\ calls' = calls + 1
  /\ lateOption' = (lateOption \/ \E t \in DOMAIN descriptors : t >= FirstTarget)
  /\ freeTarget' = (freeTarget \/ target \notin Stdio)

Init ==
  /\ others \in SUBSET Elsewhere
  /\ parentFds = [n \in Numbers |-> IF n \in Stdio \union others THEN n + 1 ELSE 0]
  /\ descriptors = Nowhere /\ optionPipes = Nowhere /\ intended = Nowhere
  /\ lateOption = FALSE /\ freeTarget = FALSE
  /\ calls = 0 /\ phase = "options" /\ pending = {} /\ childFds = Nowhere

\* nullStdin(), nullStdout(), nullStderr() and open().
OpenFor(target) ==
  /\ Configure(target)
  /\ \E fd \in Lowest(Free(parentFds)) : Dup2([parentFds EXCEPT ![fd] = NewFile], fd, target)
  /\ UNCHANGED <<others, optionPipes, phase, pending, childFds>>

\* pipe(): one end is for the child.  A second pipe of a target throws.
PipeFor(target, childRead) ==
  /\ target \notin DOMAIN optionPipes
  /\ Configure(target)
  /\ \E read \in Lowest(Free(parentFds)) : \E write \in Lowest(Free(parentFds) \ {read}) :
       /\ optionPipes' = With(optionPipes, target, IF childRead THEN write ELSE read)
       /\ Dup2([parentFds EXCEPT ![read] = NewFile, ![write] = NewFile + 1],
               IF childRead THEN read ELSE write, target)
  /\ UNCHANGED <<others, phase, pending, childFds>>

\* inheritDescriptor(): the file is opened, and duplicated until its number is no target; then a
\* target that is no source.
\* Mutant: the target is only kept apart from the other targets.
TargetConflicts_IgnoresSources(target, source) == target = source \/ target \in DOMAIN descriptors
TargetConflicts(target, source) ==
  target = source \/ target \in DOMAIN descriptors \/ target \in Range(descriptors)

InheritDescriptor ==
  /\ phase = "options" /\ calls < MaxOptions
  /\ calls' = calls + 1
  /\ \E source \in Lowest(Free(parentFds) \ DOMAIN descriptors) :
     \E target \in Lowest({t \in FirstTarget .. MaxFd : ~TargetConflicts(t, source)}) :
       EmplaceDescriptor([parentFds EXCEPT ![source] = NewFile], source, target)
  /\ UNCHANGED <<others, optionPipes, lateOption, freeTarget, phase, pending, childFds>>

\* SpawnedProcess(args, options): posix_spawnp() makes a copy of the table and does the dup2()
\* actions in it, in the order of an unordered_map, then exec.  The parent then
\* closes the descriptors it passed on.
CloseDescriptors(fds) == [n \in Numbers |-> IF n \in Range(descriptors) THEN 0 ELSE fds[n]]

Spawn ==
  /\ phase = "options" /\ phase' = "spawning"
  /\ childFds' = parentFds /\ pending' = DOMAIN descriptors
  /\ UNCHANGED <<parentFds, others, descriptors, optionPipes, intended, lateOption, freeTarget, calls>>

ChildDup2(target) ==
  /\ phase = "spawning" /\ pending' = pending \ {target}
  /\ childFds' = [childFds EXCEPT ![target] = childFds[descriptors[target]]]
  /\ UNCHANGED <<parentFds, others, descriptors, optionPipes, intended, lateOption, freeTarget, calls, phase>>

Exec ==
  /\ phase = "spawning" /\ pending = {} /\ phase' = "spawned"
  /\ childFds' = [n \in Stdio \union DOMAIN descriptors |-> childFds[n]]
  /\ parentFds' = CloseDescriptors(parentFds)
  /\ descriptors' = Nowhere
  /\ UNCHANGED <<others, optionPipes, intended, lateOption, freeTarget, calls, pending>>

\* posix_spawnp() fails: the constructor throws, both maps are destroyed.
SpawnFails ==
  /\ phase \in {"options", "spawning"} /\ phase' = "failed"
  /\ parentFds' = [n \in Numbers |-> IF n \in Range(optionPipes) THEN 0 ELSE CloseDescriptors(parentFds)[n]]
  /\ descriptors' = Nowhere /\ optionPipes' = Nowhere /\ pending' = {} /\ childFds' = Nowhere
  /\ UNCHANGED <<others, intended, lateOption, freeTarget, calls>>

\* stdinFd(), stdoutFd(), parentFd() give the descriptor away, closeParentFd() closes it.
CloseParentFd ==
  /\ phase = "spawned"
  /\ \E t \in DOMAIN optionPipes :
       /\ parentFds' = Closed(parentFds, optionPipes[t])
       /\ optionPipes' = WithoutKey(optionPipes, t)
  /\ UNCHANGED <<others, descriptors, intended, lateOption, freeTarget, calls, phase, pending, childFds>>

Next ==
  \/ \E t \in Targets : OpenFor(t)
  \/ \E t \in Targets, childRead \in BOOLEAN : PipeFor(t, childRead)
  \/ InheritDescriptor
  \/ Spawn \/ (\E t \in pending : ChildDup2(t)) \/ Exec \/ SpawnFails
  \/ CloseParentFd

Spec == Init /\ [][Next]_spawnVars

-----------------------------------------------------------------------------
\* The child finds every file the caller asked for under the number that was
\* agreed, in whatever order the unordered_map is walked (SpawnedProcess.cpp:533-538).
Delivered == \A t \in DOMAIN intended : childFds[t] = intended[t]

\* It does when only stdio streams are redirected, inheritDescriptor() is called
\* last, and always when the child was given stdio only (SpawnedProcess.cpp:237-315).
\* And nothing is left open in the parent, before or after a failure, but the
\* parent's side of the pipes: a copy of the child's side would keep a reader from
\* ever seeing the end of the stream (SpawnedProcess.cpp:714-719).
SpawnedAsConfigured ==
  /\ phase = "spawned" /\ ~lateOption /\ ~freeTarget => Delivered
  /\ phase \in {"spawned", "failed"} => Open(parentFds) = Stdio \union others \union Range(optionPipes)
  /\ phase = "spawned" => \A t \in DOMAIN optionPipes : parentFds[optionPipes[t]] \notin Range(childFds)
=============================================================================
