-------------------------- MODULE MappedDiskVector --------------------------
(***************************************************************************)
(* eden/common/utils/MappedDiskVector.h: a vector in a memory-mapped file  *)
(* that processes open, grow and migrate to a new record format.  A        *)
(* process can die, and a step can fail, at every point: what the mapping  *)
(* holds is in the file at once (the page cache outlives the process), so  *)
(* a step is one change of a file, of the directory or of a lock.          *)
(*                                                                         *)
(* Files are inodes, named by the path and by the temporary path of a      *)
(* migration.  Sizes are counted in units of GROWTH_IN_PAGES pages, each   *)
(* of which holds UnitRecords records; a header is "none" (zeros, or no    *)
(* file), or says whether records have the old or the new version.  A      *)
(* record is its value in either version.                                  *)
(***************************************************************************)
EXTENDS Naturals, Sequences

CONSTANTS
  Processes,
  Inodes,        \* bound on the files that exist at a time
  Values,
  None,
  UnitRecords,   \* records in one step of growth
  MaxUnits,      \* bound on the size of a file
  Contended      \* whether a file may be created, overwritten or migrated while
                 \* another process uses it

VARIABLES
  header, entryCount, records,  \* of each inode; records: all slots of the file
  path, tmpPath,                \* the directory
  lock,                         \* flock(): who holds each inode
  pc, fd, original,             \* each process: its vector, and the old one it migrates
  size, mapUnits,               \* end_ - begin_, mapSizeInBytes_
  item                          \* the argument of emplace_back()

fileVars == <<header, entryCount, records>>
dirVars  == <<path, tmpPath>>
procVars == <<pc, fd, original, size, mapUnits, item>>
vars == <<fileVars, dirVars, lock, procVars>>

Slot == Values \union {None}
Units(i) == Len(records[i]) \div UnitRecords

TypeOK ==
  /\ header \in [Inodes -> {"none", "old", "new"}]
  /\ entryCount \in [Inodes -> Nat]
  /\ records \in [Inodes -> Seq(Slot)]
  /\ path \in Inodes \union {None} /\ tmpPath \in Inodes \union {None}
  /\ lock \in [Inodes -> Processes \union {None}]
  /\ pc \in [Processes -> {"down", "lock", "lockNew", "load", "extend", "header", "migrate",
                           "copy", "renamed", "open", "grow", "remap", "construct", "count"}]
  /\ fd \in [Processes -> Inodes \union {None}]
  /\ original \in [Processes -> Inodes \union {None}]
  /\ size \in [Processes -> Nat] /\ mapUnits \in [Processes -> 0 .. MaxUnits]
  /\ item \in [Processes -> Slot]

Zeros(units) == [s \in 1 .. (units * UnitRecords) |-> None]

\* There is no file, or one of either version with some records, left by a
\* program that has ended.
Init ==
  /\ \/ /\ path = None
        /\ header = [i \in Inodes |-> "none"]
        /\ entryCount = [i \in Inodes |-> 0]
        /\ records = [i \in Inodes |-> <<>>]
     \/ \E version \in {"old", "new"}, units \in 1 .. MaxUnits :
        \E n \in 0 .. (units * UnitRecords) : \E contents \in [1 .. n -> Values] :
          /\ path \in Inodes
          /\ header = [i \in Inodes |-> IF i = path THEN version ELSE "none"]
          /\ entryCount = [i \in Inodes |-> IF i = path THEN n ELSE 0]
          /\ records = [i \in Inodes |-> IF i # path THEN <<>>
                          ELSE [s \in 1 .. (units * UnitRecords) |->
                                  IF s <= n THEN contents[s] ELSE None]]
  /\ tmpPath = None
  /\ lock = [i \in Inodes |-> None]
  /\ pc = [p \in Processes |-> "down"]
  /\ fd = [p \in Processes |-> None] /\ original = [p \in Processes |-> None]
  /\ size = [p \in Processes |-> 0] /\ mapUnits = [p \in Processes |-> 0]
  /\ item = [p \in Processes |-> None]

-----------------------------------------------------------------------------
(* Files *)

Goto(p, where) == pc' = [pc EXCEPT ![p] = where]

InUse == {path, tmpPath} \union {fd[p] : p \in Processes} \union {original[p] : p \in Processes}

\* The inode that open(name, O_CREAT) finds, or a new one.
Opened(name) == IF name # None THEN {name} ELSE Inodes \ InUse

\* O_TRUNC, or a new file.
Truncate(i) ==
  /\ header' = [header EXCEPT ![i] = "none"]
  /\ entryCount' = [entryCount EXCEPT ![i] = 0]
  /\ records' = [records EXCEPT ![i] = <<>>]

\* The process is gone, or has thrown out of open(): every descriptor is closed.
Forget(p) ==
  /\ Goto(p, "down")
  /\ lock' = [i \in Inodes |-> IF lock[i] = p THEN None ELSE lock[i]]
  /\ fd' = [fd EXCEPT ![p] = None] /\ original' = [original EXCEPT ![p] = None]
  /\ size' = [size EXCEPT ![p] = 0] /\ mapUnits' = [mapUnits EXCEPT ![p] = 0]
  /\ item' = [item EXCEPT ![p] = None]

\* The vector is mapped: `units` of file, with n entries.
Map(p, units, n) ==
  /\ mapUnits' = [mapUnits EXCEPT ![p] = units]
  /\ size' = [size EXCEPT ![p] = n]

-----------------------------------------------------------------------------
(* open() and createOrOverwrite() *)

Alone(p) == \A q \in Processes \ {p} : pc[q] = "down"

Open(p) ==
  /\ pc[p] = "down"
  /\ Contended \/ Alone(p) \/ (path # None /\ header[path] = "new")
  /\ \E i \in Opened(path) :
       /\ fd' = [fd EXCEPT ![p] = i]
       /\ path' = i
       /\ IF path = None THEN Truncate(i) ELSE UNCHANGED fileVars
  /\ Goto(p, "lock")
  /\ UNCHANGED <<tmpPath, lock, original, size, mapUnits, item>>

\* createOrOverwrite() truncates what it opens before it asks for the lock.
CreateOrOverwrite(p) ==
  /\ pc[p] = "down"
  /\ Contended \/ Alone(p)
  /\ \E i \in Opened(path) :
       /\ fd' = [fd EXCEPT ![p] = i]
       /\ path' = i
       /\ Truncate(i)
  /\ Goto(p, "lockNew")
  /\ UNCHANGED <<tmpPath, lock, original, size, mapUnits, item>>

\* try_lock() succeeds ...
TryLock(p) ==
  /\ pc[p] \in {"lock", "lockNew"}
  /\ lock[fd[p]] = None
  /\ lock' = [lock EXCEPT ![fd[p]] = p]
  /\ Goto(p, IF pc[p] = "lock" THEN "load" ELSE "extend")
  /\ UNCHANGED <<fileVars, dirVars, fd, original, size, mapUnits, item>>

\* ... or not.
TryLockFails(p) ==
  /\ pc[p] \in {"lock", "lockNew"}
  /\ lock[fd[p]] # None
  /\ Forget(p)
  /\ UNCHANGED <<fileVars, dirVars>>

\* fstat() and the header decide.
Load(p) ==
  LET i == fd[p] IN
  /\ pc[p] = "load"
  /\ \/ /\ records[i] = <<>>
        /\ Goto(p, "extend")
        /\ UNCHANGED <<lock, fd, original, size, mapUnits, item>>
     \/ /\ records[i] # <<>> /\ header[i] = "none"     \* "Invalid header"
        /\ Forget(p)
     \/ /\ header[i] = "new"
        /\ Map(p, Units(i), entryCount[i])
        /\ Goto(p, "open")
        /\ UNCHANGED <<lock, fd, original, item>>
     \/ /\ header[i] = "old"
        /\ Goto(p, "migrate")
        /\ UNCHANGED <<lock, fd, original, size, mapUnits, item>>
  /\ UNCHANGED <<fileVars, dirVars>>

\* initializeFromScratch(): extendFile() ...
InitExtend(p) ==
  /\ pc[p] = "extend"
  /\ records' = [records EXCEPT ![fd[p]] = Zeros(1)]
  /\ Goto(p, "header")
  /\ UNCHANGED <<header, entryCount, dirVars, lock, fd, original, size, mapUnits, item>>

\* ... then the header, then the mapping.
InitHeader(p) ==
  /\ pc[p] = "header"
  /\ header' = [header EXCEPT ![fd[p]] = "new"]
  /\ entryCount' = [entryCount EXCEPT ![fd[p]] = 0]
  /\ Map(p, 1, 0)
  /\ Goto(p, IF original[p] = None THEN "open" ELSE "copy")
  /\ UNCHANGED <<records, dirVars, lock, fd, original, item>>

-----------------------------------------------------------------------------
(* emplace_back() and pop_back() *)

HasRoom(p) == size[p] < mapUnits[p] * UnitRecords

Emplace(p, v) ==
  /\ HasRoom(p) \/ mapUnits[p] < MaxUnits
  /\ item' = [item EXCEPT ![p] = v]
  /\ Goto(p, IF HasRoom(p) THEN "construct" ELSE "grow")
  /\ UNCHANGED <<fileVars, dirVars, lock, fd, original, size, mapUnits>>

EmplaceBack(p, v) == pc[p] = "open" /\ Emplace(p, v)

\* Mutant of NewUnits: the file keeps its size.
NewUnits_Unchanged(p) == mapUnits[p]
NewUnits(p) == mapUnits[p] + 1

\* extendFile() up to newFileSize; the file may have that size already.
GrowFile(p) ==
  /\ pc[p] = "grow"
  /\ records' = [records EXCEPT ![fd[p]] =
                   IF Units(fd[p]) < NewUnits(p) THEN @ \o Zeros(NewUnits(p) - Units(fd[p])) ELSE @]
  /\ Goto(p, "remap")
  /\ UNCHANGED <<header, entryCount, dirVars, lock, fd, original, size, mapUnits, item>>

Remap(p) ==
  /\ pc[p] = "remap"
  /\ Map(p, mapUnits[p] + 1, size[p])
  /\ Goto(p, "construct")
  /\ UNCHANGED <<fileVars, dirVars, lock, fd, original, item>>

\* Disk full: emplace_back() throws, and the vector goes on with what it has.  In
\* a migration the temporary file is removed, and open() fails.
EmplaceThrows(p) ==
  /\ pc[p] \in {"grow", "remap", "construct"}
  /\ \/ /\ original[p] = None
        /\ Goto(p, "open")
        /\ item' = [item EXCEPT ![p] = None]
        /\ UNCHANGED <<tmpPath, lock, fd, original, size, mapUnits>>
     \/ /\ original[p] # None
        /\ tmpPath' = None
        /\ Forget(p)
  /\ UNCHANGED <<fileVars, path>>

\* new (end_) T{...}
Construct(p) ==
  records' = [records EXCEPT ![fd[p]] =
                [s \in DOMAIN @ |-> IF s = size[p] + 1 THEN item[p] ELSE @[s]]]

ConstructRecord(p) ==
  /\ pc[p] = "construct"
  /\ Construct(p)
  /\ Goto(p, "count")
  /\ UNCHANGED <<header, entryCount, dirVars, lock, fd, original, size, mapUnits, item>>

\* ++end_ and ++header().entryCount, the one that makes the record exist.
CountRecord(p) ==
  /\ pc[p] = "count"
  /\ size' = [size EXCEPT ![p] = @ + 1]
  /\ entryCount' = [entryCount EXCEPT ![fd[p]] = @ + 1]
  /\ item' = [item EXCEPT ![p] = None]
  /\ Goto(p, IF original[p] = None THEN "open" ELSE "copy")
  /\ UNCHANGED <<header, records, dirVars, lock, fd, original, mapUnits>>

PopCount(p) == entryCount' = [entryCount EXCEPT ![fd[p]] = @ - 1]

NotEmpty(p) == size[p] > 0

PopBack(p) ==
  /\ pc[p] = "open"
  /\ NotEmpty(p)
  /\ size' = [size EXCEPT ![p] = @ - 1]
  /\ PopCount(p)
  /\ UNCHANGED <<header, records, dirVars, lock, pc, fd, original, mapUnits, item>>

-----------------------------------------------------------------------------
(* Migrator::migrateFrom() *)

\* createOrOverwrite(path + ".tmp"), which goes on at "lockNew".
MigrateCreate(p) ==
  /\ pc[p] = "migrate"
  /\ \E i \in Opened(tmpPath) :
       /\ tmpPath' = i
       /\ Truncate(i)
       /\ fd' = [fd EXCEPT ![p] = i]
       /\ original' = [original EXCEPT ![p] = fd[p]]
  /\ Goto(p, "lockNew")
  /\ UNCHANGED <<path, lock, size, mapUnits, item>>

\* Mutant of Copied: without the last record.
Copied_OneLess(p) == size[p] + 1 >= entryCount[original[p]]
Copied(p) == size[p] = entryCount[original[p]]

\* Records are converted one by one ...
CopyRecord(p) ==
  /\ pc[p] = "copy"
  /\ ~Copied(p)
  /\ Emplace(p, records[original[p]][size[p] + 1])

\* ... and then rename() replaces the file.
Rename(p) ==
  /\ pc[p] = "copy"
  /\ Copied(p)
  /\ tmpPath # None
  /\ path' = tmpPath
  /\ tmpPath' = None
  /\ Goto(p, "renamed")
  /\ UNCHANGED <<fileVars, lock, fd, original, size, mapUnits, item>>

\* rename() fails.
RenameFails(p) ==
  /\ pc[p] = "copy"
  /\ Copied(p)
  /\ tmpPath' = None
  /\ Forget(p)
  /\ UNCHANGED <<fileVars, path>>

\* The destructor of the original vector closes it.
CloseOriginal(p) ==
  /\ pc[p] = "renamed"
  /\ lock' = [lock EXCEPT ![original[p]] = None]
  /\ original' = [original EXCEPT ![p] = None]
  /\ Goto(p, "open")
  /\ UNCHANGED <<fileVars, dirVars, fd, size, mapUnits, item>>

-----------------------------------------------------------------------------
\* The vector is destroyed, the process dies, or a system call fails in open().
Stop(p) ==
  /\ pc[p] # "down"
  /\ Forget(p)
  /\ UNCHANGED <<fileVars, dirVars>>

Step(p) ==
  \/ Open(p) \/ CreateOrOverwrite(p) \/ TryLock(p) \/ TryLockFails(p) \/ Load(p)
  \/ InitExtend(p) \/ InitHeader(p)
  \/ (\E v \in Values : EmplaceBack(p, v))
  \/ GrowFile(p) \/ Remap(p) \/ EmplaceThrows(p) \/ ConstructRecord(p) \/ CountRecord(p)
  \/ PopBack(p)
  \/ MigrateCreate(p) \/ CopyRecord(p) \/ Rename(p) \/ RenameFails(p) \/ CloseOriginal(p)
  \/ Stop(p)

Next == \E p \in Processes : Step(p)

Spec == Init /\ [][Next]_vars

-----------------------------------------------------------------------------
(* What the vector promises *)

\* What open() would find at the path.
Contents ==
  IF path = None \/ header[path] = "none" THEN <<>>
  ELSE SubSeq(records[path], 1, entryCount[path])

Abstract == INSTANCE PersistentVector WITH contents <- Contents

\* The file is a persistent vector: whatever step a process dies or fails at, in
\* growth and migration too, what is at the path changes only by whole
\* emplace_back(), pop_back() and createOrOverwrite() operations.
ImplementsVector == Abstract!Spec

\* No other step changes them: not a migration, which replaces the file by one with
\* the same contents, and not a crash or a failure at any point of it.
ChangedOnlyByOperations ==
  [][Contents' # Contents =>
       \E p \in Processes :
         \/ pc[p] = "count" /\ original[p] = None
         \/ pc[p] = "open" /\ size'[p] < size[p] /\ pc'[p] = "open"
         \/ pc[p] = "down" /\ pc'[p] = "lockNew"]_vars

\* The mapping lies within the file, so that no access to a record is a SIGBUS,
\* also after an extension that failed half way.
MappingWithinFile ==
  \A p \in Processes : fd[p] # None =>
    /\ mapUnits[p] <= Units(fd[p])
    /\ pc[p] \in {"construct", "count"} => HasRoom(p)

\* An open vector is the file at the path: its view and the header agree, so that
\* nothing it stores is lost for the next open().
ViewIsFile ==
  /\ TypeOK
  /\ \A p \in Processes : pc[p] = "open" =>
       fd[p] = path /\ lock[path] = p /\ header[path] = "new" /\ size[p] = entryCount[path]

\* MappedDiskVector.h:316-372, 440-560: memory, view and file agree in every step of growth, failure
\* and migration.
FileSound == MappingWithinFile /\ ViewIsFile

\* MappedDiskVector.h:136-420, 600-700: what is on the disk is a vector that only whole operations
\* change, across crashes.
VectorPersists == ImplementsVector /\ ChangedOnlyByOperations

\* h:90-91: "While alive, MappedDiskVector does acquire an exclusive flock on the
\* underlying fd to avoid multiple processes manipulating it at the same time."
ExclusiveOwner == \A p, q \in Processes : pc[p] = "open" /\ pc[q] = "open" => p = q
=============================================================================
