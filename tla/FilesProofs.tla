---------------------------- MODULE FilesProofs ----------------------------
(***************************************************************************)
(* Files and file descriptors: the disk vector, the descriptors that a     *)
(* child process inherits, and the transfers through a descriptor.  The    *)
(* three share nothing; there is a section for each of them.               *)
(***************************************************************************)
EXTENDS Library, MappedDiskVector, NaturalsInduction, WellFoundedInduction, TLAPS

-----------------------------------------------------------------------------
(* MappedDiskVector *)

\* A MappedDiskVector is a persistent vector: for any number of processes, files and
\* records, where a file is created, overwritten and migrated by a process that uses it
\* alone.  All steps are about one file at a time, so the proof keeps what is known of a
\* file (FileOK), of the directory and the locks, and of one process's view of the two
\* (Where, View and, in a migration, Copying).


\* What the proofs need to know of the constants: sizes are positive, None is not a
\* thing, and no file is overwritten, created or migrated while another process uses it.
Assumptions ==
  /\ UnitRecords \in Nat \ {0} /\ MaxUnits \in Nat \ {0}
  /\ None \notin Values /\ None \notin Inodes /\ None \notin Processes
  /\ ~Contended

Growing == {"grow", "remap", "construct", "count"}
Mapped == Growing \union {"copy", "renamed", "open"}
Unlocked == {"down", "lock", "lockNew"}

-----------------------------------------------------------------------------
(* The inductive invariant *)

\* A file consists of whole units, and all the records it counts are there.
FileOK(i) ==
  /\ Units(i) \in 0 .. MaxUnits /\ Len(records[i]) = Units(i) * UnitRecords
  /\ entryCount[i] <= Len(records[i])
  /\ \A s \in 1 .. entryCount[i] : records[i][s] \in Values
  /\ header[i] # "none" => records[i] # <<>>

Files == \A i \in Inodes : FileOK(i)

\* A process shares the file only when its format is the new one.
Directory ==
  /\ path # None => path # tmpPath
  /\ path = None => tmpPath = None
  /\ \A p \in Processes : pc[p] # "down" => path # None /\ (header[path] # "new" => Alone(p))

Migrating(p) == original[p] # None /\ pc[p] # "renamed"

\* The files that a process has open, and what is in them while it builds one.
Where(p) ==
  /\ pc[p] = "down" => fd[p] = None
  /\ pc[p] # "down" => fd[p] \in Inodes /\ fd[p] = IF Migrating(p) THEN tmpPath ELSE path
  /\ pc[p] \in {"down", "lock", "load", "migrate", "open"} => original[p] = None
  /\ pc[p] \in {"copy", "renamed"} => original[p] # None
  /\ original[p] # None => original[p] \in Inodes /\ original[p] # fd[p]
  /\ Migrating(p) => original[p] = path /\ header[path] = "old"
  /\ pc[p] \in {"lockNew", "extend"} => records[fd[p]] = <<>>
  /\ pc[p] = "header" => records[fd[p]] = Zeros(1) /\ header[fd[p]] = "none"
  /\ pc[p] = "migrate" => header[path] = "old"

\* A lock is held through a descriptor, by every process that uses the file.
Locks ==
  /\ \A i \in Inodes : lock[i] # None => i \in {fd[lock[i]], original[lock[i]]}
  /\ \A p \in Processes : pc[p] \notin Unlocked => lock[fd[p]] = p
  /\ \A p \in Processes : original[p] # None => lock[original[p]] = p

\* The mapping and the file.
View(p) ==
  /\ pc[p] \notin Mapped => mapUnits[p] = 0 /\ size[p] = 0
  /\ pc[p] \in Mapped => /\ header[fd[p]] = "new" /\ size[p] = entryCount[fd[p]]
                         /\ mapUnits[p] <= Units(fd[p]) /\ size[p] <= mapUnits[p] * UnitRecords
  /\ pc[p] \in {"grow", "remap"} => size[p] = mapUnits[p] * UnitRecords /\ mapUnits[p] < MaxUnits
  /\ pc[p] = "remap" => mapUnits[p] < Units(fd[p])
  /\ pc[p] \in {"construct", "count"} => HasRoom(p)
  /\ pc[p] \in Growing => item[p] \in Values
  /\ pc[p] = "count" => records[fd[p]][size[p] + 1] = item[p]

\* A migration has copied what the view counts.
Copying(p) ==
  Migrating(p) /\ pc[p] \in Mapped =>
    /\ size[p] <= entryCount[path]
    /\ \A s \in 1 .. size[p] : records[fd[p]][s] = records[path][s]
    /\ pc[p] \in Growing => size[p] < entryCount[path] /\ item[p] = records[path][size[p] + 1]

IInv ==
  /\ TypeOK /\ Files /\ Directory /\ Locks
  /\ \A p \in Processes : Where(p) /\ View(p) /\ Copying(p)

-----------------------------------------------------------------------------
(* Arithmetic *)

LEMMA Times ==
  ASSUME Assumptions, NEW k \in Nat
  PROVE  k * UnitRecords \in Nat /\ (k + 1) * UnitRecords = k * UnitRecords + UnitRecords
BY DEF Assumptions

LEMMA TimesAdd ==
  ASSUME Assumptions, NEW k \in Nat, NEW m \in Nat
  PROVE  (k + m) * UnitRecords = k * UnitRecords + m * UnitRecords
BY DEF Assumptions

LEMMA TimesMono ==
  ASSUME Assumptions, NEW k \in Nat, NEW m \in Nat, k <= m
  PROVE  k * UnitRecords <= m * UnitRecords
BY DEF Assumptions

LEMMA TimesDiv ==
  ASSUME Assumptions, NEW k \in Nat
  PROVE  (k * UnitRecords) \div UnitRecords = k
BY DEF Assumptions

LEMMA ZerosLen ==
  ASSUME Assumptions, NEW k \in Nat
  PROVE  Zeros(k) \in Seq(Slot) /\ Len(Zeros(k)) = k * UnitRecords
<1> DEFINE n == k * UnitRecords
<1>1. n \in Nat
  BY Times
<1>2. Zeros(k) = [s \in 1 .. n |-> None]
  BY DEF Zeros
<1> HIDE DEF n
<1>3. None \in Slot
  BY DEF Slot
<1>4. Zeros(k) \in Seq(Slot) /\ Len(Zeros(k)) = n
  BY <1>1, <1>2, <1>3
<1> QED
  BY <1>4 DEF n

\* What FileOK says of sizes.
LEMMA FileSize ==
  ASSUME Assumptions, TypeOK, NEW i \in Inodes
  PROVE  /\ records[i] \in Seq(Slot) /\ Len(records[i]) \in Nat /\ entryCount[i] \in Nat
         /\ header[i] \in {"none", "old", "new"} /\ DOMAIN records[i] = 1 .. Len(records[i])
BY DEF TypeOK

-----------------------------------------------------------------------------
(* Processes do not disturb each other *)

\* What the step of one process leaves alone.
OnlyProcess(p) ==
  \A q \in Processes \ {p} :
    /\ pc'[q] = pc[q] /\ fd'[q] = fd[q] /\ original'[q] = original[q]
    /\ size'[q] = size[q] /\ mapUnits'[q] = mapUnits[q] /\ item'[q] = item[q]

Waiting == {"down", "lock"}

\* While a process works on the file, the others can at most wait for the lock.
LEMMA OthersWait ==
  ASSUME Assumptions, IInv, NEW p \in Processes, pc[p] \notin Waiting,
         NEW q \in Processes \ {p}
  PROVE  pc[q] \in Waiting
<1> SUFFICES ASSUME pc[q] \notin Waiting PROVE FALSE
  OBVIOUS
<1>1. \A r \in {p, q} : r \in Processes /\ pc[r] # "down" /\ pc[r] # "lock"
  BY DEF Waiting
<1>2. header[path] = "new"
  BY <1>1 DEF IInv, Directory, Alone
<1>3. path \in Inodes /\ FileOK(path)
  BY <1>1 DEF IInv, Directory, Files, TypeOK
<1>4. records[path] # <<>>
  BY <1>2, <1>3 DEF FileOK
<1>5. \A r \in {p, q} : fd[r] = path /\ pc[r] # "lockNew"
  BY <1>1, <1>2, <1>4 DEF IInv, Where
<1>6. \A r \in {p, q} : lock[path] = r
  BY <1>1, <1>5 DEF IInv, Locks, Unlocked
<1> QED
  BY <1>6

LEMMA WaiterKept ==
  ASSUME Assumptions, IInv, NEW p \in Processes, OnlyProcess(p),
         NEW q \in Processes \ {p}, pc[q] \in Waiting, path' = path \/ pc[q] = "down"
  PROVE  Where(q)' /\ View(q)' /\ Copying(q)'
<1>1. Where(q) /\ View(q) /\ q \in Processes
  BY DEF IInv
<1>2. /\ pc'[q] = pc[q] /\ fd'[q] = fd[q] /\ original'[q] = original[q]
      /\ size'[q] = size[q] /\ mapUnits'[q] = mapUnits[q]
  BY DEF OnlyProcess
<1>3. original[q] = None /\ size[q] = 0 /\ mapUnits[q] = 0
  BY <1>1 DEF Where, View, Waiting, Mapped, Growing
<1>4. pc[q] = "down" => fd[q] = None
  BY <1>1 DEF Where
<1>5. pc[q] = "lock" => fd[q] \in Inodes /\ fd[q] = path' 
  BY <1>1, <1>3 DEF Where, Migrating
<1>6. Where(q)'
  BY <1>2, <1>3, <1>4, <1>5 DEF Where, Migrating, Waiting
<1>7. View(q)'
  BY <1>2, <1>3 DEF View, Waiting, Mapped, Growing
<1>8. Copying(q)'
  BY <1>2, <1>3 DEF Copying, Migrating
<1> QED
  BY <1>6, <1>7, <1>8

LEMMA OthersKept ==
  ASSUME Assumptions, IInv, NEW p \in Processes, pc[p] \notin Waiting, OnlyProcess(p),
         path' = path \/ header[path] # "new"
  PROVE  \A q \in Processes \ {p} : Where(q)' /\ View(q)' /\ Copying(q)'
<1> TAKE q \in Processes \ {p}
<1>1. pc[q] \in Waiting
  BY OthersWait
<1>2. path' = path \/ pc[q] = "down"
  BY DEF IInv, Directory, Alone, Waiting
<1> QED
  BY <1>1, <1>2, WaiterKept

\* A step changes one file.
LEMMA FilesKept ==
  ASSUME IInv, NEW j \in Inodes, FileOK(j)',
         \A i \in Inodes \ {j} : records'[i] = records[i] /\ entryCount'[i] = entryCount[i] /\ header'[i] = header[i]
  PROVE  Files'
<1> SUFFICES ASSUME NEW i \in Inodes, i # j PROVE FileOK(i)'
  BY DEF Files
<1>1. FileOK(i)
  BY DEF IInv, Files
<1> QED
  BY <1>1 DEF FileOK, Units

LEMMA FilesSame ==
  ASSUME IInv, UNCHANGED fileVars
  PROVE  Files'
BY DEF IInv, Files, FileOK, Units, fileVars

LEMMA DirectoryKept ==
  ASSUME IInv, NEW p \in Processes, OnlyProcess(p), pc[p] # "down", path' = path,
         path' # tmpPath', header'[path] # "new" => header[path] # "new"
  PROVE  Directory'
<1>1. path # None
  BY DEF IInv, Directory
<1>2. ASSUME NEW q \in Processes, pc'[q] # "down", header'[path] # "new"
      PROVE  Alone(q)'
  <2>1. pc[q] # "down"
    BY <1>2 DEF OnlyProcess
  <2>2. Alone(q)
    BY <1>2, <2>1 DEF IInv, Directory
  <2> QED
    BY <2>2 DEF Alone, OnlyProcess
<1> QED
  BY <1>1, <1>2 DEF Directory

LEMMA LocksKept ==
  ASSUME IInv, NEW p \in Processes, UNCHANGED <<lock, fd, original>>, OnlyProcess(p),
         pc[p] \in Unlocked => pc'[p] \in Unlocked
  PROVE  Locks'
<1>1. \A i \in Inodes : lock'[i] # None => i \in {fd'[lock'[i]], original'[lock'[i]]}
  BY DEF IInv, Locks
<1>2. \A q \in Processes : pc'[q] \notin Unlocked => lock'[fd'[q]] = q
  BY DEF IInv, Locks, OnlyProcess
<1>3. \A q \in Processes : original'[q] # None => lock'[original'[q]] = q
  BY DEF IInv, Locks
<1> QED
  BY <1>1, <1>2, <1>3 DEF Locks

LEMMA Preserved ==
  ASSUME NEW p \in Processes, TypeOK', Files', Directory', Locks', Where(p)', View(p)', Copying(p)',
         \A q \in Processes \ {p} : Where(q)' /\ View(q)' /\ Copying(q)'
  PROVE  IInv'
BY DEF IInv

-----------------------------------------------------------------------------
(* Ends: the descriptors are closed *)

LEMMA ForgetKeeps ==
  ASSUME Assumptions, IInv, NEW p \in Processes, pc[p] # "down", Forget(p), UNCHANGED <<fileVars, path>>,
         tmpPath' = tmpPath \/ (tmpPath' = None /\ pc[p] \notin Waiting)
  PROVE  IInv'
<1>1. TypeOK /\ Directory /\ Locks
  BY DEF IInv
<1>2. /\ pc'[p] = "down" /\ fd'[p] = None /\ original'[p] = None /\ size'[p] = 0 /\ mapUnits'[p] = 0
      /\ OnlyProcess(p)
  BY <1>1 DEF Forget, Goto, TypeOK, OnlyProcess
<1>3. TypeOK'
  <2>1. header' = header /\ entryCount' = entryCount /\ records' = records
    BY DEF fileVars
  <2>2. lock' \in [Inodes -> Processes \union {None}]
    BY <1>1 DEF Forget, TypeOK
  <2>3. /\ fd' \in [Processes -> Inodes \union {None}] /\ original' \in [Processes -> Inodes \union {None}]
        /\ item' \in [Processes -> Slot]
    BY <1>1 DEF Forget, TypeOK, Slot
  <2>4. size' \in [Processes -> Nat] /\ mapUnits' \in [Processes -> 0 .. MaxUnits]
    BY <1>1 DEF Forget, TypeOK, Assumptions
  <2>5. tmpPath' \in Inodes \union {None} /\ path' \in Inodes \union {None}
    BY <1>1 DEF TypeOK
  <2> QED
    BY <1>1, <2>1, <2>2, <2>3, <2>4, <2>5 DEF TypeOK, Forget, Goto
<1>4. Files'
  BY FilesSame
<1>5. path # None /\ path' # tmpPath'
  BY <1>1 DEF Directory
<1>6. Directory'
  BY <1>2, <1>5, DirectoryKept DEF fileVars
<1>7. Locks'
  <2>1. lock' = [i \in Inodes |-> IF lock[i] = p THEN None ELSE lock[i]]
    BY DEF Forget
  <2>2. ASSUME NEW i \in Inodes, lock'[i] # None PROVE i \in {fd'[lock'[i]], original'[lock'[i]]}
    <3>1. lock'[i] = lock[i] /\ lock[i] # p /\ lock[i] # None
      BY <2>1, <2>2
    <3>2. lock[i] \in Processes \ {p}
      BY <1>1, <3>1 DEF TypeOK
    <3> QED
      BY <1>1, <1>2, <3>1, <3>2 DEF Locks, OnlyProcess
  <2>3. ASSUME NEW q \in Processes, pc'[q] \notin Unlocked PROVE lock'[fd'[q]] = q
    <3>1. q # p
      BY <1>2, <2>3 DEF Unlocked
    <3>2. fd'[q] = fd[q] /\ pc[q] \notin Unlocked
      BY <1>2, <2>3, <3>1 DEF OnlyProcess
    <3>3. lock[fd[q]] = q /\ fd[q] \in Inodes
      BY <1>1, <3>2 DEF Locks, IInv, Where, Unlocked
    <3> QED
      BY <2>1, <3>1, <3>2, <3>3
  <2>4. ASSUME NEW q \in Processes, original'[q] # None PROVE lock'[original'[q]] = q
    <3>1. q # p
      BY <1>2, <2>4
    <3>2. original'[q] = original[q]
      BY <1>2, <3>1 DEF OnlyProcess
    <3>3. lock[original[q]] = q /\ original[q] \in Inodes
      BY <1>1, <2>4, <3>2 DEF Locks, IInv, Where
    <3> QED
      BY <2>1, <3>1, <3>2, <3>3
  <2> QED
    BY <2>2, <2>3, <2>4 DEF Locks
<1>8. Where(p)' /\ View(p)' /\ Copying(p)'
  BY <1>2 DEF Where, View, Copying, Migrating, Mapped, Growing
<1>9. \A q \in Processes \ {p} : Where(q)' /\ View(q)' /\ Copying(q)'
  <2>1. CASE tmpPath' = tmpPath
    <3> TAKE q \in Processes \ {p}
    <3>1. Where(q) /\ View(q) /\ Copying(q)
      BY DEF IInv
    <3>2. /\ pc'[q] = pc[q] /\ fd'[q] = fd[q] /\ original'[q] = original[q]
          /\ size'[q] = size[q] /\ mapUnits'[q] = mapUnits[q] /\ item'[q] = item[q]
      BY <1>2 DEF OnlyProcess
    <3>3. header' = header /\ entryCount' = entryCount /\ records' = records
      BY DEF fileVars
    <3>4. Where(q)'
      BY <2>1, <3>1, <3>2, <3>3 DEF Where, Migrating, Zeros
    <3>5. View(q)'
      BY <3>1, <3>2, <3>3 DEF View, Units, HasRoom
    <3>6. Copying(q)'
      BY <3>1, <3>2, <3>3 DEF Copying, Migrating
    <3> QED
      BY <3>4, <3>5, <3>6
  <2>2. CASE pc[p] \notin Waiting
    BY <1>2, <2>2, OthersKept
  <2> QED
    BY <2>1, <2>2
<1> QED
  BY <1>3, <1>4, <1>6, <1>7, <1>8, <1>9, Preserved

LEMMA StopKeeps ==
  ASSUME Assumptions, IInv, NEW p \in Processes, Stop(p) \/ TryLockFails(p) \/ RenameFails(p)
  PROVE  IInv'
<1>1. CASE Stop(p)
  BY <1>1, ForgetKeeps DEF Stop, dirVars
<1>2. CASE TryLockFails(p)
  BY <1>2, ForgetKeeps DEF TryLockFails, dirVars
<1>3. CASE RenameFails(p)
  BY <1>3, ForgetKeeps DEF RenameFails, Waiting
<1> QED
  BY <1>1, <1>2, <1>3

-----------------------------------------------------------------------------
(* open() and createOrOverwrite() *)

LEMMA Truncated ==
  ASSUME Assumptions, IInv, NEW i \in Inodes, Truncate(i)
  PROVE  /\ header' \in [Inodes -> {"none", "old", "new"}] /\ entryCount' \in [Inodes -> Nat]
         /\ records' \in [Inodes -> Seq(Slot)]
         /\ records'[i] = <<>> /\ entryCount'[i] = 0 /\ header'[i] = "none"
         /\ \A j \in Inodes \ {i} : records'[j] = records[j] /\ entryCount'[j] = entryCount[j] /\ header'[j] = header[j]
         /\ Files'
<1>1. TypeOK
  BY DEF IInv
<1>2. <<>> \in Seq(Slot)
  OBVIOUS
<1>3. /\ header' \in [Inodes -> {"none", "old", "new"}] /\ entryCount' \in [Inodes -> Nat]
      /\ records' \in [Inodes -> Seq(Slot)]
  BY <1>1, <1>2 DEF TypeOK, Truncate
<1>4. records'[i] = <<>> /\ entryCount'[i] = 0 /\ header'[i] = "none"
  BY <1>1 DEF Truncate, TypeOK
<1>5. \A j \in Inodes \ {i} : records'[j] = records[j] /\ entryCount'[j] = entryCount[j] /\ header'[j] = header[j]
  BY <1>1 DEF Truncate, TypeOK
<1>6. FileOK(i)'
  <2>1. 0 * UnitRecords = 0 /\ 0 \div UnitRecords = 0 /\ 0 \in 0 .. MaxUnits
    BY TimesDiv DEF Assumptions
  <2>2. Len(records'[i]) = 0
    BY <1>4
  <2> QED
    BY <1>4, <2>1, <2>2 DEF FileOK, Units
<1> QED
  BY <1>3, <1>4, <1>5, <1>6, FilesKept

\* The process opens the file at the path, or a new one that is not in use.
LEMMA Opening ==
  ASSUME Assumptions, IInv, NEW p \in Processes, pc[p] = "down",
         NEW i \in Opened(path), NEW where \in {"lock", "lockNew"},
         fd' = [fd EXCEPT ![p] = i], path' = i, Goto(p, where),
         UNCHANGED <<tmpPath, lock, original, size, mapUnits, item>>,
         \/ Truncate(i) /\ Alone(p)
         \/ where = "lock" /\ path # None /\ UNCHANGED fileVars /\ (Alone(p) \/ header[path] = "new")
  PROVE  IInv'
<1>1. TypeOK /\ Directory /\ Locks /\ Files
  BY DEF IInv
<1>2. i \in Inodes /\ i # None /\ (path # None => i = path)
  BY <1>1 DEF Opened, TypeOK, Assumptions
<1>3. pc'[p] = where /\ fd'[p] = i /\ OnlyProcess(p)
  BY <1>1 DEF Goto, TypeOK, OnlyProcess
<1>4. i # tmpPath
  BY <1>1, <1>2 DEF Opened, InUse, Directory
<1>5. TypeOK'
  <2>1. header' \in [Inodes -> {"none", "old", "new"}] /\ entryCount' \in [Inodes -> Nat] /\ records' \in [Inodes -> Seq(Slot)]
    BY <1>1, <1>2, Truncated DEF TypeOK, fileVars
  <2>2. fd' \in [Processes -> Inodes \union {None}] /\ path' \in Inodes \union {None}
    BY <1>1, <1>2 DEF TypeOK
  <2>3. pc' \in [Processes -> {"down", "lock", "lockNew", "load", "extend", "header", "migrate",
                               "copy", "renamed", "open", "grow", "remap", "construct", "count"}]
    BY <1>1 DEF TypeOK, Goto
  <2> QED
    BY <1>1, <2>1, <2>2, <2>3 DEF TypeOK
<1>6. Truncate(i) => Files' /\ records'[i] = <<>>
  BY <1>2, Truncated
<1>7. Files'
  BY <1>6, FilesSame
<1>8. Directory'
  <2>1. path' # None /\ path' # tmpPath'
    BY <1>2, <1>4
  <2>2. ASSUME Alone(p), NEW q \in Processes, pc'[q] # "down" PROVE Alone(q)'
    BY <1>3, <2>2 DEF Alone, OnlyProcess
  <2>3. CASE Alone(p)
    BY <2>1, <2>2, <2>3 DEF Directory
  <2>4. CASE path # None /\ UNCHANGED fileVars /\ header[path] = "new"
    BY <1>2, <2>1, <2>4 DEF Directory, fileVars
  <2> QED
    BY <2>3, <2>4
<1>9. original[p] = None /\ size[p] = 0 /\ mapUnits[p] = 0 /\ fd[p] = None
  BY DEF IInv, Where, View, Mapped, Growing
<1>10. Locks'
  <2>1. ASSUME NEW j \in Inodes, lock'[j] # None PROVE j \in {fd'[lock'[j]], original'[lock'[j]]}
    <3>1. lock[j] \in Processes /\ j \in {fd[lock[j]], original[lock[j]]}
      BY <1>1, <2>1 DEF Locks, TypeOK
    <3>2. lock[j] # p
      BY <1>9, <3>1 DEF Assumptions
    <3> QED
      BY <1>3, <3>1, <3>2 DEF OnlyProcess
  <2>2. ASSUME NEW q \in Processes, pc'[q] \notin Unlocked PROVE lock'[fd'[q]] = q
    BY <1>1, <1>3, <2>2 DEF Locks, OnlyProcess, Unlocked
  <2>3. \A q \in Processes : original'[q] # None => lock'[original'[q]] = q
    BY <1>1 DEF Locks
  <2> QED
    BY <2>1, <2>2, <2>3 DEF Locks
<1>11. Where(p)'
  <2>1. pc'[p] = "lockNew" => records'[fd'[p]] = <<>>
    BY <1>3, <1>6
  <2> QED
    BY <1>2, <1>3, <1>9, <2>1 DEF Where, Migrating
<1>12. View(p)' /\ Copying(p)'
  BY <1>3, <1>9 DEF View, Copying, Migrating, Mapped, Growing
<1>13. ASSUME NEW q \in Processes \ {p} PROVE Where(q)' /\ View(q)' /\ Copying(q)'
  <2>1. CASE Alone(p)
    <3>1. pc[q] = "down"
      BY <2>1 DEF Alone
    <3> QED
      BY <1>3, <3>1, WaiterKept DEF Waiting
  <2>2. CASE path # None /\ UNCHANGED fileVars
    <3>1. Where(q) /\ View(q) /\ Copying(q)
      BY DEF IInv
    <3>2. /\ pc'[q] = pc[q] /\ fd'[q] = fd[q] /\ original'[q] = original[q]
          /\ size'[q] = size[q] /\ mapUnits'[q] = mapUnits[q] /\ item'[q] = item[q]
      BY <1>3 DEF OnlyProcess
    <3>3. header' = header /\ entryCount' = entryCount /\ records' = records /\ path' = path
      BY <1>2, <2>2 DEF fileVars
    <3>4. Where(q)'
      BY <3>1, <3>2, <3>3 DEF Where, Migrating, Zeros
    <3>5. View(q)'
      BY <3>1, <3>2, <3>3 DEF View, Units, HasRoom
    <3>6. Copying(q)'
      BY <3>1, <3>2, <3>3 DEF Copying, Migrating
    <3> QED
      BY <3>4, <3>5, <3>6
  <2> QED
    BY <2>1, <2>2
<1> QED
  BY <1>5, <1>7, <1>8, <1>10, <1>11, <1>12, <1>13, Preserved

LEMMA OpenKeeps ==
  ASSUME Assumptions, IInv, NEW p \in Processes, Open(p) PROVE IInv'
<1>1. PICK i \in Opened(path) : /\ fd' = [fd EXCEPT ![p] = i] /\ path' = i
                                /\ IF path = None THEN Truncate(i) ELSE UNCHANGED fileVars
  BY DEF Open
<1>2. path = None => Alone(p)
  BY DEF IInv, Directory, Alone
<1>3. Alone(p) \/ header[path] = "new"
  BY DEF Open, Assumptions
<1>4. pc[p] = "down" /\ Goto(p, "lock") /\ UNCHANGED <<tmpPath, lock, original, size, mapUnits, item>>
  BY DEF Open
<1> QED
  BY <1>1, <1>2, <1>3, <1>4, Opening

LEMMA CreateOrOverwriteKeeps ==
  ASSUME Assumptions, IInv, NEW p \in Processes, CreateOrOverwrite(p) PROVE IInv'
<1>1. PICK i \in Opened(path) : fd' = [fd EXCEPT ![p] = i] /\ path' = i /\ Truncate(i)
  BY DEF CreateOrOverwrite
<1>2. /\ pc[p] = "down" /\ Alone(p) /\ Goto(p, "lockNew")
      /\ UNCHANGED <<tmpPath, lock, original, size, mapUnits, item>>
  BY DEF CreateOrOverwrite, Assumptions
<1> QED
  BY <1>1, <1>2, Opening

LEMMA TryLockKeeps ==
  ASSUME Assumptions, IInv, NEW p \in Processes, TryLock(p) PROVE IInv'
<1>1. TypeOK /\ Directory /\ Locks /\ Where(p) /\ View(p) /\ Copying(p)
  BY DEF IInv
<1>2. /\ pc[p] \in {"lock", "lockNew"} /\ lock[fd[p]] = None /\ lock' = [lock EXCEPT ![fd[p]] = p]
      /\ UNCHANGED <<fileVars, dirVars, fd, original, size, mapUnits, item>>
      /\ Goto(p, IF pc[p] = "lock" THEN "load" ELSE "extend")
  BY DEF TryLock
<1>3. /\ pc'[p] = (IF pc[p] = "lock" THEN "load" ELSE "extend")
      /\ OnlyProcess(p) /\ pc' \in [Processes -> {"down", "lock", "lockNew", "load", "extend", "header", "migrate",
                               "copy", "renamed", "open", "grow", "remap", "construct", "count"}]
  BY <1>1, <1>2 DEF Goto, TypeOK, OnlyProcess
<1>4. fd[p] \in Inodes /\ path # None /\ path # tmpPath
  BY <1>1, <1>2 DEF Where, Directory
<1>5. lock' \in [Inodes -> Processes \union {None}]
  BY <1>1, <1>2, <1>4 DEF TypeOK
<1>6. TypeOK'
  BY <1>1, <1>2, <1>3, <1>5 DEF TypeOK, fileVars, dirVars
<1>7. Files' /\ Directory'
  BY <1>2, <1>3, <1>4, FilesSame, DirectoryKept DEF fileVars, dirVars
<1>8. Locks'
  <2>1. ASSUME NEW i \in Inodes, lock'[i] # None PROVE i \in {fd'[lock'[i]], original'[lock'[i]]}
    BY <1>1, <1>2, <1>4, <2>1 DEF Locks, TypeOK
  <2>2. ASSUME NEW q \in Processes, pc'[q] \notin Unlocked PROVE lock'[fd'[q]] = q
    <3>1. CASE q = p
      BY <1>1, <1>2, <1>4, <3>1 DEF TypeOK
    <3>2. CASE q # p
      <4>1. pc[q] \notin Unlocked
        BY <1>3, <2>2, <3>2 DEF OnlyProcess
      <4>2. lock[fd[q]] = q /\ fd[q] # fd[p]
        BY <1>1, <1>2, <4>1 DEF Locks, Assumptions
      <4>3. fd[q] \in Inodes
        BY <4>1 DEF IInv, Where, Unlocked
      <4> QED
        BY <1>1, <1>2, <4>2, <4>3 DEF TypeOK
    <3> QED
      BY <3>1, <3>2
  <2>3. ASSUME NEW q \in Processes, original'[q] # None PROVE lock'[original'[q]] = q
    <3>1. lock[original[q]] = q /\ original[q] \in Inodes
      BY <1>2, <2>3 DEF IInv, Locks, Where
    <3>2. original[q] # fd[p]
      BY <1>2, <3>1 DEF Assumptions
    <3> QED
      BY <1>1, <1>2, <3>1, <3>2 DEF TypeOK
  <2> QED
    BY <2>1, <2>2, <2>3 DEF Locks
<1>9. ASSUME NEW q \in Processes
      PROVE  /\ fd'[q] = fd[q] /\ original'[q] = original[q] /\ size'[q] = size[q] /\ mapUnits'[q] = mapUnits[q]
             /\ item'[q] = item[q] /\ header' = header /\ entryCount' = entryCount /\ records' = records
             /\ path' = path /\ tmpPath' = tmpPath
  BY <1>2 DEF fileVars, dirVars
<1>10. Where(p)' /\ View(p)' /\ Copying(p)'
  <2>1. Where(p)'
    BY <1>1, <1>2, <1>3, <1>9 DEF Where, Migrating, Zeros
  <2>2. View(p)'
    BY <1>1, <1>2, <1>3, <1>9 DEF View, Mapped, Growing
  <2>3. Copying(p)'
    BY <1>2, <1>3 DEF Copying, Mapped, Growing
  <2> QED
    BY <2>1, <2>2, <2>3
<1>11. ASSUME NEW q \in Processes \ {p} PROVE Where(q)' /\ View(q)' /\ Copying(q)'
  <2>1. Where(q) /\ View(q) /\ Copying(q) /\ pc'[q] = pc[q]
    BY <1>3 DEF IInv, OnlyProcess
  <2>2. Where(q)'
    BY <1>9, <2>1 DEF Where, Migrating, Zeros
  <2>3. View(q)'
    BY <1>9, <2>1 DEF View, Units, HasRoom
  <2>4. Copying(q)'
    BY <1>9, <2>1 DEF Copying, Migrating
  <2> QED
    BY <2>2, <2>3, <2>4
<1> QED
  BY <1>6, <1>7, <1>8, <1>10, <1>11, Preserved

\* A step of a process that keeps the directory, the locks and its descriptors.
Works(p, where) ==
  /\ Goto(p, where) /\ UNCHANGED <<dirVars, lock, fd, original>>
  /\ OnlyProcess(p)

Places == {"down", "lock", "lockNew", "load", "extend", "header", "migrate",
           "copy", "renamed", "open", "grow", "remap", "construct", "count"}

LEMMA WorkKeeps ==
  ASSUME Assumptions, IInv, NEW p \in Processes, NEW where \in Places \ Waiting, Works(p, where),
         pc[p] \notin Waiting, pc[p] = "lockNew" => where = "lockNew",
         header' \in [Inodes -> {"none", "old", "new"}], entryCount' \in [Inodes -> Nat],
         records' \in [Inodes -> Seq(Slot)], size' \in [Processes -> Nat],
         mapUnits' \in [Processes -> 0 .. MaxUnits], item' \in [Processes -> Slot],
         header'[path] # "new" => header[path] # "new", Files', Where(p)', View(p)', Copying(p)'
  PROVE  IInv'
<1>1. TypeOK /\ Directory
  BY DEF IInv
<1>2. pc' \in [Processes -> Places] /\ pc'[p] = where
  BY <1>1 DEF Works, Goto, TypeOK, Places
<1>3. TypeOK'
  BY <1>1, <1>2 DEF TypeOK, Works, dirVars, Places
<1>4. pc[p] # "down" /\ path' = path /\ tmpPath' = tmpPath /\ path # tmpPath
  BY <1>1 DEF Works, dirVars, Waiting, Directory
<1>5. Directory'
  BY <1>4, DirectoryKept DEF Works
<1>6. pc[p] \in Unlocked => pc'[p] \in Unlocked
  BY <1>2 DEF Unlocked, Waiting
<1>7. Locks'
  BY <1>6, LocksKept DEF Works
<1>8. \A q \in Processes \ {p} : Where(q)' /\ View(q)' /\ Copying(q)'
  BY <1>4, OthersKept DEF Works
<1> QED
  BY <1>3, <1>5, <1>7, <1>8, Preserved

LEMMA Worker ==
  ASSUME Assumptions, IInv, NEW p \in Processes, pc[p] \notin Waiting
  PROVE  /\ TypeOK /\ Where(p) /\ View(p) /\ Copying(p)
         /\ fd[p] \in Inodes /\ path \in Inodes /\ FileOK(fd[p]) /\ FileOK(path)
         /\ size[p] \in Nat /\ mapUnits[p] \in 0 .. MaxUnits
         /\ Migrating(p) => fd[p] # path /\ header[path] = "old"
         /\ ~Migrating(p) => fd[p] = path
<1>1. TypeOK /\ Where(p) /\ View(p) /\ Copying(p) /\ Files /\ Directory /\ pc[p] # "down"
  BY DEF IInv, Waiting
<1>2. fd[p] \in Inodes /\ path \in Inodes
  BY <1>1 DEF Where, Directory, TypeOK
<1>3. Migrating(p) => fd[p] # path /\ header[path] = "old"
  BY <1>1 DEF Where, Migrating
<1>4. ~Migrating(p) => fd[p] = path
  BY <1>1 DEF Where
<1> QED
  BY <1>1, <1>2, <1>3, <1>4 DEF Files, TypeOK

LEMMA LoadKeeps ==
  ASSUME Assumptions, IInv, NEW p \in Processes, Load(p) PROVE IInv'
<1> DEFINE i == fd[p]
<1>1. pc[p] = "load" /\ pc[p] \notin Waiting /\ UNCHANGED <<fileVars, dirVars>>
  BY DEF Load, Waiting
<1>2. /\ TypeOK /\ Where(p) /\ View(p) /\ FileOK(i) /\ i \in Inodes /\ size[p] \in Nat
      /\ mapUnits[p] \in 0 .. MaxUnits
  BY <1>1, Worker
<1>3. original[p] = None /\ i = path /\ size[p] = 0 /\ mapUnits[p] = 0
  BY <1>1, <1>2 DEF Where, View, Migrating, Mapped, Growing
<1>4. Files' /\ header' = header /\ entryCount' = entryCount /\ records' = records /\ path' = path
  BY <1>1, FilesSame DEF fileVars, dirVars
<1>5. CASE /\ records[i] = <<>> /\ Goto(p, "extend") /\ UNCHANGED <<lock, fd, original, size, mapUnits, item>>
  <2>1. Works(p, "extend") /\ pc'[p] = "extend"
    BY <1>1, <1>2, <1>5 DEF Works, OnlyProcess, Goto, TypeOK
  <2>2. Where(p)'
    BY <1>2, <1>3, <1>4, <1>5, <2>1 DEF Where, Migrating
  <2>3. View(p)' /\ Copying(p)'
    BY <1>3, <1>5, <2>1 DEF View, Copying, Migrating, Mapped, Growing
  <2> QED
    BY <1>1, <1>2, <1>4, <1>5, <2>1, <2>2, <2>3, WorkKeeps DEF TypeOK, Places, Waiting
<1>6. CASE Forget(p)
  BY <1>1, <1>6, ForgetKeeps DEF dirVars
<1>7. CASE /\ header[i] = "new" /\ Map(p, Units(i), entryCount[i]) /\ Goto(p, "open")
           /\ UNCHANGED <<lock, fd, original, item>>
  <2>1. /\ Works(p, "open") /\ pc'[p] = "open" /\ mapUnits'[p] = Units(i) /\ size'[p] = entryCount[i]
    BY <1>1, <1>2, <1>7 DEF Works, OnlyProcess, Goto, TypeOK, Map
  <2>2. Where(p)'
    BY <1>2, <1>3, <1>4, <1>7, <2>1 DEF Where, Migrating
  <2>3. Units(i)' = Units(i) /\ Units(i) \in 0 .. MaxUnits /\ entryCount[i] \in Nat
        /\ entryCount[i] <= Units(i) * UnitRecords
    <3>1. Units(i)' = Units(i)
      BY <1>4, <1>7 DEF Units
    <3>2. entryCount[i] \in Nat
      BY <1>2 DEF TypeOK
    <3>3. Units(i) \in 0 .. MaxUnits /\ entryCount[i] <= Units(i) * UnitRecords
      BY <1>2 DEF FileOK
    <3> QED
      BY <3>1, <3>2, <3>3
  <2>4. View(p)'
    BY <1>4, <1>7, <2>1, <2>3 DEF View, Mapped, Growing
  <2>5. Copying(p)'
    BY <1>3, <1>7 DEF Copying, Migrating
  <2>6. size' \in [Processes -> Nat] /\ mapUnits' \in [Processes -> 0 .. MaxUnits] /\ item' \in [Processes -> Slot]
    BY <1>2, <1>7, <2>3 DEF TypeOK, Map
  <2> QED
    BY <1>1, <1>2, <1>4, <2>1, <2>2, <2>4, <2>5, <2>6, WorkKeeps DEF TypeOK, Places, Waiting
<1>8. CASE /\ header[i] = "old" /\ Goto(p, "migrate") /\ UNCHANGED <<lock, fd, original, size, mapUnits, item>>
  <2>1. Works(p, "migrate") /\ pc'[p] = "migrate"
    BY <1>1, <1>2, <1>8 DEF Works, OnlyProcess, Goto, TypeOK
  <2>2. Where(p)'
    BY <1>2, <1>3, <1>4, <1>8, <2>1 DEF Where, Migrating
  <2>3. View(p)' /\ Copying(p)'
    BY <1>3, <1>8, <2>1 DEF View, Copying, Migrating, Mapped, Growing
  <2> QED
    BY <1>1, <1>2, <1>4, <1>8, <2>1, <2>2, <2>3, WorkKeeps DEF TypeOK, Places, Waiting
<1> QED
  BY <1>5, <1>6, <1>7, <1>8 DEF Load

LEMMA InitExtendKeeps ==
  ASSUME Assumptions, IInv, NEW p \in Processes, InitExtend(p) PROVE IInv'
<1> DEFINE i == fd[p]
<1>1. /\ pc[p] = "extend" /\ pc[p] \notin Waiting /\ records' = [records EXCEPT ![i] = Zeros(1)]
      /\ Goto(p, "header") /\ UNCHANGED <<header, entryCount, dirVars, lock, fd, original, size, mapUnits, item>>
  BY DEF InitExtend, Waiting
<1>2. /\ TypeOK /\ Where(p) /\ View(p) /\ FileOK(i) /\ i \in Inodes /\ path \in Inodes
  BY <1>1, Worker
<1>3. Works(p, "header") /\ pc'[p] = "header"
  BY <1>1, <1>2 DEF Works, OnlyProcess, Goto, TypeOK
<1>4. Zeros(1) \in Seq(Slot) /\ Len(Zeros(1)) = 1 * UnitRecords /\ (1 * UnitRecords) \div UnitRecords = 1
      /\ 1 * UnitRecords \in Nat \ {0} /\ 1 \in 0 .. MaxUnits
  BY ZerosLen, TimesDiv DEF Assumptions
<1>5. records' \in [Inodes -> Seq(Slot)] /\ records'[i] = Zeros(1)
      /\ \A j \in Inodes \ {i} : records'[j] = records[j]
  BY <1>1, <1>2, <1>4 DEF TypeOK
<1>6. records[i] = <<>> /\ header[i] = "none" /\ entryCount[i] = 0 /\ mapUnits[p] = 0 /\ size[p] = 0
  <2>1. records[i] = <<>> /\ mapUnits[p] = 0 /\ size[p] = 0
    BY <1>1, <1>2 DEF Where, View, Mapped, Growing
  <2>2. Len(records[i]) = 0 /\ entryCount[i] \in Nat
    BY <1>2, <2>1 DEF TypeOK
  <2> QED
    BY <1>2, <2>1, <2>2 DEF FileOK
<1>7. Files'
  <2>1. records'[i] # <<>>
    BY <1>4, <1>5
  <2>2. Units(i)' = 1 /\ Len(records'[i]) = 1 * UnitRecords
    BY <1>1, <1>4, <1>5 DEF Units
  <2>3. FileOK(i)'
    BY <1>1, <1>4, <1>6, <2>1, <2>2 DEF FileOK
  <2> QED
    BY <1>1, <1>2, <1>5, <2>3, FilesKept
<1>8. Where(p)'
  <2>1. header'[fd'[p]] = "none" /\ records'[fd'[p]] = Zeros(1)'
    BY <1>1, <1>5, <1>6 DEF Zeros
  <2> QED
    BY <1>1, <1>2, <1>3, <2>1 DEF Where, Migrating, dirVars
<1>9. View(p)' /\ Copying(p)'
  BY <1>1, <1>3, <1>6 DEF View, Copying, Mapped, Growing
<1> QED
  BY <1>1, <1>2, <1>3, <1>5, <1>7, <1>8, <1>9, WorkKeeps DEF TypeOK, Places, Waiting

LEMMA InitHeaderKeeps ==
  ASSUME Assumptions, IInv, NEW p \in Processes, InitHeader(p) PROVE IInv'
<1> DEFINE i == fd[p]
           where == IF original[p] = None THEN "open" ELSE "copy"
<1>1. /\ pc[p] = "header" /\ pc[p] \notin Waiting /\ header' = [header EXCEPT ![i] = "new"]
      /\ entryCount' = [entryCount EXCEPT ![i] = 0] /\ Map(p, 1, 0) /\ Goto(p, where)
      /\ UNCHANGED <<records, dirVars, lock, fd, original, item>>
  BY DEF InitHeader, Waiting
<1>2. /\ TypeOK /\ Where(p) /\ View(p) /\ FileOK(i) /\ i \in Inodes /\ path \in Inodes /\ FileOK(path)
      /\ Migrating(p) => i # path
  BY <1>1, Worker
<1>3. Works(p, where) /\ pc'[p] = where /\ mapUnits'[p] = 1 /\ size'[p] = 0
  BY <1>1, <1>2 DEF Works, OnlyProcess, Goto, TypeOK, Map
<1>4. Zeros(1) \in Seq(Slot) /\ Len(Zeros(1)) = 1 * UnitRecords /\ (1 * UnitRecords) \div UnitRecords = 1
      /\ 1 * UnitRecords \in Nat \ {0} /\ 1 \in 0 .. MaxUnits
  BY ZerosLen, TimesDiv DEF Assumptions
<1>5. /\ header' \in [Inodes -> {"none", "old", "new"}] /\ entryCount' \in [Inodes -> Nat]
      /\ header'[i] = "new" /\ entryCount'[i] = 0
      /\ \A j \in Inodes \ {i} : header'[j] = header[j] /\ entryCount'[j] = entryCount[j]
      /\ size' \in [Processes -> Nat] /\ mapUnits' \in [Processes -> 0 .. MaxUnits]
  BY <1>1, <1>2, <1>4 DEF TypeOK, Map
<1>6. records[i] = Zeros(1)
  BY <1>1, <1>2 DEF Where
<1>7. Units(i)' = 1 /\ Len(records'[i]) = 1 * UnitRecords /\ records'[i] # <<>>
  BY <1>1, <1>4, <1>6 DEF Units
<1>8. Files'
  <2>1. FileOK(i)'
    BY <1>1, <1>4, <1>5, <1>7 DEF FileOK
  <2> QED
    BY <1>1, <1>2, <1>5, <2>1, FilesKept
<1>9. Where(p)'
  <2>1. original[p] # None => header'[path] = header[path]
    BY <1>1, <1>2, <1>5 DEF Migrating
  <2> QED
    BY <1>1, <1>2, <1>3, <2>1 DEF Where, Migrating, dirVars
<1>10. View(p)'
  BY <1>1, <1>3, <1>4, <1>5, <1>7 DEF View, Mapped, Growing
<1>11. Copying(p)'
  <2>1. entryCount'[path'] \in Nat
    BY <1>1, <1>2, <1>5 DEF dirVars
  <2>2. pc'[p] \notin Growing
    BY <1>3 DEF Growing
  <2> QED
    BY <1>3, <2>1, <2>2 DEF Copying
<1>12. header'[path] # "new" => header[path] # "new"
  BY <1>2, <1>5
<1> HIDE DEF i
<1> QED
  BY <1>1, <1>2, <1>3, <1>5, <1>8, <1>9, <1>10, <1>11, <1>12, WorkKeeps DEF TypeOK, Places, Waiting

-----------------------------------------------------------------------------
(* emplace_back() and pop_back() *)

LEMMA EmplaceKeeps ==
  ASSUME Assumptions, IInv, NEW p \in Processes, NEW v \in Values, Emplace(p, v), pc[p] \in {"open", "copy"},
         pc[p] = "copy" => size[p] < entryCount[path] /\ v = records[path][size[p] + 1]
  PROVE  IInv'
<1> DEFINE where == IF HasRoom(p) THEN "construct" ELSE "grow"
<1>1. /\ pc[p] \notin Waiting /\ item' = [item EXCEPT ![p] = v] /\ Goto(p, where)
      /\ HasRoom(p) \/ mapUnits[p] < MaxUnits
      /\ UNCHANGED <<fileVars, dirVars, lock, fd, original, size, mapUnits>>
  BY DEF Emplace, Waiting
<1>2. /\ TypeOK /\ Where(p) /\ View(p) /\ Copying(p) /\ fd[p] \in Inodes /\ path \in Inodes
      /\ size[p] \in Nat /\ mapUnits[p] \in 0 .. MaxUnits
  BY <1>1, Worker
<1>3. Works(p, where) /\ pc'[p] = where /\ item'[p] = v
  BY <1>1, <1>2 DEF Works, OnlyProcess, Goto, TypeOK
<1>4. Files' /\ header' = header /\ entryCount' = entryCount /\ records' = records /\ path' = path /\ tmpPath' = tmpPath
  BY <1>1, FilesSame DEF fileVars, dirVars
<1>5. Where(p)'
  BY <1>1, <1>2, <1>3, <1>4 DEF Where, Migrating
<1>6. View(p)'
  <2>1. /\ header[fd[p]] = "new" /\ size[p] = entryCount[fd[p]]
        /\ mapUnits[p] <= Units(fd[p]) /\ size[p] <= mapUnits[p] * UnitRecords
    BY <1>2 DEF View, Mapped
  <2>2. HasRoom(p)' <=> HasRoom(p)
    BY <1>1 DEF HasRoom
  <2>3. mapUnits[p] * UnitRecords \in Nat
    BY <1>2, Times
  <2>4. ~HasRoom(p) => size[p] = mapUnits[p] * UnitRecords /\ mapUnits[p] < MaxUnits
    BY <1>1, <1>2, <2>1, <2>3 DEF HasRoom
  <2>5. Units(fd[p])' = Units(fd[p])
    BY <1>1, <1>4 DEF Units
  <2> QED
    BY <1>1, <1>3, <1>4, <2>1, <2>2, <2>4, <2>5 DEF View, Mapped, Growing
<1>7. Copying(p)'
  <2>1. CASE pc[p] = "open"
    <3>1. original'[p] = None
      BY <1>1, <1>2, <2>1 DEF Where
    <3> QED
      BY <3>1 DEF Copying, Migrating
  <2>2. CASE pc[p] = "copy"
    <3>1. Migrating(p)
      BY <1>2, <2>2 DEF Where, Migrating
    <3>2. size[p] <= entryCount[path] /\ \A s \in 1 .. size[p] : records[fd[p]][s] = records[path][s]
      BY <1>2, <2>2, <3>1 DEF Copying, Mapped
    <3> QED
      BY <1>1, <1>3, <1>4, <2>2, <3>2 DEF Copying
  <2> QED
    BY <2>1, <2>2
<1>8. item' \in [Processes -> Slot] /\ where \in Places \ Waiting
  BY <1>1, <1>2 DEF TypeOK, Slot, Places, Waiting
<1> HIDE DEF where
<1> QED
  BY <1>1, <1>2, <1>3, <1>4, <1>5, <1>6, <1>7, <1>8, WorkKeeps DEF TypeOK

LEMMA EmplaceBackKeeps ==
  ASSUME Assumptions, IInv, NEW p \in Processes, NEW v \in Values, EmplaceBack(p, v) PROVE IInv'
BY EmplaceKeeps DEF EmplaceBack

LEMMA CopyRecordKeeps ==
  ASSUME Assumptions, IInv, NEW p \in Processes, CopyRecord(p) PROVE IInv'
<1> DEFINE v == records[original[p]][size[p] + 1]
<1>1. pc[p] = "copy" /\ pc[p] \notin Waiting /\ ~Copied(p) /\ Emplace(p, v)
  BY DEF CopyRecord, Waiting
<1>2. /\ TypeOK /\ Where(p) /\ Copying(p) /\ FileOK(path) /\ path \in Inodes /\ size[p] \in Nat
  BY <1>1, Worker
<1>3. Migrating(p) /\ original[p] = path
  BY <1>1, <1>2 DEF Where, Migrating
<1>4. size[p] <= entryCount[path] /\ entryCount[path] \in Nat /\ size[p] # entryCount[path]
  BY <1>1, <1>2, <1>3 DEF Copying, Mapped, TypeOK, Copied
<1>5. size[p] < entryCount[path] /\ size[p] + 1 \in 1 .. entryCount[path]
  BY <1>2, <1>4
<1>6. v \in Values /\ v = records[path][size[p] + 1]
  BY <1>2, <1>3, <1>5 DEF FileOK
<1> HIDE DEF v
<1> QED
  BY <1>1, <1>5, <1>6, EmplaceKeeps

LEMMA RemapKeeps ==
  ASSUME Assumptions, IInv, NEW p \in Processes, Remap(p) PROVE IInv'
<1>1. /\ pc[p] = "remap" /\ pc[p] \notin Waiting /\ Map(p, mapUnits[p] + 1, size[p]) /\ Goto(p, "construct")
      /\ UNCHANGED <<fileVars, dirVars, lock, fd, original, item>>
  BY DEF Remap, Waiting
<1>2. /\ TypeOK /\ Where(p) /\ View(p) /\ Copying(p) /\ fd[p] \in Inodes /\ path \in Inodes
      /\ size[p] \in Nat /\ mapUnits[p] \in 0 .. MaxUnits /\ FileOK(fd[p])
  BY <1>1, Worker
<1>3. /\ Works(p, "construct") /\ pc'[p] = "construct" /\ mapUnits'[p] = mapUnits[p] + 1 /\ size'[p] = size[p]
  BY <1>1, <1>2 DEF Works, OnlyProcess, Goto, TypeOK, Map
<1>4. Files' /\ header' = header /\ entryCount' = entryCount /\ records' = records /\ path' = path /\ tmpPath' = tmpPath
  BY <1>1, FilesSame DEF fileVars, dirVars
<1>5. Where(p)'
  BY <1>1, <1>2, <1>3, <1>4 DEF Where, Migrating
<1>6. /\ header[fd[p]] = "new" /\ size[p] = entryCount[fd[p]] /\ mapUnits[p] < Units(fd[p])
      /\ size[p] = mapUnits[p] * UnitRecords /\ mapUnits[p] < MaxUnits /\ item[p] \in Values
  BY <1>1, <1>2 DEF View, Mapped, Growing
<1>7. View(p)'
  <2>1. Units(fd[p]) \in Nat
    BY <1>2 DEF FileOK
  <2>2. mapUnits'[p] <= Units(fd[p])
    BY <1>2, <1>3, <1>6, <2>1
  <2>3. size[p] < mapUnits'[p] * UnitRecords /\ size[p] <= mapUnits'[p] * UnitRecords
    <3>1. mapUnits'[p] * UnitRecords = size[p] + UnitRecords
      BY <1>2, <1>3, <1>6, Times
    <3> QED
      BY <1>2, <3>1 DEF Assumptions
  <2>4. HasRoom(p)'
    BY <1>3, <2>3 DEF HasRoom
  <2>5. Units(fd[p])' = Units(fd[p])
    BY <1>1, <1>4 DEF Units
  <2> QED
    BY <1>1, <1>3, <1>4, <1>6, <2>2, <2>3, <2>4, <2>5 DEF View, Mapped, Growing
<1>8. Copying(p)'
  BY <1>1, <1>2, <1>3, <1>4 DEF Copying, Migrating, Mapped, Growing
<1>9. size' \in [Processes -> Nat] /\ mapUnits' \in [Processes -> 0 .. MaxUnits]
  <2>1. mapUnits[p] + 1 \in 0 .. MaxUnits
    BY <1>2, <1>6 DEF Assumptions
  <2> QED
    BY <1>1, <1>2, <2>1 DEF TypeOK, Map
<1> QED
  BY <1>1, <1>2, <1>3, <1>4, <1>5, <1>7, <1>8, <1>9, WorkKeeps DEF TypeOK, Places, Waiting

LEMMA EmplaceThrowsKeeps ==
  ASSUME Assumptions, IInv, NEW p \in Processes, EmplaceThrows(p) PROVE IInv'
<1>1. pc[p] \in {"grow", "remap", "construct"} /\ pc[p] \notin Waiting /\ UNCHANGED <<fileVars, path>>
  BY DEF EmplaceThrows, Waiting
<1>2. CASE /\ original[p] = None /\ Goto(p, "open") /\ item' = [item EXCEPT ![p] = None]
           /\ UNCHANGED <<tmpPath, lock, fd, original, size, mapUnits>>
  <2>1. TypeOK /\ Where(p) /\ View(p)
    BY <1>1, Worker
  <2>2. Works(p, "open") /\ pc'[p] = "open"
    BY <1>1, <1>2, <2>1 DEF Works, OnlyProcess, Goto, TypeOK, dirVars
  <2>3. Files' /\ header' = header /\ entryCount' = entryCount /\ records' = records
    BY <1>1, FilesSame DEF fileVars
  <2>4. Where(p)'
    BY <1>1, <1>2, <2>1, <2>2, <2>3 DEF Where, Migrating
  <2>5. View(p)'
    BY <1>1, <1>2, <2>1, <2>2, <2>3 DEF View, Mapped, Growing, Units
  <2>6. Copying(p)'
    BY <1>2 DEF Copying, Migrating
  <2>7. item' \in [Processes -> Slot]
    BY <1>2, <2>1 DEF TypeOK, Slot
  <2> QED
    BY <1>1, <1>2, <2>1, <2>2, <2>3, <2>4, <2>5, <2>6, <2>7, WorkKeeps DEF TypeOK, Places, Waiting
<1>3. CASE tmpPath' = None /\ Forget(p)
  BY <1>1, <1>3, ForgetKeeps
<1> QED
  BY <1>2, <1>3 DEF EmplaceThrows

\* A file that grows keeps its records.
LEMMA Extended ==
  ASSUME Assumptions, NEW k \in 0 .. MaxUnits, NEW n \in 0 .. MaxUnits, k < n,
         NEW old \in Seq(Slot), Len(old) = k * UnitRecords
  PROVE  /\ old \o Zeros(n - k) \in Seq(Slot)
         /\ Len(old \o Zeros(n - k)) = n * UnitRecords
         /\ \A s \in 1 .. Len(old) : (old \o Zeros(n - k))[s] = old[s]
<1>1. n - k \in Nat /\ k \in Nat /\ n \in Nat /\ k + (n - k) = n
  BY DEF Assumptions
<1>2. Zeros(n - k) \in Seq(Slot) /\ Len(Zeros(n - k)) = (n - k) * UnitRecords
  BY <1>1, ZerosLen
<1>3. n * UnitRecords = k * UnitRecords + (n - k) * UnitRecords
  <2> DEFINE m == n - k
  <2>1. m \in Nat /\ k + m = n
    BY <1>1
  <2> HIDE DEF m
  <2>2. n * UnitRecords = k * UnitRecords + m * UnitRecords
    BY <1>1, <2>1, TimesAdd
  <2> QED
    BY <2>2 DEF m
<1> DEFINE z == Zeros(n - k)
<1>4. z \in Seq(Slot) /\ Len(old) + Len(z) = n * UnitRecords
  BY <1>2, <1>3
<1> HIDE DEF z
<1>5. old \o z \in Seq(Slot) /\ Len(old \o z) = Len(old) + Len(z) /\ \A s \in 1 .. Len(old) : (old \o z)[s] = old[s]
  BY <1>4
<1> QED
  BY <1>4, <1>5 DEF z

LEMMA GrowFileKeeps ==
  ASSUME Assumptions, IInv, NEW p \in Processes, GrowFile(p) PROVE IInv'
<1> DEFINE i == fd[p]
           old == records[i]
           k == Units(i)
           n == mapUnits[p] + 1
           new == IF k < n THEN old \o Zeros(n - k) ELSE old
<1>1. /\ pc[p] = "grow" /\ pc[p] \notin Waiting /\ records' = [records EXCEPT ![i] = new]
      /\ Goto(p, "remap") /\ UNCHANGED <<header, entryCount, dirVars, lock, fd, original, size, mapUnits, item>>
  BY DEF GrowFile, Waiting, NewUnits
<1>2. /\ TypeOK /\ Where(p) /\ View(p) /\ Copying(p) /\ i \in Inodes /\ path \in Inodes
      /\ size[p] \in Nat /\ mapUnits[p] \in 0 .. MaxUnits /\ FileOK(i) /\ (Migrating(p) => i # path)
  BY <1>1, Worker
<1>3. Works(p, "remap") /\ pc'[p] = "remap"
  BY <1>1, <1>2 DEF Works, OnlyProcess, Goto, TypeOK
<1>4. old \in Seq(Slot) /\ k \in 0 .. MaxUnits /\ Len(old) = k * UnitRecords /\ entryCount[i] \in Nat
      /\ entryCount[i] <= Len(old)
  BY <1>2 DEF FileOK, TypeOK
<1>5. /\ header[i] = "new" /\ size[p] = entryCount[i] /\ mapUnits[p] <= k
      /\ size[p] = mapUnits[p] * UnitRecords /\ mapUnits[p] < MaxUnits /\ item[p] \in Values
  BY <1>1, <1>2 DEF View, Mapped, Growing
<1>6. n \in 0 .. MaxUnits
  BY <1>2, <1>5 DEF Assumptions
<1>7. PICK m \in 0 .. MaxUnits : m >= n /\ m >= k /\ new \in Seq(Slot) /\ Len(new) = m * UnitRecords
                                 /\ \A s \in 1 .. Len(old) : new[s] = old[s]
  <2> HIDE DEF k, n, old
  <2>1. CASE k < n
    BY <1>4, <1>6, <2>1, Extended
  <2>2. CASE ~(k < n)
    BY <1>4, <1>6, <2>2
  <2> QED
    BY <2>1, <2>2
<1> HIDE DEF new
<1>8. records' \in [Inodes -> Seq(Slot)] /\ records'[i] = new /\ \A j \in Inodes \ {i} : records'[j] = records[j]
  BY <1>1, <1>2, <1>7 DEF TypeOK
<1>9. Units(i)' = m
  BY <1>1, <1>7, <1>8, TimesDiv DEF Units
<1>10. \A s \in 1 .. entryCount[i] : records'[i][s] = records[i][s] /\ s \in 1 .. Len(old)
  BY <1>4, <1>7, <1>8
<1>11. k * UnitRecords \in Nat /\ m * UnitRecords \in Nat /\ k * UnitRecords <= m * UnitRecords
  BY <1>4, <1>7, Times, TimesMono
<1>12. FileOK(i)'
  <2>1. Units(i)' \in 0 .. MaxUnits /\ Len(records'[i]) = Units(i)' * UnitRecords
    BY <1>1, <1>7, <1>8, <1>9
  <2>2. entryCount[i] <= Len(records'[i])
    <3> HIDE DEF k, i, old
    <3> QED
      BY <1>4, <1>7, <1>8, <1>11
  <2>3. \A s \in 1 .. entryCount[i] : records'[i][s] \in Values
    BY <1>2, <1>10 DEF FileOK
  <2>4. records'[i] # <<>>
    <3>1. m > 0 /\ m \in Nat /\ mapUnits[p] \in Nat
      BY <1>2, <1>7
    <3>2. m * UnitRecords # 0
      BY <3>1 DEF Assumptions
    <3> QED
      BY <1>7, <1>8, <3>2
  <2> QED
    BY <1>1, <2>1, <2>2, <2>3, <2>4 DEF FileOK
<1>13. Files'
  BY <1>1, <1>2, <1>8, <1>12, FilesKept
<1>14. Where(p)'
  BY <1>1, <1>2, <1>3 DEF Where, Migrating, dirVars
<1>15. View(p)'
  <2>1. mapUnits[p] < m /\ mapUnits[p] <= m
    BY <1>2, <1>7
  <2>2. size[p] <= mapUnits[p] * UnitRecords
    BY <1>2, <1>5
  <2> QED
    BY <1>1, <1>3, <1>5, <1>9, <2>1, <2>2 DEF View, Mapped, Growing
<1>16. Copying(p)'
  <2> SUFFICES ASSUME Migrating(p) PROVE Copying(p)'
    BY <1>1, <1>3 DEF Copying, Migrating
  <2>1. i # path /\ records'[path] = records[path] /\ path' = path
    BY <1>1, <1>2, <1>8 DEF dirVars
  <2>2. /\ size[p] <= entryCount[path] /\ \A s \in 1 .. size[p] : records[i][s] = records[path][s]
        /\ size[p] < entryCount[path] /\ item[p] = records[path][size[p] + 1]
    BY <1>1, <1>2 DEF Copying, Mapped, Growing
  <2> QED
    BY <1>1, <1>5, <1>10, <2>1, <2>2 DEF Copying
<1> QED
  BY <1>1, <1>2, <1>3, <1>8, <1>13, <1>14, <1>15, <1>16, WorkKeeps DEF TypeOK, Places, Waiting

LEMMA ConstructRecordKeeps ==
  ASSUME Assumptions, IInv, NEW p \in Processes, ConstructRecord(p) PROVE IInv'
<1> DEFINE i == fd[p]
           old == records[i]
           new == [s \in DOMAIN old |-> IF s = size[p] + 1 THEN item[p] ELSE old[s]]
<1>1. /\ pc[p] = "construct" /\ pc[p] \notin Waiting /\ records' = [records EXCEPT ![i] = new]
      /\ Goto(p, "count") /\ UNCHANGED <<header, entryCount, dirVars, lock, fd, original, size, mapUnits, item>>
  BY DEF ConstructRecord, Construct, Waiting
<1>2. /\ TypeOK /\ Where(p) /\ View(p) /\ Copying(p) /\ i \in Inodes /\ path \in Inodes
      /\ size[p] \in Nat /\ mapUnits[p] \in 0 .. MaxUnits /\ FileOK(i) /\ (Migrating(p) => i # path)
  BY <1>1, Worker
<1>3. Works(p, "count") /\ pc'[p] = "count"
  BY <1>1, <1>2 DEF Works, OnlyProcess, Goto, TypeOK
<1>4. old \in Seq(Slot) /\ Units(i) \in 0 .. MaxUnits /\ Len(old) = Units(i) * UnitRecords /\ entryCount[i] \in Nat
      /\ entryCount[i] <= Len(old)
  BY <1>2 DEF FileOK, TypeOK
<1>5. /\ header[i] = "new" /\ size[p] = entryCount[i] /\ mapUnits[p] <= Units(i)
      /\ size[p] <= mapUnits[p] * UnitRecords /\ size[p] < mapUnits[p] * UnitRecords /\ item[p] \in Values
  BY <1>1, <1>2 DEF View, Mapped, Growing, HasRoom
<1>6. size[p] + 1 \in 1 .. Len(old)
  <2>1. mapUnits[p] \in Nat /\ Units(i) \in Nat
    BY <1>2, <1>4
  <2>2. mapUnits[p] * UnitRecords \in Nat /\ mapUnits[p] * UnitRecords <= Units(i) * UnitRecords
    BY <1>5, <2>1, Times, TimesMono
  <2>3. Units(i) * UnitRecords \in Nat
    BY <2>1, Times
  <2> HIDE DEF old
  <2> QED
    BY <1>2, <1>4, <1>5, <2>2, <2>3
<1>7. new \in Seq(Slot) /\ Len(new) = Len(old) /\ new[size[p] + 1] = item[p]
      /\ \A s \in 1 .. size[p] : new[s] = old[s]
  <2>1. item[p] \in Slot /\ DOMAIN old = 1 .. Len(old)
    BY <1>4, <1>5 DEF Slot
  <2> HIDE DEF old
  <2>2. \A s \in 1 .. Len(old) : old[s] \in Slot
    BY <1>4
  <2>3. new \in Seq(Slot) /\ Len(new) = Len(old) /\ DOMAIN new = 1 .. Len(old)
    BY <1>4, <2>1, <2>2
  <2>4. \A s \in 1 .. size[p] : s \in 1 .. Len(old) /\ s # size[p] + 1
    BY <1>2, <1>4, <1>6
  <2> QED
    BY <1>6, <2>1, <2>3, <2>4
<1> HIDE DEF new
<1>8. records' \in [Inodes -> Seq(Slot)] /\ records'[i] = new /\ \A j \in Inodes \ {i} : records'[j] = records[j]
  BY <1>1, <1>2, <1>7 DEF TypeOK
<1>9. Units(i)' = Units(i)
  BY <1>1, <1>7, <1>8 DEF Units
<1>10. FileOK(i)'
  <2>1. \A s \in 1 .. entryCount[i] : records'[i][s] \in Values
    BY <1>2, <1>5, <1>7, <1>8 DEF FileOK
  <2>2. records'[i] # <<>>
    BY <1>2, <1>6, <1>7, <1>8
  <2> QED
    BY <1>1, <1>4, <1>7, <1>8, <1>9, <2>1, <2>2 DEF FileOK
<1>11. Files'
  BY <1>1, <1>2, <1>8, <1>10, FilesKept
<1>12. Where(p)'
  BY <1>1, <1>2, <1>3 DEF Where, Migrating, dirVars
<1>13. View(p)'
  BY <1>1, <1>3, <1>5, <1>7, <1>8, <1>9 DEF View, Mapped, Growing, HasRoom
<1>14. Copying(p)'
  <2> SUFFICES ASSUME Migrating(p) PROVE Copying(p)'
    BY <1>1, <1>3 DEF Copying, Migrating
  <2>1. i # path /\ records'[path] = records[path] /\ path' = path
    BY <1>1, <1>2, <1>8 DEF dirVars
  <2>2. /\ size[p] <= entryCount[path] /\ \A s \in 1 .. size[p] : records[i][s] = records[path][s]
        /\ size[p] < entryCount[path] /\ item[p] = records[path][size[p] + 1]
    BY <1>1, <1>2 DEF Copying, Mapped, Growing
  <2> QED
    BY <1>1, <1>7, <1>8, <2>1, <2>2 DEF Copying
<1> QED
  BY <1>1, <1>2, <1>3, <1>8, <1>11, <1>12, <1>13, <1>14, WorkKeeps DEF TypeOK, Places, Waiting

LEMMA CountRecordKeeps ==
  ASSUME Assumptions, IInv, NEW p \in Processes, CountRecord(p) PROVE IInv'
<1> DEFINE i == fd[p]
           where == IF original[p] = None THEN "open" ELSE "copy"
<1>1. /\ pc[p] = "count" /\ pc[p] \notin Waiting /\ size' = [size EXCEPT ![p] = size[p] + 1]
      /\ entryCount' = [entryCount EXCEPT ![i] = entryCount[i] + 1] /\ item' = [item EXCEPT ![p] = None]
      /\ Goto(p, where) /\ UNCHANGED <<header, records, dirVars, lock, fd, original, mapUnits>>
  BY DEF CountRecord, Waiting
<1>2. /\ TypeOK /\ Where(p) /\ View(p) /\ Copying(p) /\ i \in Inodes /\ path \in Inodes
      /\ size[p] \in Nat /\ mapUnits[p] \in 0 .. MaxUnits /\ FileOK(i) /\ (Migrating(p) => i # path)
  BY <1>1, Worker
<1>3. Works(p, where) /\ pc'[p] = where /\ size'[p] = size[p] + 1
  BY <1>1, <1>2 DEF Works, OnlyProcess, Goto, TypeOK
<1>4. /\ records[i] \in Seq(Slot) /\ Units(i) \in 0 .. MaxUnits /\ Len(records[i]) = Units(i) * UnitRecords
      /\ entryCount[i] \in Nat /\ entryCount[i] <= Len(records[i])
  BY <1>2 DEF FileOK, TypeOK
<1>5. /\ header[i] = "new" /\ size[p] = entryCount[i] /\ mapUnits[p] <= Units(i)
      /\ size[p] < mapUnits[p] * UnitRecords /\ item[p] \in Values /\ records[i][size[p] + 1] = item[p]
  BY <1>1, <1>2 DEF View, Mapped, Growing, HasRoom
<1>6. size[p] + 1 <= Len(records[i]) /\ size[p] + 1 <= mapUnits[p] * UnitRecords
  <2>1. mapUnits[p] \in Nat /\ Units(i) \in Nat
    BY <1>2, <1>4
  <2>2. mapUnits[p] * UnitRecords \in Nat /\ mapUnits[p] * UnitRecords <= Units(i) * UnitRecords
    BY <1>5, <2>1, Times, TimesMono
  <2>3. Units(i) * UnitRecords \in Nat
    BY <2>1, Times
  <2> QED
    BY <1>2, <1>4, <1>5, <2>2, <2>3
<1>7. /\ entryCount' \in [Inodes -> Nat] /\ size' \in [Processes -> Nat] /\ item' \in [Processes -> Slot]
      /\ entryCount'[i] = size[p] + 1 /\ \A j \in Inodes \ {i} : entryCount'[j] = entryCount[j]
  BY <1>1, <1>2, <1>4, <1>5 DEF TypeOK, Slot
<1>8. Units(i)' = Units(i)
  BY <1>1 DEF Units
<1>9. FileOK(i)'
  <2>1. \A s \in 1 .. entryCount[i] : records[i][s] \in Values
    BY <1>2 DEF FileOK
  <2>2. \A s \in 1 .. (size[p] + 1) : s \in 1 .. size[p] \/ s = size[p] + 1
    BY <1>2
  <2>3. \A s \in 1 .. (size[p] + 1) : records[i][s] \in Values
    BY <1>5, <2>1, <2>2
  <2>4. records[i] # <<>>
    BY <1>2, <1>6
  <2> QED
    BY <1>1, <1>4, <1>6, <1>7, <1>8, <2>3, <2>4 DEF FileOK
<1>10. Files'
  BY <1>1, <1>2, <1>7, <1>9, FilesKept
<1>11. Where(p)'
  BY <1>1, <1>2, <1>3 DEF Where, Migrating, dirVars
<1>12. View(p)'
  BY <1>1, <1>3, <1>5, <1>6, <1>7, <1>8 DEF View, Mapped, Growing
<1>13. Copying(p)'
  <2> SUFFICES ASSUME Migrating(p) PROVE Copying(p)'
    BY <1>1, <1>3 DEF Copying, Migrating
  <2>1. i # path /\ entryCount'[path] = entryCount[path] /\ path' = path
    BY <1>1, <1>2, <1>7 DEF dirVars
  <2>2. /\ \A s \in 1 .. size[p] : records[i][s] = records[path][s]
        /\ size[p] < entryCount[path] /\ item[p] = records[path][size[p] + 1] /\ entryCount[path] \in Nat
    BY <1>1, <1>2 DEF Copying, Mapped, Growing, TypeOK
  <2>3. size[p] + 1 <= entryCount[path]
    BY <1>2, <2>2
  <2>4. \A s \in 1 .. (size[p] + 1) : s \in 1 .. size[p] \/ s = size[p] + 1
    BY <1>2
  <2>5. \A s \in 1 .. (size[p] + 1) : records[i][s] = records[path][s]
    BY <1>5, <2>2, <2>4
  <2>6. pc'[p] \notin Growing
    BY <1>3 DEF Growing
  <2> QED
    BY <1>1, <1>3, <2>1, <2>3, <2>5, <2>6 DEF Copying
<1> QED
  BY <1>1, <1>2, <1>3, <1>7, <1>10, <1>11, <1>12, <1>13, WorkKeeps DEF TypeOK, Places, Waiting

LEMMA PopBackKeeps ==
  ASSUME Assumptions, IInv, NEW p \in Processes, PopBack(p) PROVE IInv'
<1> DEFINE i == fd[p]
<1>1. /\ pc[p] = "open" /\ pc[p] \notin Waiting /\ size' = [size EXCEPT ![p] = size[p] - 1] /\ size[p] > 0
      /\ entryCount' = [entryCount EXCEPT ![i] = entryCount[i] - 1]
      /\ UNCHANGED <<header, records, dirVars, lock, pc, fd, original, mapUnits, item>>
  BY DEF PopBack, PopCount, NotEmpty, Waiting
<1>2. /\ TypeOK /\ Where(p) /\ View(p) /\ i \in Inodes /\ path \in Inodes
      /\ size[p] \in Nat /\ mapUnits[p] \in 0 .. MaxUnits /\ FileOK(i)
  BY <1>1, Worker
<1>3. Works(p, "open") /\ pc'[p] = "open" /\ size'[p] = size[p] - 1
  BY <1>1, <1>2 DEF Works, OnlyProcess, Goto, TypeOK
<1>4. /\ records[i] \in Seq(Slot) /\ entryCount[i] \in Nat /\ entryCount[i] <= Len(records[i])
      /\ header[i] = "new" /\ size[p] = entryCount[i] /\ mapUnits[p] <= Units(i)
      /\ size[p] <= mapUnits[p] * UnitRecords /\ original[p] = None
  BY <1>1, <1>2 DEF FileOK, TypeOK, View, Mapped, Where
<1>5. /\ size[p] - 1 \in Nat /\ size[p] - 1 <= Len(records[i]) /\ size[p] - 1 <= mapUnits[p] * UnitRecords
  <2>1. mapUnits[p] * UnitRecords \in Nat
    BY <1>2, Times
  <2> QED
    BY <1>1, <1>2, <1>4, <2>1
<1>6. /\ entryCount' \in [Inodes -> Nat] /\ size' \in [Processes -> Nat]
      /\ entryCount'[i] = size[p] - 1 /\ \A j \in Inodes \ {i} : entryCount'[j] = entryCount[j]
  BY <1>1, <1>2, <1>4, <1>5 DEF TypeOK
<1>7. Units(i)' = Units(i)
  BY <1>1 DEF Units
<1>8. FileOK(i)'
  <2>1. \A s \in 1 .. (size[p] - 1) : s \in 1 .. entryCount[i]
    BY <1>2, <1>4
  <2>2. \A s \in 1 .. (size[p] - 1) : records[i][s] \in Values
    BY <1>2, <2>1 DEF FileOK
  <2>3. Units(i) \in 0 .. MaxUnits /\ Len(records[i]) = Units(i) * UnitRecords /\ records[i] # <<>>
    BY <1>2, <1>4 DEF FileOK
  <2> QED
    BY <1>1, <1>5, <1>6, <1>7, <2>2, <2>3 DEF FileOK
<1>9. Files'
  BY <1>1, <1>2, <1>6, <1>8, FilesKept
<1>10. Where(p)'
  BY <1>1, <1>2, <1>3 DEF Where, Migrating, dirVars
<1>11. View(p)'
  BY <1>1, <1>3, <1>4, <1>5, <1>6, <1>7 DEF View, Mapped, Growing
<1>12. Copying(p)'
  BY <1>1, <1>4 DEF Copying, Migrating
<1> QED
  BY <1>1, <1>2, <1>3, <1>6, <1>9, <1>10, <1>11, <1>12, WorkKeeps DEF TypeOK, Places, Waiting

-----------------------------------------------------------------------------
(* Migration *)

\* The new file is one that nobody uses, and the one that was at the path is kept.
LEMMA MigrateCreateKeeps ==
  ASSUME Assumptions, IInv, NEW p \in Processes, MigrateCreate(p) PROVE IInv'
<1>1. /\ pc[p] = "migrate" /\ pc[p] \notin Waiting /\ Goto(p, "lockNew")
      /\ UNCHANGED <<path, lock, size, mapUnits, item>>
  BY DEF MigrateCreate, Waiting
<1>2. PICK i \in Opened(tmpPath) : /\ tmpPath' = i /\ Truncate(i) /\ fd' = [fd EXCEPT ![p] = i]
                                   /\ original' = [original EXCEPT ![p] = fd[p]]
  BY DEF MigrateCreate
<1>3. TypeOK /\ Where(p) /\ View(p) /\ path \in Inodes /\ Directory /\ Locks
  BY <1>1, Worker DEF IInv
<1>4. /\ fd[p] = path /\ header[path] = "old" /\ original[p] = None /\ size[p] = 0 /\ mapUnits[p] = 0
      /\ lock[path] = p
  BY <1>1, <1>3 DEF Where, View, Migrating, Mapped, Growing, Locks, Unlocked
<1>5. i \in Inodes /\ i # path
  BY <1>3 DEF Opened, InUse, TypeOK, Directory, Assumptions
<1>6. pc'[p] = "lockNew" /\ fd'[p] = i /\ original'[p] = path /\ OnlyProcess(p)
  BY <1>1, <1>2, <1>3, <1>4 DEF Goto, TypeOK, OnlyProcess
<1>7. /\ header' \in [Inodes -> {"none", "old", "new"}] /\ entryCount' \in [Inodes -> Nat]
      /\ records' \in [Inodes -> Seq(Slot)] /\ records'[i] = <<>> /\ header'[path] = "old" /\ Files'
  BY <1>2, <1>3, <1>4, <1>5, Truncated
<1>8. TypeOK'
  <2>1. /\ fd' \in [Processes -> Inodes \union {None}] /\ original' \in [Processes -> Inodes \union {None}]
        /\ tmpPath' \in Inodes \union {None}
    BY <1>2, <1>3, <1>4, <1>5 DEF TypeOK
  <2>2. pc' \in [Processes -> Places]
    BY <1>1, <1>3 DEF TypeOK, Goto, Places
  <2> QED
    BY <1>1, <1>3, <1>7, <2>1, <2>2 DEF TypeOK, Places
<1>9. Directory'
  BY <1>1, <1>2, <1>4, <1>5, <1>6, DirectoryKept
<1>10. Locks'
  <2>1. ASSUME NEW j \in Inodes, lock'[j] # None PROVE j \in {fd'[lock'[j]], original'[lock'[j]]}
    <3>1. lock[j] \in Processes /\ j \in {fd[lock[j]], original[lock[j]]}
      BY <1>1, <1>3, <2>1 DEF Locks, TypeOK
    <3>2. CASE lock[j] = p
      <4>1. j = path
        BY <1>4, <3>1, <3>2 DEF Assumptions
      <4> QED
        BY <1>1, <1>6, <3>2, <4>1
    <3>3. CASE lock[j] # p
      BY <1>1, <1>6, <3>1, <3>3 DEF OnlyProcess
    <3> QED
      BY <3>2, <3>3
  <2>2. ASSUME NEW q \in Processes, pc'[q] \notin Unlocked PROVE lock'[fd'[q]] = q
    BY <1>1, <1>3, <1>6, <2>2 DEF Locks, OnlyProcess, Unlocked
  <2>3. ASSUME NEW q \in Processes, original'[q] # None PROVE lock'[original'[q]] = q
    BY <1>1, <1>3, <1>4, <1>6, <2>3 DEF Locks, OnlyProcess
  <2> QED
    BY <2>1, <2>2, <2>3 DEF Locks
<1>11. Where(p)'
  <2>1. path # None
    BY <1>3 DEF Assumptions
  <2> QED
    BY <1>1, <1>2, <1>3, <1>5, <1>6, <1>7, <2>1 DEF Where, Migrating
<1>12. View(p)' /\ Copying(p)'
  BY <1>1, <1>4, <1>6 DEF View, Copying, Mapped, Growing
<1>13. \A q \in Processes \ {p} : Where(q)' /\ View(q)' /\ Copying(q)'
  BY <1>1, <1>6, OthersKept
<1> QED
  BY <1>7, <1>8, <1>9, <1>10, <1>11, <1>12, <1>13, Preserved

LEMMA RenameKeeps ==
  ASSUME Assumptions, IInv, NEW p \in Processes, Rename(p) PROVE IInv'
<1>1. /\ pc[p] = "copy" /\ pc[p] \notin Waiting /\ path' = tmpPath /\ tmpPath' = None /\ Goto(p, "renamed")
      /\ UNCHANGED <<fileVars, lock, fd, original, size, mapUnits, item>>
  BY DEF Rename, Waiting
<1>2. /\ TypeOK /\ Where(p) /\ View(p) /\ path \in Inodes /\ fd[p] \in Inodes
  BY <1>1, Worker
<1>3. Migrating(p) /\ fd[p] = tmpPath /\ header[path] = "old"
  BY <1>1, <1>2 DEF Where, Migrating
<1>4. pc'[p] = "renamed" /\ OnlyProcess(p) /\ pc' \in [Processes -> Places]
  BY <1>1, <1>2 DEF Goto, TypeOK, OnlyProcess, Places
<1>5. TypeOK'
  BY <1>1, <1>2, <1>4 DEF TypeOK, fileVars, Places
<1>6. Files' /\ header' = header /\ entryCount' = entryCount /\ records' = records
  BY <1>1, FilesSame DEF fileVars
<1>7. header[fd[p]] = "new"
  BY <1>1, <1>2 DEF View, Mapped
<1>8. Directory'
  BY <1>1, <1>2, <1>3, <1>6, <1>7 DEF Directory, Assumptions
<1>9. Locks'
  BY <1>1, <1>4, LocksKept DEF Unlocked
<1>10. Where(p)'
  BY <1>1, <1>2, <1>3, <1>4 DEF Where, Migrating
<1>11. View(p)'
  BY <1>1, <1>2, <1>4, <1>6 DEF View, Mapped, Growing, Units
<1>12. Copying(p)'
  BY <1>4 DEF Copying, Migrating
<1>13. \A q \in Processes \ {p} : Where(q)' /\ View(q)' /\ Copying(q)'
  BY <1>1, <1>3, <1>4, OthersKept
<1> QED
  BY <1>5, <1>6, <1>8, <1>9, <1>10, <1>11, <1>12, <1>13, Preserved

LEMMA CloseOriginalKeeps ==
  ASSUME Assumptions, IInv, NEW p \in Processes, CloseOriginal(p) PROVE IInv'
<1>1. /\ pc[p] = "renamed" /\ pc[p] \notin Waiting /\ lock' = [lock EXCEPT ![original[p]] = None]
      /\ original' = [original EXCEPT ![p] = None] /\ Goto(p, "open")
      /\ UNCHANGED <<fileVars, dirVars, fd, size, mapUnits, item>>
  BY DEF CloseOriginal, Waiting
<1>2. /\ TypeOK /\ Where(p) /\ View(p) /\ path \in Inodes /\ fd[p] \in Inodes /\ Locks /\ Directory
  BY <1>1, Worker DEF IInv
<1>3. original[p] \in Inodes /\ original[p] # fd[p] /\ lock[original[p]] = p /\ fd[p] = path
  BY <1>1, <1>2 DEF Where, Locks, Migrating
<1>4. /\ pc'[p] = "open" /\ original'[p] = None /\ OnlyProcess(p) /\ pc' \in [Processes -> Places]
  BY <1>1, <1>2 DEF Goto, TypeOK, OnlyProcess, Places
<1>5. TypeOK'
  <2>1. lock' \in [Inodes -> Processes \union {None}] /\ original' \in [Processes -> Inodes \union {None}]
    BY <1>1, <1>2 DEF TypeOK
  <2> QED
    BY <1>1, <1>2, <1>4, <2>1 DEF TypeOK, fileVars, dirVars, Places
<1>6. Files' /\ header' = header /\ entryCount' = entryCount /\ records' = records /\ path' = path /\ tmpPath' = tmpPath
  BY <1>1, FilesSame DEF fileVars, dirVars
<1>7. Directory'
  <2>1. path' # tmpPath'
    BY <1>1, <1>2, <1>6 DEF Directory, Assumptions
  <2> QED
    BY <1>1, <1>4, <1>6, <2>1, DirectoryKept
<1>8. Locks'
  <2>1. ASSUME NEW j \in Inodes, lock'[j] # None PROVE j \in {fd'[lock'[j]], original'[lock'[j]]}
    <3>1. j # original[p] /\ lock'[j] = lock[j]
      BY <1>1, <1>2, <1>3, <2>1 DEF TypeOK
    <3>2. lock[j] \in Processes /\ j \in {fd[lock[j]], original[lock[j]]}
      BY <1>2, <2>1, <3>1 DEF Locks, TypeOK
    <3>3. CASE lock[j] = p
      BY <1>1, <3>1, <3>2, <3>3
    <3>4. CASE lock[j] # p
      BY <1>4, <3>1, <3>2, <3>4 DEF OnlyProcess
    <3> QED
      BY <3>3, <3>4
  <2>2. ASSUME NEW q \in Processes, pc'[q] \notin Unlocked PROVE lock'[fd'[q]] = q
    <3>1. pc[q] \notin Unlocked
      BY <1>1, <1>4, <2>2 DEF OnlyProcess, Unlocked
    <3>2. lock[fd[q]] = q /\ fd[q] \in Inodes /\ fd'[q] = fd[q]
      BY <1>1, <1>2, <3>1 DEF Locks, IInv, Where, Unlocked
    <3>3. fd[q] # original[p]
      BY <1>3, <3>2
    <3> QED
      BY <1>1, <1>2, <3>2, <3>3 DEF TypeOK
  <2>3. ASSUME NEW q \in Processes, original'[q] # None PROVE lock'[original'[q]] = q
    <3>1. q # p /\ original'[q] = original[q]
      BY <1>4, <2>3 DEF OnlyProcess
    <3>2. lock[original[q]] = q /\ original[q] \in Inodes
      BY <1>2, <2>3, <3>1 DEF Locks, IInv, Where
    <3> QED
      BY <1>1, <1>2, <1>3, <3>1, <3>2 DEF TypeOK
  <2> QED
    BY <2>1, <2>2, <2>3 DEF Locks
<1>9. Where(p)'
  BY <1>1, <1>2, <1>3, <1>4, <1>6 DEF Where, Migrating
<1>10. View(p)'
  BY <1>1, <1>2, <1>4, <1>6 DEF View, Mapped, Growing, Units
<1>11. Copying(p)'
  BY <1>4 DEF Copying, Migrating
<1>12. \A q \in Processes \ {p} : Where(q)' /\ View(q)' /\ Copying(q)'
  BY <1>1, <1>4, <1>6, OthersKept
<1> QED
  BY <1>5, <1>6, <1>7, <1>8, <1>9, <1>10, <1>11, <1>12, Preserved

-----------------------------------------------------------------------------
(* The invariant holds *)

LEMMA EmptyFile ==
  ASSUME Assumptions, NEW i \in Inodes, records[i] = <<>>, entryCount[i] = 0, header[i] = "none"
  PROVE  FileOK(i)
<1>1. 0 * UnitRecords = 0 /\ 0 \div UnitRecords = 0 /\ 0 \in 0 .. MaxUnits
  BY TimesDiv DEF Assumptions
<1>2. Len(records[i]) = 0
  OBVIOUS
<1> QED
  BY <1>1, <1>2 DEF FileOK, Units

LEMMA InitHolds ==
  ASSUME Assumptions, Init PROVE IInv
<1>1. /\ tmpPath = None /\ lock = [i \in Inodes |-> None] /\ pc = [p \in Processes |-> "down"]
      /\ fd = [p \in Processes |-> None] /\ original = [p \in Processes |-> None]
      /\ size = [p \in Processes |-> 0] /\ mapUnits = [p \in Processes |-> 0]
      /\ item = [p \in Processes |-> None]
  BY DEF Init
<1>2. /\ path \in Inodes \union {None} /\ header \in [Inodes -> {"none", "old", "new"}]
      /\ entryCount \in [Inodes -> Nat] /\ records \in [Inodes -> Seq(Slot)] /\ Files
  <2>1. CASE /\ path = None /\ header = [i \in Inodes |-> "none"]
             /\ entryCount = [i \in Inodes |-> 0] /\ records = [i \in Inodes |-> <<>>]
    <3>1. <<>> \in Seq(Slot)
      OBVIOUS
    <3>2. Files
      BY <2>1, EmptyFile DEF Files
    <3> QED
      BY <2>1, <3>1, <3>2
  <2>2. ASSUME NEW version \in {"old", "new"}, NEW units \in 1 .. MaxUnits,
               NEW n \in 0 .. (units * UnitRecords), NEW contents \in [1 .. n -> Values],
               path \in Inodes,
               header = [i \in Inodes |-> IF i = path THEN version ELSE "none"],
               entryCount = [i \in Inodes |-> IF i = path THEN n ELSE 0],
               records = [i \in Inodes |-> IF i # path THEN <<>>
                            ELSE [s \in 1 .. (units * UnitRecords) |-> IF s <= n THEN contents[s] ELSE None]]
        PROVE  /\ path \in Inodes \union {None} /\ header \in [Inodes -> {"none", "old", "new"}]
               /\ entryCount \in [Inodes -> Nat] /\ records \in [Inodes -> Seq(Slot)] /\ Files
    <3> DEFINE len == units * UnitRecords
               file == [s \in 1 .. len |-> IF s <= n THEN contents[s] ELSE None]
    <3>1. units \in Nat /\ len \in Nat /\ len # 0 /\ len \div UnitRecords = units /\ units \in 0 .. MaxUnits
      BY <2>2, TimesDiv DEF Assumptions
    <3>2. n \in Nat /\ n <= len
      BY <3>1, <2>2
    <3>3. records = [i \in Inodes |-> IF i # path THEN <<>> ELSE file]
      BY <2>2
    <3> HIDE DEF len
    <3>4. \A s \in 1 .. len : (IF s <= n THEN contents[s] ELSE None) \in Slot
      BY <2>2, <3>1, <3>2 DEF Slot
    <3>5. file \in Seq(Slot) /\ Len(file) = len /\ \A s \in 1 .. n : file[s] = contents[s] /\ contents[s] \in Values
      BY <2>2, <3>1, <3>2, <3>4
    <3> HIDE DEF file
    <3>6. records \in [Inodes -> Seq(Slot)] /\ records[path] = file
      <4>1. path \in Inodes /\ <<>> \in Seq(Slot)
        BY <2>2
      <4> QED
        BY <3>3, <3>5, <4>1
    <3>7. FileOK(path)
      <4>1. Units(path) = units
        BY <3>1, <3>5, <3>6 DEF Units
      <4>2. entryCount[path] = n
        BY <2>2
      <4>3. file # <<>>
        BY <3>1, <3>5
      <4>4. Len(records[path]) = Units(path) * UnitRecords
        BY <3>5, <3>6, <4>1 DEF len
      <4> QED
        BY <3>1, <3>2, <3>5, <3>6, <4>1, <4>2, <4>3, <4>4 DEF FileOK
    <3>8. Files
      BY <2>2, <3>7, EmptyFile DEF Files
    <3> QED
      BY <2>2, <3>2, <3>6, <3>8
  <2> QED
    BY <2>1, <2>2 DEF Init
<1>3. TypeOK
  BY <1>1, <1>2 DEF TypeOK, Slot, Assumptions
<1>4. Directory
  BY <1>1, <1>2 DEF Directory, Assumptions
<1>5. Locks
  BY <1>1 DEF Locks, Unlocked
<1>6. ASSUME NEW p \in Processes PROVE Where(p) /\ View(p) /\ Copying(p)
  BY <1>1 DEF Where, View, Copying, Migrating, Mapped, Growing
<1> QED
  BY <1>2, <1>3, <1>4, <1>5, <1>6 DEF IInv

LEMMA NextKeeps ==
  ASSUME Assumptions, IInv, [Next]_vars PROVE IInv'
<1>1. ASSUME NEW p \in Processes, Step(p) PROVE IInv'
  BY <1>1, StopKeeps, OpenKeeps, CreateOrOverwriteKeeps, TryLockKeeps, LoadKeeps, InitExtendKeeps,
     InitHeaderKeeps, EmplaceBackKeeps, CopyRecordKeeps, RemapKeeps, EmplaceThrowsKeeps, GrowFileKeeps,
     ConstructRecordKeeps, CountRecordKeeps, PopBackKeeps, MigrateCreateKeeps, RenameKeeps,
     CloseOriginalKeeps DEF Step
<1>2. CASE UNCHANGED vars
  <2>1. /\ header' = header /\ entryCount' = entryCount /\ records' = records /\ path' = path /\ tmpPath' = tmpPath
        /\ lock' = lock /\ pc' = pc /\ fd' = fd /\ original' = original /\ size' = size
        /\ mapUnits' = mapUnits /\ item' = item
    BY <1>2 DEF vars, fileVars, dirVars, procVars
  <2>2. TypeOK' /\ Files' /\ Directory' /\ Locks'
    <3>1. TypeOK'
      BY <2>1 DEF IInv, TypeOK
    <3>2. Files'
      BY <2>1, FilesSame DEF fileVars
    <3>3. Directory' /\ Locks'
      BY <2>1 DEF IInv, Directory, Alone, Locks
    <3> QED
      BY <3>1, <3>2, <3>3
  <2>3. ASSUME NEW p \in Processes PROVE Where(p)' /\ View(p)' /\ Copying(p)'
    <3>1. Where(p) /\ View(p) /\ Copying(p)
      BY DEF IInv
    <3>2. Where(p)'
      BY <2>1, <3>1 DEF Where, Migrating, Zeros
    <3>3. View(p)' /\ Copying(p)'
      BY <2>1, <3>1 DEF View, Units, HasRoom, Copying, Migrating
    <3> QED
      BY <3>2, <3>3
  <2> QED
    BY <2>2, <2>3 DEF IInv
<1> QED
  BY <1>1, <1>2 DEF Next

LEMMA InvHolds ==
  ASSUME Assumptions PROVE Spec => []IInv
BY InitHolds, NextKeeps, PTL DEF Spec

\* MappedDiskVector.h:316-372, 440-560: however processes open, grow, migrate, fail and die, a
\* mapping lies within its file, and an open vector is the file at the path.
THEOREM MemoryMatchesFile ==
  ASSUME Assumptions PROVE Spec => []FileSound
<1>1. IInv => FileSound
  <2> SUFFICES ASSUME IInv PROVE FileSound
    OBVIOUS
  <2>1. ASSUME NEW p \in Processes, fd[p] # None
        PROVE  mapUnits[p] <= Units(fd[p]) /\ (pc[p] \in {"construct", "count"} => HasRoom(p))
    <3>1. fd[p] \in Inodes /\ FileOK(fd[p]) /\ View(p)
      BY <2>1 DEF IInv, TypeOK, Files
    <3>2. Units(fd[p]) \in Nat
      BY <3>1 DEF FileOK
    <3> QED
      BY <3>1, <3>2 DEF View
  <2>2. ASSUME NEW p \in Processes, pc[p] = "open"
        PROVE  fd[p] = path /\ lock[path] = p /\ header[path] = "new" /\ size[p] = entryCount[path]
    <3>1. pc[p] \notin Waiting /\ pc[p] \notin Unlocked /\ pc[p] \in Mapped
      BY <2>2 DEF Waiting, Unlocked, Mapped
    <3>2. original[p] = None
      BY <2>2 DEF IInv, Where
    <3>3. fd[p] = path
      BY <3>1, <3>2, Worker DEF Migrating
    <3> QED
      BY <3>1, <3>3 DEF IInv, Locks, View
  <2> QED
    BY <2>1, <2>2 DEF FileSound, MappingWithinFile, ViewIsFile, IInv
<1> QED
  BY <1>1, InvHolds, PTL

-----------------------------------------------------------------------------
(* Refinement: what is at the path is a persistent vector *)

\* A prefix depends on its elements only.
LEMMA PrefixSame ==
  ASSUME NEW S, NEW a \in Seq(S), NEW b \in Seq(S), NEW n \in Nat, n <= Len(a), n <= Len(b),
         \A s \in 1 .. n : a[s] = b[s]
  PROVE  SubSeq(a, 1, n) = SubSeq(b, 1, n)
OBVIOUS

LEMMA PrefixAppend ==
  ASSUME NEW S, NEW a \in Seq(S), NEW n \in Nat, n < Len(a)
  PROVE  SubSeq(a, 1, n + 1) = Append(SubSeq(a, 1, n), a[n + 1])
OBVIOUS

LEMMA PrefixPop ==
  ASSUME NEW S, NEW a \in Seq(S), NEW n \in Nat, n <= Len(a), n > 0
  PROVE  /\ SubSeq(a, 1, n) # <<>> /\ Len(SubSeq(a, 1, n)) = n
         /\ SubSeq(a, 1, n - 1) = SubSeq(SubSeq(a, 1, n), 1, Len(SubSeq(a, 1, n)) - 1)
OBVIOUS

LEMMA PrefixEmpty ==
  ASSUME NEW S, NEW a \in Seq(S)
  PROVE  SubSeq(a, 1, 0) = <<>>
OBVIOUS

LEMMA PrefixType ==
  ASSUME NEW S, NEW T, NEW a \in Seq(S), NEW n \in Nat, n <= Len(a), \A s \in 1 .. n : a[s] \in T
  PROVE  SubSeq(a, 1, n) \in Seq(T)
OBVIOUS

\* A step of the abstract vector, by the operation that is one.
Changes(p) ==
  \/ pc[p] = "count" /\ original[p] = None
  \/ pc[p] = "open" /\ size'[p] < size[p] /\ pc'[p] = "open"
  \/ pc[p] = "down" /\ pc'[p] = "lockNew"

Refines == Contents' = Contents \/ (Abstract!Next /\ \E p \in Processes : Changes(p))

LEMMA FilesUntouched ==
  ASSUME UNCHANGED <<fileVars, path>> PROVE Refines
BY DEF Refines, Contents, fileVars

\* The file at the path keeps the records that it counts.
LEMMA PathUntouched ==
  ASSUME Assumptions, IInv, TypeOK', Files', path \in Inodes, path' = path, header'[path] = header[path],
         entryCount'[path] = entryCount[path],
         \A s \in 1 .. entryCount[path] : records'[path][s] = records[path][s]
  PROVE  Refines
<1> DEFINE n == entryCount[path]
<1>1. records[path] \in Seq(Slot) /\ records'[path] \in Seq(Slot) /\ n \in Nat
  BY DEF IInv, TypeOK
<1>2. n <= Len(records[path]) /\ n <= Len(records'[path])
  BY DEF IInv, Files, FileOK
<1>3. SubSeq(records'[path], 1, n) = SubSeq(records[path], 1, n)
  BY <1>1, <1>2, PrefixSame
<1> QED
  BY <1>3 DEF Refines, Contents

\* The file of the process is another one, or neither was nor is one to be read.
LEMMA OtherFile ==
  ASSUME Assumptions, IInv, IInv', NEW p \in Processes, pc[p] \notin Waiting, path' = path,
         \A j \in Inodes \ {fd[p]} : records'[j] = records[j] /\ entryCount'[j] = entryCount[j] /\ header'[j] = header[j],
         Migrating(p) \/ (header[fd[p]] = "none" /\ (header'[fd[p]] = "none" \/ entryCount'[fd[p]] = 0))
  PROVE  Refines
<1>1. path \in Inodes /\ (Migrating(p) => fd[p] # path) /\ (~Migrating(p) => fd[p] = path)
  BY Worker
<1>2. CASE Migrating(p)
  BY <1>1, <1>2, PathUntouched DEF IInv
<1>3. CASE ~Migrating(p)
  <2>1. Contents = <<>>
    BY <1>1, <1>3 DEF Contents
  <2>2. records'[path] \in Seq(Slot)
    BY <1>1 DEF IInv, TypeOK
  <2>3. SubSeq(records'[path], 1, 0) = <<>>
    BY <2>2, PrefixEmpty
  <2> QED
    BY <1>1, <1>3, <2>1, <2>3 DEF Contents, Refines
<1> QED
  BY <1>2, <1>3

LEMMA OpenRefines ==
  ASSUME Assumptions, IInv, NEW p \in Processes, Open(p) PROVE Refines
<1>1. CASE path = None
  <2>1. PICK i \in Inodes : path' = i /\ Truncate(i)
    BY <1>1 DEF Open, Opened
  <2>2. header'[i] = "none"
    BY <2>1, Truncated
  <2> QED
    BY <1>1, <2>1, <2>2 DEF Refines, Contents
<1>2. CASE path # None
  BY <1>2, FilesUntouched DEF Open, Opened
<1> QED
  BY <1>1, <1>2

LEMMA CreateOrOverwriteRefines ==
  ASSUME Assumptions, IInv, NEW p \in Processes, CreateOrOverwrite(p) PROVE Refines
<1>1. PICK i \in Inodes : path' = i /\ Truncate(i)
  BY DEF CreateOrOverwrite, Opened, IInv, TypeOK
<1>2. header'[i] = "none"
  BY <1>1, Truncated
<1>3. Contents' = <<>>
  BY <1>1, <1>2 DEF Contents
<1>4. pc[p] = "down" /\ pc'[p] = "lockNew"
  BY DEF CreateOrOverwrite, Goto, IInv, TypeOK
<1> QED
  BY <1>3, <1>4 DEF Refines, Changes, Abstract!Next, Abstract!Overwrite

LEMMA InitRefines ==
  ASSUME Assumptions, IInv, IInv', NEW p \in Processes, InitExtend(p) \/ InitHeader(p) PROVE Refines
<1>1. pc[p] \in {"extend", "header"} /\ pc[p] \notin Waiting /\ path' = path
  BY DEF InitExtend, InitHeader, Waiting, dirVars
<1>2. fd[p] \in Inodes /\ FileOK(fd[p]) /\ Where(p) /\ TypeOK
  BY <1>1, Worker
<1>3. header[fd[p]] = "none"
  BY <1>1, <1>2 DEF Where, FileOK
<1>4. header'[fd[p]] = "none" \/ entryCount'[fd[p]] = 0
  BY <1>2, <1>3 DEF InitExtend, InitHeader, TypeOK
<1>5. \A j \in Inodes \ {fd[p]} : records'[j] = records[j] /\ entryCount'[j] = entryCount[j] /\ header'[j] = header[j]
  BY <1>2 DEF InitExtend, InitHeader, TypeOK
<1> QED
  BY <1>1, <1>3, <1>4, <1>5, OtherFile

\* Growth and construction are beyond what the file counts.
LEMMA BeyondEnd ==
  ASSUME Assumptions, IInv, IInv', NEW p \in Processes, GrowFile(p) \/ ConstructRecord(p) PROVE Refines
<1> DEFINE i == fd[p]
           old == records[i]
<1>1. /\ pc[p] \in {"grow", "construct"} /\ pc[p] \notin Waiting /\ UNCHANGED <<header, entryCount, path>>
  BY DEF GrowFile, ConstructRecord, Waiting, dirVars
<1>2. /\ TypeOK /\ View(p) /\ i \in Inodes /\ path \in Inodes /\ FileOK(i) /\ size[p] \in Nat
  BY <1>1, Worker
<1>3. \A j \in Inodes \ {i} : records'[j] = records[j]
  BY <1>2 DEF GrowFile, ConstructRecord, Construct, TypeOK
<1>4. /\ old \in Seq(Slot) /\ entryCount[i] \in Nat /\ entryCount[i] <= Len(old) /\ size[p] = entryCount[i]
      /\ Units(i) \in 0 .. MaxUnits
  BY <1>1, <1>2 DEF TypeOK, FileOK, View, Mapped, Growing
<1>5. \A s \in 1 .. entryCount[i] : s \in 1 .. Len(old) /\ s # size[p] + 1 /\ s \in DOMAIN old
  <2> HIDE DEF old, i
  <2> QED
    BY <1>4
<1>6. ASSUME NEW s \in 1 .. entryCount[i] PROVE records'[i][s] = old[s]
  <2>1. CASE GrowFile(p)
    <3> DEFINE m == NewUnits(p) - Units(i)
    <3>1. records'[i] = IF Units(i) < NewUnits(p) THEN old \o Zeros(m) ELSE old
      BY <1>2, <2>1 DEF GrowFile, TypeOK
    <3>2. CASE Units(i) < NewUnits(p)
      <4>1. m \in Nat
        BY <1>2, <1>4, <3>2, Worker DEF NewUnits, TypeOK
      <4>2. Zeros(m) \in Seq(Slot)
        BY <4>1, ZerosLen
      <4> HIDE DEF m, old
      <4> QED
        BY <1>4, <1>5, <3>1, <3>2, <4>2
    <3> QED
      BY <3>1, <3>2
  <2>2. CASE ConstructRecord(p)
    BY <1>2, <1>5, <2>2 DEF ConstructRecord, Construct, TypeOK
  <2> QED
    BY <2>1, <2>2
<1>7. \A s \in 1 .. entryCount[path] : records'[path][s] = records[path][s]
  BY <1>2, <1>3, <1>6
<1> QED
  BY <1>1, <1>2, <1>7, PathUntouched DEF IInv

LEMMA CountRefines ==
  ASSUME Assumptions, IInv, IInv', NEW p \in Processes, CountRecord(p) PROVE Refines
<1>1. /\ pc[p] = "count" /\ pc[p] \notin Waiting /\ UNCHANGED <<header, records, path, fd>>
      /\ entryCount' = [entryCount EXCEPT ![fd[p]] = entryCount[fd[p]] + 1]
  BY DEF CountRecord, Waiting, dirVars
<1>2. /\ TypeOK /\ View(p) /\ fd[p] \in Inodes /\ path \in Inodes /\ FileOK(path)
      /\ (~Migrating(p) => fd[p] = path)
  BY <1>1, Worker
<1>3. CASE Migrating(p)
  BY <1>1, <1>2, <1>3, OtherFile DEF TypeOK
<1>4. CASE ~Migrating(p)
  <2> DEFINE n == entryCount[path]
             a == records[path]
  <2>1. original[p] = None /\ fd[p] = path
    BY <1>1, <1>2, <1>4 DEF Migrating
  <2>2. /\ a \in Seq(Slot) /\ n \in Nat /\ header[path] = "new" /\ item[p] \in Values /\ a[n + 1] = item[p]
        /\ entryCount'[path] = n + 1
    BY <1>1, <1>2, <2>1 DEF TypeOK, View, Mapped, Growing
  <2>3. n + 1 <= Len(a)
    BY <1>1, <1>2, <2>2 DEF IInv, Files, FileOK
  <2>4. SubSeq(a, 1, n + 1) = Append(SubSeq(a, 1, n), a[n + 1])
    <3> HIDE DEF n, a
    <3>1. n < Len(a)
      BY <2>2, <2>3
    <3> QED
      BY <2>2, <3>1, PrefixAppend
  <2>5. path # None
    BY <1>2 DEF Assumptions
  <2>6. Contents' = Append(Contents, item[p])
    BY <1>1, <2>2, <2>4, <2>5 DEF Contents
  <2> QED
    BY <1>1, <2>1, <2>2, <2>6 DEF Refines, Changes, Abstract!Next, Abstract!EmplaceBack
<1> QED
  BY <1>3, <1>4

LEMMA PopRefines ==
  ASSUME Assumptions, IInv, IInv', NEW p \in Processes, PopBack(p) PROVE Refines
<1> DEFINE n == entryCount[path]
           a == records[path]
<1>1. /\ pc[p] = "open" /\ pc[p] \notin Waiting /\ UNCHANGED <<header, records, path, fd, pc>>
      /\ entryCount' = [entryCount EXCEPT ![fd[p]] = entryCount[fd[p]] - 1]
      /\ size' = [size EXCEPT ![p] = size[p] - 1] /\ size[p] > 0
  BY DEF PopBack, PopCount, NotEmpty, Waiting, dirVars
<1>2. /\ TypeOK /\ View(p) /\ Where(p) /\ path \in Inodes /\ FileOK(path) /\ (~Migrating(p) => fd[p] = path)
      /\ size[p] \in Nat
  BY <1>1, Worker
<1>3. fd[p] = path
  BY <1>1, <1>2 DEF Where, Migrating
<1>4. /\ a \in Seq(Slot) /\ n \in Nat /\ header[path] = "new" /\ n = size[p] /\ n <= Len(a)
      /\ entryCount'[path] = n - 1 /\ path # None
  BY <1>1, <1>2, <1>3 DEF TypeOK, View, Mapped, FileOK, Assumptions
<1>5. size'[p] < size[p]
  BY <1>1, <1>2 DEF TypeOK
<1>6. /\ SubSeq(a, 1, n) # <<>>
      /\ SubSeq(a, 1, n - 1) = SubSeq(SubSeq(a, 1, n), 1, Len(SubSeq(a, 1, n)) - 1)
  <2> HIDE DEF n, a
  <2> QED
    BY <1>1, <1>4, PrefixPop
<1>7. Contents = SubSeq(a, 1, n) /\ Contents' = SubSeq(a, 1, n - 1)
  BY <1>1, <1>4 DEF Contents
<1> HIDE DEF n, a
<1>8. Abstract!PopBack
  BY <1>6, <1>7 DEF Abstract!PopBack
<1> QED
  BY <1>1, <1>5, <1>8 DEF Refines, Changes, Abstract!Next

LEMMA MigrateCreateRefines ==
  ASSUME Assumptions, IInv, IInv', NEW p \in Processes, MigrateCreate(p) PROVE Refines
<1>1. pc[p] = "migrate" /\ pc[p] \notin Waiting /\ path' = path
  BY DEF MigrateCreate, Waiting
<1>2. path \in Inodes /\ Directory /\ TypeOK
  BY <1>1, Worker DEF IInv
<1>3. PICK i \in Inodes : i # path /\ Truncate(i)
  BY <1>2 DEF MigrateCreate, Opened, InUse, Directory, TypeOK
<1>4. header'[path] = header[path] /\ entryCount'[path] = entryCount[path] /\ records'[path] = records[path]
  BY <1>2, <1>3, Truncated
<1> QED
  BY <1>1, <1>2, <1>4, PathUntouched DEF IInv

\* The new file has the records of the one it replaces.
LEMMA RenameRefines ==
  ASSUME Assumptions, IInv, IInv', NEW p \in Processes, Rename(p) PROVE Refines
<1> DEFINE n == entryCount[path]
           a == records[path]
           b == records[fd[p]]
<1>1. /\ pc[p] = "copy" /\ pc[p] \notin Waiting /\ path' = tmpPath /\ UNCHANGED <<header, entryCount, records>>
      /\ Copied(p)
  BY DEF Rename, Waiting, fileVars
<1>2. /\ TypeOK /\ View(p) /\ Where(p) /\ Copying(p) /\ path \in Inodes /\ fd[p] \in Inodes
      /\ FileOK(path) /\ FileOK(fd[p])
  BY <1>1, Worker
<1>3. Migrating(p) /\ original[p] = path /\ fd[p] = tmpPath /\ header[path] = "old"
  BY <1>1, <1>2 DEF Where, Migrating
<1>4. size[p] = n /\ entryCount[fd[p]] = n /\ header[fd[p]] = "new"
  BY <1>1, <1>2, <1>3 DEF Copied, View, Mapped
<1>5. a \in Seq(Slot) /\ b \in Seq(Slot) /\ n \in Nat /\ n <= Len(a) /\ n <= Len(b)
  BY <1>2, <1>4 DEF TypeOK, FileOK
<1>6. \A s \in 1 .. n : b[s] = a[s]
  BY <1>1, <1>2, <1>3, <1>4 DEF Copying, Mapped
<1>7. SubSeq(b, 1, n) = SubSeq(a, 1, n)
  <2> HIDE DEF a, b, n
  <2> QED
    BY <1>5, <1>6, PrefixSame
<1>8. path # None /\ tmpPath # None
  BY <1>2, <1>3 DEF Assumptions
<1> QED
  BY <1>1, <1>3, <1>4, <1>7, <1>8 DEF Refines, Contents

LEMMA OthersRefine ==
  ASSUME NEW p \in Processes,
         \/ TryLock(p) \/ TryLockFails(p) \/ Load(p) \/ CopyRecord(p) \/ (\E v \in Values : EmplaceBack(p, v))
         \/ Remap(p) \/ EmplaceThrows(p) \/ RenameFails(p) \/ CloseOriginal(p) \/ Stop(p)
  PROVE  Refines
<1>1. UNCHANGED <<fileVars, path>>
  BY DEF TryLock, TryLockFails, Load, CopyRecord, EmplaceBack, Emplace, Remap, EmplaceThrows, RenameFails,
         CloseOriginal, Stop, dirVars
<1> QED
  BY <1>1, FilesUntouched

LEMMA NextRefines ==
  ASSUME Assumptions, IInv, [Next]_vars PROVE Refines
<1>1. IInv'
  BY NextKeeps
<1>2. ASSUME NEW p \in Processes, Step(p) PROVE Refines
  BY <1>1, <1>2, OpenRefines, CreateOrOverwriteRefines, InitRefines, BeyondEnd, CountRefines, PopRefines,
     MigrateCreateRefines, RenameRefines, OthersRefine DEF Step
<1>3. CASE UNCHANGED vars
  BY <1>3, FilesUntouched DEF vars, dirVars
<1> QED
  BY <1>2, <1>3 DEF Next

LEMMA ContentsType ==
  ASSUME Assumptions, IInv PROVE Contents \in Seq(Values)
<1>1. CASE path # None /\ header[path] # "none"
  <2>1. path \in Inodes /\ FileOK(path) /\ records[path] \in Seq(Slot) /\ entryCount[path] \in Nat
    BY <1>1 DEF IInv, TypeOK, Files
  <2>2. entryCount[path] <= Len(records[path]) /\ \A s \in 1 .. entryCount[path] : records[path][s] \in Values
    BY <2>1 DEF FileOK
  <2> QED
    BY <1>1, <2>1, <2>2, PrefixType DEF Contents
<1>2. CASE path = None \/ header[path] = "none"
  BY <1>2 DEF Contents
<1> QED
  BY <1>1, <1>2

\* MappedDiskVector.h:136-420, 600-700: whatever step a process fails or dies at, what is at
\* the path is a vector that only whole emplace_back(), pop_back() and
\* createOrOverwrite() operations change; a migration does not.
THEOREM VectorSurvives ==
  ASSUME Assumptions PROVE Spec => VectorPersists
<1>1. IInv => Contents \in Seq(Values)
  BY ContentsType
<1>2. IInv /\ [Next]_vars => [Abstract!Next]_Contents
  BY NextRefines DEF Refines
<1>3. IInv /\ [Next]_vars => [Contents' # Contents => \E p \in Processes : Changes(p)]_vars
  BY NextRefines DEF Refines
<1>4. Init => Contents \in Seq(Values)
  BY <1>1, InitHolds
<1> QED
  BY <1>2, <1>3, <1>4, InvHolds, PTL
     DEF Spec, VectorPersists, ImplementsVector, ChangedOnlyByOperations, Changes, Abstract!Spec, Abstract!Init

-----------------------------------------------------------------------------
(* Numbers *)

\* Sets of natural numbers have a least element.
LEMMA Least ==
  ASSUME NEW S, S \subseteq Nat, S # {}
  PROVE  \E m \in S : \A x \in S : m <= x
<1>1. PICK m \in S : \A x \in S : ~(<<x, m>> \in OpToRel(<, Nat))
  BY NatLessThanWellFounded, WFMin
<1>2. \A x \in S : ~(x < m)
  BY <1>1 DEF OpToRel
<1> QED
  BY <1>2

-----------------------------------------------------------------------------
(* SpawnOptions *)

Descs == 0 .. MaxFd
Points(f, n) == \E t \in DOMAIN f : f[t] = n
Injection1(f) == \A t, u \in DOMAIN f : f[t] = f[u] => t = u

\* Every open number of a table has one owner: the parts of the parent in k, the source of a
\* target in d, the parent's end of a pipe in p, or an object on the stack, in x.
Owned(k, fds, d, p, x) ==
  /\ \A n \in Descs : fds[n] # 0 <=> (n \in k \/ Points(d, n) \/ Points(p, n) \/ n \in x)
  /\ \A n : Points(d, n) => n \in Descs /\ n \notin k /\ ~Points(p, n)
  /\ \A n : Points(p, n) => n \in Descs /\ n \notin k
  /\ \A n \in x : n \in Descs /\ n \notin k /\ ~Points(d, n) /\ ~Points(p, n)
  /\ Injection1(d) /\ Injection1(p)

\* No file is open twice, and later files have higher numbers than b.
Distinguished(fds, b) ==
  /\ fds \in [Descs -> Nat]
  /\ \A n \in Descs : fds[n] < b
  /\ \A n, m \in Descs : fds[n] = fds[m] /\ fds[n] # 0 => n = m

\* The file the caller wants is the one its source has.
Intended(i, d, fds) ==
  /\ DOMAIN d \subseteq Descs
  /\ i = [t \in DOMAIN d |-> fds[d[t]]]
  /\ d = [t \in DOMAIN d |-> d[t]]

Configured(k, fds, d, p, x, i, b) == Owned(k, fds, d, p, x) /\ Distinguished(fds, b) /\ Intended(i, d, fds)

LEMMA NumberOpened ==
  ASSUME NEW k, NEW fds, NEW d, NEW p, NEW x, NEW i, NEW b \in Nat, Configured(k, fds, d, p, x, i, b),
         NEW n \in Descs, fds[n] = 0, NEW v \in Nat, v >= b, v # 0, NEW c \in Nat, v < c,
         NEW y, y = x \cup {n}, NEW after, after = [fds EXCEPT ![n] = v]
  PROVE  Configured(k, after, d, p, y, i, c)
<1>1. /\ fds \in [Descs -> Nat] /\ after \in [Descs -> Nat] /\ after[n] = v
      /\ \A m \in Descs : m # n => after[m] = fds[m]
  BY DEF Configured, Distinguished
<1>2. ~(n \in k \/ Points(d, n) \/ Points(p, n) \/ n \in x)
  BY DEF Configured, Owned
<1>3. Owned(k, after, d, p, y)
  BY <1>1, <1>2 DEF Configured, Owned
<1>4. Distinguished(after, c)
  BY <1>1 DEF Configured, Distinguished
<1>5. \A t \in DOMAIN d : d[t] \in Descs /\ d[t] # n
  BY <1>2 DEF Configured, Owned, Points
<1>6. [t \in DOMAIN d |-> after[d[t]]] = [t \in DOMAIN d |-> fds[d[t]]]
  BY <1>1, <1>5
<1> QED
  BY <1>3, <1>4, <1>6 DEF Configured, Intended

LEMMA NumberClosed ==
  ASSUME NEW k, NEW fds, NEW d, NEW p, NEW x, NEW i, NEW b \in Nat, Configured(k, fds, d, p, x, i, b),
         NEW n \in x, b > 0, NEW y, y = x \ {n}, NEW after, after = [fds EXCEPT ![n] = 0]
  PROVE  Configured(k, after, d, p, y, i, b)
<1>1. n \in Descs /\ n \notin k /\ ~Points(d, n) /\ ~Points(p, n)
  BY DEF Configured, Owned
<1>2. /\ fds \in [Descs -> Nat] /\ after \in [Descs -> Nat] /\ after[n] = 0
      /\ \A m \in Descs : m # n => after[m] = fds[m]
  BY <1>1 DEF Configured, Distinguished
<1>3. Owned(k, after, d, p, y)
  BY <1>1, <1>2 DEF Configured, Owned
<1>4. Distinguished(after, b)
  BY <1>2 DEF Configured, Distinguished
<1>5. \A t \in DOMAIN d : d[t] \in Descs /\ d[t] # n
  BY <1>1 DEF Configured, Owned, Points
<1>6. [t \in DOMAIN d |-> after[d[t]]] = [t \in DOMAIN d |-> fds[d[t]]]
  BY <1>2, <1>5
<1> QED
  BY <1>3, <1>4, <1>6 DEF Configured, Intended

\* duplicate() and the end of the original.
LEMMA NumberMoved ==
  ASSUME NEW k, NEW fds, NEW d, NEW p, NEW x, NEW i, NEW b \in Nat, Configured(k, fds, d, p, x, i, b),
         NEW s \in x, NEW n \in Descs, fds[n] = 0, NEW y, y = (x \ {s}) \cup {n}, b > 0,
         NEW after, after = [fds EXCEPT ![n] = fds[s], ![s] = 0]
  PROVE  Configured(k, after, d, p, y, i, b)
<1>1. s \in Descs /\ s \notin k /\ ~Points(d, s) /\ ~Points(p, s) /\ fds[s] # 0 /\ s # n
  BY DEF Configured, Owned
<1>2. /\ fds \in [Descs -> Nat] /\ after \in [Descs -> Nat] /\ after[n] = fds[s] /\ after[s] = 0
      /\ \A m \in Descs : m # n /\ m # s => after[m] = fds[m]
  BY <1>1 DEF Configured, Distinguished
<1>3. ~(n \in k \/ Points(d, n) \/ Points(p, n) \/ n \in x)
  BY DEF Configured, Owned
<1>4. Owned(k, after, d, p, y)
  BY <1>1, <1>2, <1>3 DEF Configured, Owned
<1>5. Distinguished(after, b)
  <2>1. \A m \in Descs : after[m] < b
    BY <1>1, <1>2 DEF Configured, Distinguished
  <2>2. ASSUME NEW m \in Descs, NEW j \in Descs, after[m] = after[j], after[m] # 0 PROVE m = j
    BY <1>1, <1>2, <2>2 DEF Configured, Distinguished
  <2> QED
    BY <1>2, <2>1, <2>2 DEF Distinguished
<1>6. \A t \in DOMAIN d : d[t] \in Descs /\ d[t] # n /\ d[t] # s
  BY <1>1, <1>3 DEF Configured, Owned, Points
<1>7. [t \in DOMAIN d |-> after[d[t]]] = [t \in DOMAIN d |-> fds[d[t]]]
  BY <1>2, <1>6
<1> QED
  BY <1>4, <1>5, <1>7 DEF Configured, Intended

Added(f, w, v, g) ==
  /\ DOMAIN g = DOMAIN f \cup {w} /\ g[w] = v
  /\ \A t \in DOMAIN f : g[t] = f[t]
  /\ \A n : Points(g, n) <=> (Points(f, n) \/ n = v)
  /\ Injection1(f) /\ ~Points(f, v) => Injection1(g)

LEMMA WithAdds ==
  ASSUME NEW f, NEW w, w \notin DOMAIN f, NEW v, NEW g, g = Options!With(f, w, v)
  PROVE  Added(f, w, v, g)
<1>1. /\ DOMAIN g = DOMAIN f \cup {w} /\ g[w] = v
      /\ \A t \in DOMAIN f : g[t] = f[t]
  BY DEF Options!With
<1>2. \A n : Points(g, n) <=> (Points(f, n) \/ n = v)
  BY <1>1, Zenon DEF Points
<1>3. Injection1(f) /\ ~Points(f, v) => Injection1(g)
  BY <1>1 DEF Points, Injection1
<1> QED
  BY ONLY <1>1, <1>2, <1>3, Zenon DEF Added

LEMMA SourceTaken ==
  ASSUME NEW k, NEW fds, NEW d, NEW p, NEW x, NEW i, NEW b \in Nat, Configured(k, fds, d, p, x, i, b),
         NEW s \in x, NEW t \in Descs, t \notin DOMAIN d, NEW y, y = x \ {s},
         NEW e, e = Options!With(d, t, s), NEW j, j = Options!With(i, t, fds[s])
  PROVE  Configured(k, fds, e, p, y, j, b)
<1>0. Added(d, t, s, e)
  BY WithAdds
<1>1. /\ DOMAIN e = DOMAIN d \cup {t} /\ e[t] = s /\ (\A u \in DOMAIN d : e[u] = d[u])
      /\ \A n : Points(e, n) <=> (Points(d, n) \/ n = s)
  BY <1>0, Zenon DEF Added
<1>8. e = [u \in DOMAIN e |-> e[u]]
  BY DEF Options!With
<1>2. s \in Descs /\ s \notin k /\ ~Points(d, s) /\ ~Points(p, s) /\ fds[s] # 0
  BY DEF Configured, Owned
<1>3. Injection1(e)
  BY <1>0, <1>2 DEF Added, Configured, Owned
<1>4. Owned(k, fds, e, p, y)
  BY <1>1, <1>2, <1>3 DEF Configured, Owned
<1>5. DOMAIN i = DOMAIN d /\ \A u \in DOMAIN d : i[u] = fds[d[u]]
  BY DEF Configured, Intended
<1>6. j = [u \in DOMAIN e |-> fds[e[u]]]
  BY <1>1, <1>5 DEF Options!With
<1>7. Intended(j, e, fds)
  BY <1>1, <1>6, <1>8 DEF Configured, Intended
<1> QED
  BY <1>4, <1>7 DEF Configured

LEMMA EndTaken ==
  ASSUME NEW k, NEW fds, NEW d, NEW p, NEW x, NEW i, NEW b \in Nat, Configured(k, fds, d, p, x, i, b),
         NEW s \in x, NEW t, t \notin DOMAIN p, NEW y, y = x \ {s}, NEW q, q = Options!With(p, t, s)
  PROVE  Configured(k, fds, d, q, y, i, b)
<1>0. Added(p, t, s, q)
  BY WithAdds
<1>1. \A n : Points(q, n) <=> (Points(p, n) \/ n = s)
  BY <1>0, Zenon DEF Added
<1>2. s \in Descs /\ s \notin k /\ ~Points(d, s) /\ ~Points(p, s) /\ fds[s] # 0
  BY DEF Configured, Owned
<1>3. Injection1(q)
  BY <1>0, <1>2 DEF Added, Configured, Owned
<1>4. Owned(k, fds, d, q, y)
  BY <1>1, <1>2, <1>3 DEF Configured, Owned
<1> QED
  BY <1>4 DEF Configured

\* Only t has become a target, and only s a source.
NewTarget(t) == \A u \in DOMAIN descriptors' : u \in DOMAIN descriptors \/ u = t
NewSource(s) == \A n : Points(descriptors', n) => Points(descriptors, n) \/ n = s

\* emplace() gives the source to the map, or to nobody.
LEMMA Emplaced ==
  ASSUME NEW k, NEW fds, NEW p, NEW b \in Nat, b > 0, NEW s, NEW t \in Descs,
         Configured(k, fds, descriptors, p, {s}, intended, b), Options!EmplaceDescriptor(fds, s, t)
  PROVE  /\ Configured(k, parentFds', descriptors', p, {}, intended', b)
         /\ NewTarget(t) /\ NewSource(s)
<1>1. {} = {s} \ {s} /\ s \in {s}
  OBVIOUS
<1>2. CASE t \in DOMAIN descriptors
  <2>1. parentFds' = [fds EXCEPT ![s] = 0] /\ descriptors' = descriptors /\ intended' = intended
    BY <1>2 DEF Options!EmplaceDescriptor, Options!Closed
  <2>2. Configured(k, parentFds', descriptors, p, {}, intended, b)
    BY <1>1, <2>1, NumberClosed
  <2> QED
    BY <2>1, <2>2 DEF NewTarget, NewSource
<1>3. CASE t \notin DOMAIN descriptors
  <2>1. /\ parentFds' = fds /\ descriptors' = Options!With(descriptors, t, s)
        /\ intended' = Options!With(intended, t, fds[s])
    BY <1>3 DEF Options!EmplaceDescriptor
  <2>2. Configured(k, fds, descriptors', p, {}, intended', b)
    BY <1>1, <1>3, <2>1, SourceTaken
  <2>3. /\ DOMAIN descriptors' = DOMAIN descriptors \cup {t}
        /\ \A n : Points(descriptors', n) <=> (Points(descriptors, n) \/ n = s)
    <3>1. Added(descriptors, t, s, descriptors')
      BY <1>3, <2>1, WithAdds
    <3> QED
      BY <3>1, Zenon DEF Added
  <2> QED
    BY <2>1, <2>2, <2>3 DEF NewTarget, NewSource
<1> QED
  BY <1>2, <1>3

LEMMA Dupped ==
  ASSUME NEW k, NEW fds, NEW p, NEW b \in Nat, b > 0, NEW s, NEW t \in Descs,
         Configured(k, fds, descriptors, p, {s}, intended, b), Options!Dup2(fds, s, t)
  PROVE  /\ Configured(k, parentFds', descriptors', p, {}, intended', b)
         /\ NewTarget(t)
<1>1. CASE s = t
  <2>1. PICK copy \in Options!Lowest(Options!Free(fds)) :
          Options!EmplaceDescriptor([fds EXCEPT ![copy] = fds[s], ![s] = 0], copy, t)
    BY <1>1 DEF Options!Dup2
  <2>2. copy \in Descs /\ fds[copy] = 0
    BY DEF Options!Lowest, Options!Free, Options!Numbers, Descs
  <2>3. PICK after : after = [fds EXCEPT ![copy] = fds[s], ![s] = 0]
    OBVIOUS
  <2>4. {copy} = ({s} \ {s}) \cup {copy} /\ s \in {s}
    OBVIOUS
  <2>5. Configured(k, after, descriptors, p, {copy}, intended, b)
    <3>1. Configured(k, fds, descriptors, p, {s}, intended, b) /\ b > 0 /\ b \in Nat
      OBVIOUS
    <3>2. PICK x, y, d, i : x = {s} /\ y = {copy} /\ d = descriptors /\ i = intended
      OBVIOUS
    <3>3. Configured(k, fds, d, p, x, i, b) /\ s \in x /\ y = (x \ {s}) \cup {copy}
      BY ONLY <2>4, <3>1, <3>2
    <3>4. Configured(k, after, d, p, y, i, b)
      BY ONLY <2>2, <2>3, <3>1, <3>3, NumberMoved
    <3> QED
      BY ONLY <3>2, <3>4
  <2>6. Options!EmplaceDescriptor(after, copy, t)
    BY <2>1, <2>3
  <2> QED
    BY <2>5, <2>6, Emplaced
<1>2. CASE s # t
  <2>1. Options!EmplaceDescriptor(fds, s, t)
    BY <1>2 DEF Options!Dup2
  <2> QED
    BY <2>1, Emplaced
<1> QED
  BY <1>1, <1>2

Going == phase \in {"options", "spawning"}
Unowned == Options!Stdio \cup others
NextFile == MaxFd + 2 * (spawnCalls + 1)

\* Before and after the child is made, every open number has its owner.
SpawnTable ==
  /\ spawnCalls \in Nat /\ others \subseteq Descs
  /\ phase \in {"options", "spawning", "spawned", "failed"}
  /\ ~Going => descriptors = Options!Nowhere
  /\ Configured(Unowned, parentFds, descriptors, optionPipes, {},
                IF Going THEN intended ELSE Options!Nowhere, NextFile)

\* No source is a target, as long as the options come in the order the code provides for.
SpawnOrder ==
  Going /\ ~lateOption /\ ~freeTarget =>
    \A t \in DOMAIN descriptors : ~Points(descriptors, t) /\ (t \in Options!Stdio \/ t >= Options!FirstTarget)

\* While the dup2() actions are done, the child has the files of the parent except at the targets,
\* and what it has at a source or at a target that was dealt with is the file of a source.
Given(d, fds, x) == \E u \in DOMAIN d : x = fds[d[u]]
Dups(child, d, fds, left) ==
  /\ child \in [Descs -> Nat] /\ left \subseteq DOMAIN d
  /\ \A n \in Descs : n \notin DOMAIN d => child[n] = fds[n]
  /\ \A t \in DOMAIN d : Given(d, fds, child[d[t]])
  /\ \A t \in DOMAIN d : t \notin left => Given(d, fds, child[t])
Delivering(child, d, fds, left) == \A t \in DOMAIN d : t \notin left => child[t] = fds[d[t]]
ChildTable ==
  phase = "spawning" =>
    /\ Dups(childFds, descriptors, parentFds, pending)
    /\ ~lateOption /\ ~freeTarget => Delivering(childFds, descriptors, parentFds, pending)

ChildSound ==
  phase = "spawned" =>
    /\ ~lateOption /\ ~freeTarget => Options!Delivered
    /\ \A t \in DOMAIN optionPipes : parentFds[optionPipes[t]] \notin Options!Range(childFds)

SpawnInv == SpawnTable /\ SpawnOrder /\ ChildTable /\ ChildSound

\* What holds of one owner set holds when the sources are closed.
LEMMA SourcesClosed ==
  ASSUME NEW k, NEW fds, NEW d, NEW p, NEW i, NEW b \in Nat, b > 0, Configured(k, fds, d, p, {}, i, b),
         NEW after, after = [n \in Descs |-> IF Points(d, n) THEN 0 ELSE fds[n]]
  PROVE  Configured(k, after, Options!Nowhere, p, {}, Options!Nowhere, b)
<1>1. DOMAIN Options!Nowhere = {} /\ \A n : ~Points(Options!Nowhere, n)
  BY DEF Options!Nowhere, Points
<1>2. fds \in [Descs -> Nat] /\ after \in [Descs -> Nat]
  BY DEF Configured, Distinguished
<1>3. Owned(k, after, Options!Nowhere, p, {})
  BY <1>1, <1>2 DEF Configured, Owned, Injection1
<1>4. Distinguished(after, b)
  BY <1>2 DEF Configured, Distinguished
<1>5. Intended(Options!Nowhere, Options!Nowhere, after)
  BY <1>1 DEF Intended, Options!Nowhere
<1> QED
  BY <1>3, <1>4, <1>5 DEF Configured

LEMMA EndClosed ==
  ASSUME NEW k, NEW fds, NEW d, NEW p, NEW i, NEW b \in Nat, b > 0, Configured(k, fds, d, p, {}, i, b),
         NEW t \in DOMAIN p, NEW after, after = [fds EXCEPT ![p[t]] = 0], NEW q, q = Options!WithoutKey(p, t)
  PROVE  Configured(k, after, d, q, {}, i, b)
<1>1. /\ DOMAIN q = DOMAIN p \ {t} /\ \A u \in DOMAIN q : q[u] = p[u]
  BY DEF Options!WithoutKey
<1>2. PICK e : e = p[t]
  OBVIOUS
<1>3. Injection1(p) /\ Points(p, e)
  BY <1>2, Zenon DEF Configured, Owned, Points
<1>4. e \in Descs /\ e \notin k /\ ~Points(d, e)
  BY <1>3 DEF Configured, Owned
<1>5. \A n : Points(q, n) <=> (Points(p, n) /\ n # e)
  BY <1>1, <1>2, <1>3, Zenon DEF Points, Injection1
<1>6. Injection1(q)
  BY <1>1, <1>3, Zenon DEF Injection1
<1>7. /\ fds \in [Descs -> Nat] /\ after \in [Descs -> Nat] /\ after[e] = 0
      /\ \A m \in Descs : m # e => after[m] = fds[m]
  BY <1>2, <1>4 DEF Configured, Distinguished
<1>8. Owned(k, after, d, q, {})
  BY <1>3, <1>4, <1>5, <1>6, <1>7 DEF Configured, Owned
<1>9. Distinguished(after, b)
  BY <1>7 DEF Configured, Distinguished
<1>10. \A u \in DOMAIN d : d[u] \in Descs /\ d[u] # e
  BY <1>4 DEF Configured, Owned, Points
<1>11. [u \in DOMAIN d |-> after[d[u]]] = [u \in DOMAIN d |-> fds[d[u]]]
  BY <1>7, <1>10
<1> QED
  BY <1>8, <1>9, <1>11 DEF Configured, Intended

LEMMA FilesGrow ==
  ASSUME spawnCalls \in Nat
  PROVE  /\ NextFile \in Nat /\ NextFile > 0 /\ Options!NewFile = NextFile
         /\ NextFile + 2 \in Nat /\ NextFile + 2 > 0 /\ NextFile + 1 \in Nat
         /\ spawnCalls' = spawnCalls + 1 => NextFile' = NextFile + 2
  BY FdAssumption DEF NextFile, Options!NewFile

LEMMA StdioNumbers == Options!Stdio \subseteq Descs /\ Options!Numbers = Descs
  BY FdAssumption DEF Options!Stdio, Descs, Options!Numbers

\* open(), pipe() and the others before Spawn: the order of the options is kept.
LEMMA OptionOrdered ==
  ASSUME SpawnInv, NEW t \in Targets, Options!Configure(t), phase' = phase, others' = others,
         Configured(Unowned, parentFds', descriptors', optionPipes', {}, intended', NextFile + 2),
         NewTarget(t)
  PROVE  SpawnInv'
<1>1. /\ phase = "options" /\ spawnCalls' = spawnCalls + 1 /\ spawnCalls \in Nat /\ Going /\ Going'
      /\ others \subseteq Descs
  BY DEF Options!Configure, SpawnInv, SpawnTable, Going
<1>2. NextFile' = NextFile + 2 /\ Unowned' = Unowned
  BY <1>1, FilesGrow DEF Unowned
<1>3. SpawnTable'
  BY <1>1, <1>2 DEF SpawnTable
<1>4. SpawnOrder'
  <2> SUFFICES ASSUME ~lateOption', ~freeTarget', NEW u \in DOMAIN descriptors'
               PROVE  ~Points(descriptors', u) /\ u \in Options!Stdio
    BY <1>1 DEF SpawnOrder
  <2>1. /\ ~lateOption /\ ~freeTarget /\ t \in Options!Stdio
        /\ \A w \in DOMAIN descriptors : ~(w >= Options!FirstTarget)
    BY DEF Options!Configure
  <2>2. \A w \in DOMAIN descriptors : w \in Options!Stdio
    BY <1>1, <2>1 DEF SpawnInv, SpawnOrder
  <2>3. u \in Options!Stdio
    BY <2>1, <2>2 DEF NewTarget
  <2>4. \A n : Points(descriptors', n) => n \notin Unowned
    BY DEF Configured, Owned
  <2> QED
    BY <2>3, <2>4 DEF Unowned
<1>5. ChildTable' /\ ChildSound'
  BY <1>1 DEF ChildTable, ChildSound
<1> QED
  BY <1>3, <1>4, <1>5 DEF SpawnInv

LEMMA OpenForKeeps ==
  ASSUME SpawnInv, NEW t \in Targets, Options!OpenFor(t)
  PROVE  SpawnInv'
<1>1. /\ Options!Configure(t) /\ phase' = phase /\ others' = others /\ optionPipes' = optionPipes
  BY DEF Options!OpenFor
<1>2. PICK from \in Options!Lowest(Options!Free(parentFds)) :
        Options!Dup2([parentFds EXCEPT ![from] = Options!NewFile], from, t)
  BY DEF Options!OpenFor
<1>3. from \in Descs /\ parentFds[from] = 0 /\ t \in Descs
  BY FdAssumption DEF Options!Lowest, Options!Free, Options!Numbers, Descs
<1>4. spawnCalls \in Nat /\ Configured(Unowned, parentFds, descriptors, optionPipes, {}, intended, NextFile)
  BY <1>1 DEF SpawnInv, SpawnTable, Going, Options!Configure
<1>5. PICK b, c, k, after, pipes :
        /\ b = NextFile /\ c = NextFile + 2 /\ k = Unowned /\ after = [parentFds EXCEPT ![from] = b] /\ pipes = optionPipes
  OBVIOUS
<1>6. b \in Nat /\ c \in Nat /\ b > 0 /\ c > 0 /\ b < c /\ b >= b /\ Options!NewFile = b
  BY <1>4, <1>5, FilesGrow
<1>7. {from} = {} \cup {from} /\ b # 0
  BY <1>6
<1>8. Configured(k, parentFds, descriptors, pipes, {}, intended, b)
  BY <1>4, <1>5
<1>9. Configured(k, after, descriptors, pipes, {from}, intended, c)
  BY ONLY <1>3, <1>5, <1>6, <1>7, <1>8, NumberOpened
<1>10. Options!Dup2(after, from, t)
  BY <1>2, <1>5, <1>6
<1>11. /\ Configured(k, parentFds', descriptors', pipes, {}, intended', c)
       /\ NewTarget(t)
  BY <1>3, <1>6, <1>9, <1>10, Dupped
<1> QED
  BY <1>1, <1>5, <1>11, OptionOrdered

LEMMA PipeForKeeps ==
  ASSUME SpawnInv, NEW t \in Targets, NEW childRead \in BOOLEAN, Options!PipeFor(t, childRead)
  PROVE  SpawnInv'
<1>1. Options!Configure(t) /\ phase' = phase /\ others' = others /\ t \notin DOMAIN optionPipes
  BY DEF Options!PipeFor
<1>2. PICK read \in Options!Lowest(Options!Free(parentFds)) :
      \E write \in Options!Lowest(Options!Free(parentFds) \ {read}) :
        /\ optionPipes' = Options!With(optionPipes, t, IF childRead THEN write ELSE read)
        /\ Options!Dup2([parentFds EXCEPT ![read] = Options!NewFile, ![write] = Options!NewFile + 1],
                        IF childRead THEN read ELSE write, t)
  BY DEF Options!PipeFor
<1>3. PICK write \in Options!Lowest(Options!Free(parentFds) \ {read}) :
        /\ optionPipes' = Options!With(optionPipes, t, IF childRead THEN write ELSE read)
        /\ Options!Dup2([parentFds EXCEPT ![read] = Options!NewFile, ![write] = Options!NewFile + 1],
                        IF childRead THEN read ELSE write, t)
  BY <1>2
<1>4. /\ read \in Descs /\ parentFds[read] = 0 /\ t \in Descs
      /\ write \in Descs /\ parentFds[write] = 0 /\ read # write
  BY FdAssumption DEF Options!Lowest, Options!Free, Options!Numbers, Descs
<1>5. spawnCalls \in Nat /\ Configured(Unowned, parentFds, descriptors, optionPipes, {}, intended, NextFile)
  BY <1>1 DEF SpawnInv, SpawnTable, Going, Options!Configure
<1>6. PICK b, c, k, opened, after, mine, given :
        /\ b = NextFile /\ c = NextFile + 2 /\ k = Unowned
        /\ opened = [parentFds EXCEPT ![read] = b] /\ after = [opened EXCEPT ![write] = b + 1]
        /\ mine = (IF childRead THEN write ELSE read) /\ given = (IF childRead THEN read ELSE write)
  OBVIOUS
<1>7. b \in Nat /\ c \in Nat /\ b > 0 /\ c > 0 /\ b + 1 \in Nat /\ b < b + 1 /\ b + 1 < c /\ Options!NewFile = b
  BY <1>5, <1>6, FilesGrow
<1>8. Configured(k, parentFds, descriptors, optionPipes, {}, intended, b)
  BY <1>5, <1>6
<1>9. Configured(k, opened, descriptors, optionPipes, {read}, intended, b + 1)
  <2>1. {read} = {} \cup {read} /\ b >= b /\ b # 0
    BY <1>7
  <2> QED
    BY ONLY <1>4, <1>6, <1>7, <1>8, <2>1, NumberOpened
<1>10. Configured(k, after, descriptors, optionPipes, {read, write}, intended, c)
  <2>1. {read, write} = {read} \cup {write} /\ b + 1 >= b + 1 /\ b + 1 # 0
    BY <1>7
  <2>2. opened[write] = 0
    BY <1>4, <1>6, <1>8 DEF Configured, Distinguished
  <2> QED
    BY ONLY <1>4, <1>6, <1>7, <1>9, <2>1, <2>2, NumberOpened
<1>11. /\ mine \in {read, write} /\ {given} = {read, write} \ {mine}
  BY <1>4, <1>6
<1>12. optionPipes' = Options!With(optionPipes, t, mine) /\ Options!Dup2(after, given, t)
  BY <1>3, <1>6, <1>7
<1>13. Configured(k, after, descriptors, optionPipes', {given}, intended, c)
  BY ONLY <1>1, <1>7, <1>10, <1>11, <1>12, EndTaken
<1>14. /\ Configured(k, parentFds', descriptors', optionPipes', {}, intended', c)
       /\ NewTarget(t)
  BY <1>4, <1>7, <1>12, <1>13, Dupped
<1> QED
  BY <1>1, <1>6, <1>14, OptionOrdered

LEMMA InheritKeeps ==
  ASSUME SpawnInv, Options!InheritDescriptor
  PROVE  SpawnInv'
<1>1. /\ phase = "options" /\ phase' = phase /\ spawnCalls' = spawnCalls + 1 /\ others' = others
      /\ optionPipes' = optionPipes /\ lateOption' = lateOption /\ freeTarget' = freeTarget
  BY DEF Options!InheritDescriptor
<1>2. PICK source \in Options!Lowest(Options!Free(parentFds) \ DOMAIN descriptors) :
      \E target \in Options!Lowest({t \in Options!FirstTarget .. MaxFd : ~Options!TargetConflicts(t, source)}) :
        Options!EmplaceDescriptor([parentFds EXCEPT ![source] = Options!NewFile], source, target)
  BY DEF Options!InheritDescriptor
<1>3. PICK target \in Options!Lowest({t \in Options!FirstTarget .. MaxFd : ~Options!TargetConflicts(t, source)}) :
        Options!EmplaceDescriptor([parentFds EXCEPT ![source] = Options!NewFile], source, target)
  BY <1>2
<1>4. source \in Descs /\ parentFds[source] = 0 /\ source \notin DOMAIN descriptors
  BY DEF Options!Lowest, Options!Free, Options!Numbers, Descs
<1>5. target \in Options!FirstTarget .. MaxFd /\ ~Options!TargetConflicts(target, source)
  BY DEF Options!Lowest
<1>6. target \in Descs /\ target >= Options!FirstTarget /\ target # source /\ ~Points(descriptors, target)
  BY <1>5, FdAssumption DEF Options!TargetConflicts, Options!FirstTarget, Options!Range, Descs, Points
<1>7. /\ spawnCalls \in Nat /\ Configured(Unowned, parentFds, descriptors, optionPipes, {}, intended, NextFile)
      /\ others \subseteq Descs
  BY <1>1 DEF SpawnInv, SpawnTable, Going
<1>8. PICK b, c, k, after :
        b = NextFile /\ c = NextFile + 2 /\ k = Unowned /\ after = [parentFds EXCEPT ![source] = b]
  OBVIOUS
<1>9. b \in Nat /\ c \in Nat /\ b > 0 /\ c > 0 /\ b < c /\ b >= b /\ Options!NewFile = b /\ NextFile' = c
  BY <1>1, <1>7, <1>8, FilesGrow
<1>10. Configured(k, parentFds, descriptors, optionPipes, {}, intended, b)
  BY <1>7, <1>8
<1>11. Configured(k, after, descriptors, optionPipes, {source}, intended, c)
  <2>1. {source} = {} \cup {source} /\ b # 0
    BY <1>9
  <2> QED
    BY ONLY <1>4, <1>8, <1>9, <1>10, <2>1, NumberOpened
<1>12. Options!EmplaceDescriptor(after, source, target)
  BY <1>3, <1>8, <1>9
<1>13. /\ Configured(k, parentFds', descriptors', optionPipes, {}, intended', c)
       /\ NewTarget(target) /\ NewSource(source)
  BY <1>6, <1>9, <1>11, <1>12, Emplaced
<1>14. Going /\ Going' /\ Unowned' = k
  BY <1>1, <1>8 DEF Going, Unowned
<1>15. SpawnTable'
  BY <1>1, <1>7, <1>9, <1>13, <1>14 DEF SpawnTable
<1>16. SpawnOrder'
  <2> SUFFICES ASSUME ~lateOption', ~freeTarget', NEW u \in DOMAIN descriptors'
               PROVE  ~Points(descriptors', u) /\ (u \in Options!Stdio \/ u >= Options!FirstTarget)
    BY <1>14 DEF SpawnOrder
  <2>1. \A t \in DOMAIN descriptors : ~Points(descriptors, t) /\ (t \in Options!Stdio \/ t >= Options!FirstTarget)
    BY <1>1, <1>14 DEF SpawnInv, SpawnOrder
  <2> QED
    BY <1>4, <1>6, <1>13, <2>1 DEF NewTarget, NewSource
<1>17. ChildTable' /\ ChildSound'
  BY <1>1 DEF ChildTable, ChildSound
<1> QED
  BY <1>15, <1>16, <1>17 DEF SpawnInv

LEMMA SpawnKeeps ==
  ASSUME SpawnInv, Options!Spawn
  PROVE  SpawnInv'
<1>1. /\ phase = "options" /\ phase' = "spawning" /\ childFds' = parentFds /\ pending' = DOMAIN descriptors
      /\ parentFds' = parentFds /\ others' = others /\ descriptors' = descriptors /\ optionPipes' = optionPipes
      /\ intended' = intended /\ lateOption' = lateOption /\ freeTarget' = freeTarget /\ spawnCalls' = spawnCalls
  BY DEF Options!Spawn
<1>2. Going /\ Going' /\ Unowned' = Unowned /\ NextFile' = NextFile
  BY <1>1 DEF Going, Unowned, NextFile
<1>3. SpawnTable' /\ SpawnOrder' /\ ChildSound'
  BY <1>1, <1>2 DEF SpawnInv, SpawnTable, SpawnOrder, ChildSound
<1>4. parentFds \in [Descs -> Nat]
  BY DEF SpawnInv, SpawnTable, Configured, Distinguished
<1>5. /\ Dups(parentFds, descriptors, parentFds, DOMAIN descriptors)
      /\ Delivering(parentFds, descriptors, parentFds, DOMAIN descriptors)
  BY <1>4 DEF Dups, Delivering, Given
<1>6. ChildTable'
  BY <1>1, <1>5 DEF ChildTable
<1> QED
  BY <1>3, <1>6 DEF SpawnInv

\* One dup2() action, for any order of them.
LEMMA OneDup ==
  ASSUME NEW child, NEW d, NEW fds, NEW left, Dups(child, d, fds, left), DOMAIN d \subseteq Descs,
         \A u \in DOMAIN d : d[u] \in Descs, NEW t \in left,
         NEW after, after = [child EXCEPT ![t] = child[d[t]]]
  PROVE  /\ Dups(after, d, fds, left \ {t})
         /\ Delivering(child, d, fds, left) /\ (\A u \in DOMAIN d : ~Points(d, u)) => Delivering(after, d, fds, left \ {t})
<1>1. t \in DOMAIN d /\ t \in Descs /\ child \in [Descs -> Nat] /\ child[d[t]] \in Nat
  BY DEF Dups
<1>2. /\ after \in [Descs -> Nat] /\ after[t] = child[d[t]]
      /\ \A n \in Descs : n # t => after[n] = child[n]
  BY <1>1
<1>3. Given(d, fds, after[t])
  BY <1>1, <1>2 DEF Dups
<1>4. \A u \in DOMAIN d : Given(d, fds, after[d[u]])
  BY <1>1, <1>2, <1>3 DEF Dups
<1>5. \A u \in DOMAIN d : u \notin left \ {t} => Given(d, fds, after[u])
  BY <1>1, <1>2, <1>3 DEF Dups
<1>6. Dups(after, d, fds, left \ {t})
  BY <1>1, <1>2, <1>4, <1>5 DEF Dups
<1>7. ASSUME Delivering(child, d, fds, left), \A u \in DOMAIN d : ~Points(d, u)
      PROVE  Delivering(after, d, fds, left \ {t})
  <2>1. d[t] \notin DOMAIN d
    BY <1>1, <1>7 DEF Points
  <2>2. child[d[t]] = fds[d[t]]
    BY <1>1, <2>1 DEF Dups
  <2> QED
    BY <1>1, <1>2, <1>7, <2>2 DEF Delivering
<1> QED
  BY <1>6, <1>7

LEMMA ChildDup2Keeps ==
  ASSUME SpawnInv, NEW t \in pending, Options!ChildDup2(t)
  PROVE  SpawnInv'
<1>1. /\ phase = "spawning" /\ phase' = "spawning" /\ pending' = pending \ {t}
      /\ childFds' = [childFds EXCEPT ![t] = childFds[descriptors[t]]]
      /\ parentFds' = parentFds /\ others' = others /\ descriptors' = descriptors /\ optionPipes' = optionPipes
      /\ intended' = intended /\ lateOption' = lateOption /\ freeTarget' = freeTarget /\ spawnCalls' = spawnCalls
  BY DEF Options!ChildDup2
<1>2. Going /\ Going' /\ Unowned' = Unowned /\ NextFile' = NextFile
  BY <1>1 DEF Going, Unowned, NextFile
<1>3. SpawnTable' /\ SpawnOrder' /\ ChildSound'
  BY <1>1, <1>2 DEF SpawnInv, SpawnTable, SpawnOrder, ChildSound
<1>4. /\ Dups(childFds, descriptors, parentFds, pending)
      /\ ~lateOption /\ ~freeTarget => Delivering(childFds, descriptors, parentFds, pending)
      /\ ~lateOption /\ ~freeTarget => \A u \in DOMAIN descriptors : ~Points(descriptors, u)
  BY <1>1, <1>2 DEF SpawnInv, ChildTable, SpawnOrder
<1>5. DOMAIN descriptors \subseteq Descs /\ \A u \in DOMAIN descriptors : descriptors[u] \in Descs
  BY DEF SpawnInv, SpawnTable, Configured, Owned, Intended, Points
<1>6. /\ Dups(childFds', descriptors, parentFds, pending \ {t})
      /\ ~lateOption /\ ~freeTarget => Delivering(childFds', descriptors, parentFds, pending \ {t})
  BY <1>1, <1>4, <1>5, OneDup
<1>7. ChildTable'
  BY <1>1, <1>6 DEF ChildTable
<1> QED
  BY <1>3, <1>7 DEF SpawnInv

\* The maps of Options are cleared.
LEMMA DescriptorsClosed ==
  ASSUME NEW fds
  PROVE  Options!CloseDescriptors(fds) = [n \in Descs |-> IF Points(descriptors, n) THEN 0 ELSE fds[n]]
<1>1. \A n : n \in Options!Range(descriptors) <=> Points(descriptors, n)
  BY DEF Options!Range, Points
<1> QED
  BY <1>1 DEF Options!CloseDescriptors, Options!Numbers, Descs

LEMMA ExecKeeps ==
  ASSUME SpawnInv, Options!Exec
  PROVE  SpawnInv'
<1>1. /\ phase = "spawning" /\ phase' = "spawned" /\ pending = {}
      /\ childFds' = [n \in Options!Stdio \cup DOMAIN descriptors |-> childFds[n]]
      /\ parentFds' = [n \in Descs |-> IF Points(descriptors, n) THEN 0 ELSE parentFds[n]]
      /\ descriptors' = Options!Nowhere /\ others' = others /\ optionPipes' = optionPipes
      /\ intended' = intended /\ lateOption' = lateOption /\ freeTarget' = freeTarget /\ spawnCalls' = spawnCalls
  BY DescriptorsClosed DEF Options!Exec
<1>2. Going /\ ~Going' /\ Unowned' = Unowned /\ NextFile' = NextFile
  BY <1>1 DEF Going, Unowned, NextFile
<1>3. /\ spawnCalls \in Nat /\ others \subseteq Descs /\ NextFile \in Nat /\ NextFile > 0
      /\ Configured(Unowned, parentFds, descriptors, optionPipes, {}, intended, NextFile)
  BY <1>2, FilesGrow DEF SpawnInv, SpawnTable
<1>4. Configured(Unowned, parentFds', Options!Nowhere, optionPipes, {}, Options!Nowhere, NextFile)
  BY <1>1, <1>3, SourcesClosed
<1>5. SpawnTable'
  BY <1>1, <1>2, <1>3, <1>4 DEF SpawnTable
<1>6. SpawnOrder' /\ ChildTable'
  BY <1>1, <1>2 DEF SpawnOrder, ChildTable
<1>7. /\ Dups(childFds, descriptors, parentFds, {})
      /\ ~lateOption /\ ~freeTarget => Delivering(childFds, descriptors, parentFds, {})
  BY <1>1 DEF SpawnInv, ChildTable
<1>8. intended = [t \in DOMAIN descriptors |-> parentFds[descriptors[t]]]
  BY <1>3 DEF Configured, Intended
<1>9. ASSUME ~lateOption', ~freeTarget' PROVE Options!Delivered'
  <2>1. \A t \in DOMAIN intended : childFds'[t] = intended[t]
    BY <1>1, <1>7, <1>8, <1>9 DEF Delivering
  <2> QED
    BY <1>1, <2>1 DEF Options!Delivered
<1>10. ASSUME NEW t \in DOMAIN optionPipes', parentFds'[optionPipes'[t]] \in Options!Range(childFds') PROVE FALSE
  <2>1. PICK n \in Options!Stdio \cup DOMAIN descriptors : parentFds'[optionPipes[t]] = childFds[n]
    BY <1>1, <1>10 DEF Options!Range
  <2>2. PICK e : e = optionPipes[t]
    OBVIOUS
  <2>3. Points(optionPipes, e) /\ t \in DOMAIN optionPipes
    BY <1>1, <1>10, <2>2, Zenon DEF Points
  <2>4. e \in Descs /\ e \notin Unowned /\ ~Points(descriptors, e) /\ parentFds[e] # 0
    BY <1>3, <2>3 DEF Configured, Owned
  <2>5. parentFds[e] = childFds[n]
    BY <1>1, <2>1, <2>2, <2>4
  <2>6. \E m \in Descs : childFds[n] = parentFds[m] /\ m # e
    <3>1. CASE n \in DOMAIN descriptors
      <4>1. PICK u \in DOMAIN descriptors : childFds[n] = parentFds[descriptors[u]]
        BY <1>7, <3>1 DEF Dups, Given
      <4>2. Points(descriptors, descriptors[u])
        BY Zenon DEF Points
      <4>3. descriptors[u] \in Descs /\ descriptors[u] # e
        BY <1>3, <2>4, <4>2 DEF Configured, Owned
      <4> QED
        BY <4>1, <4>3
    <3>2. CASE n \notin DOMAIN descriptors
      <4>1. n \in Options!Stdio /\ n \in Descs /\ n # e
        BY <2>4, <3>2, StdioNumbers DEF Unowned
      <4> QED
        BY <1>7, <3>2, <4>1 DEF Dups
    <3> QED
      BY <3>1, <3>2
  <2> QED
    BY <1>3, <2>4, <2>5, <2>6 DEF Configured, Distinguished
<1>11. ChildSound'
  BY <1>1, <1>9, <1>10 DEF ChildSound
<1> QED
  BY <1>5, <1>6, <1>11 DEF SpawnInv

LEMMA SpawnFailsKeeps ==
  ASSUME SpawnInv, Options!SpawnFails
  PROVE  SpawnInv'
<1>1. PICK closed : closed = [n \in Descs |-> IF Points(descriptors, n) THEN 0 ELSE parentFds[n]]
  OBVIOUS
<1>2. /\ phase \in {"options", "spawning"} /\ phase' = "failed"
      /\ parentFds' = [n \in Descs |-> IF Points(optionPipes, n) THEN 0 ELSE closed[n]]
      /\ descriptors' = Options!Nowhere /\ optionPipes' = Options!Nowhere
      /\ others' = others /\ spawnCalls' = spawnCalls
  <2>1. \A n : n \in Options!Range(optionPipes) <=> Points(optionPipes, n)
    BY DEF Options!Range, Points
  <2> QED
    BY <1>1, <2>1, DescriptorsClosed DEF Options!SpawnFails, Options!Numbers, Descs
<1>3. Going /\ ~Going' /\ Unowned' = Unowned /\ NextFile' = NextFile
  BY <1>2 DEF Going, Unowned, NextFile
<1>4. /\ spawnCalls \in Nat /\ others \subseteq Descs /\ NextFile \in Nat /\ NextFile > 0
      /\ Configured(Unowned, parentFds, descriptors, optionPipes, {}, intended, NextFile)
  BY <1>3, FilesGrow DEF SpawnInv, SpawnTable
<1>5. Configured(Unowned, closed, Options!Nowhere, optionPipes, {}, Options!Nowhere, NextFile)
  BY <1>1, <1>4, SourcesClosed
<1>6. Configured(Unowned, parentFds', Options!Nowhere, Options!Nowhere, {}, Options!Nowhere, NextFile)
  <2>1. DOMAIN Options!Nowhere = {} /\ \A n : ~Points(Options!Nowhere, n)
    BY DEF Options!Nowhere, Points
  <2>2. closed \in [Descs -> Nat] /\ parentFds' \in [Descs -> Nat]
    BY <1>2, <1>5 DEF Configured, Distinguished
  <2>3. Owned(Unowned, parentFds', Options!Nowhere, Options!Nowhere, {})
    BY <1>2, <1>5, <2>1, <2>2 DEF Configured, Owned, Injection1
  <2>4. Distinguished(parentFds', NextFile)
    BY <1>2, <1>4, <1>5, <2>2 DEF Configured, Distinguished
  <2>5. Intended(Options!Nowhere, Options!Nowhere, parentFds')
    BY <2>1 DEF Intended, Options!Nowhere
  <2> QED
    BY <2>3, <2>4, <2>5 DEF Configured
<1>7. SpawnTable'
  BY <1>2, <1>3, <1>4, <1>6 DEF SpawnTable
<1>8. SpawnOrder' /\ ChildTable' /\ ChildSound'
  BY <1>2, <1>3 DEF SpawnOrder, ChildTable, ChildSound
<1> QED
  BY <1>7, <1>8 DEF SpawnInv

LEMMA CloseParentFdKeeps ==
  ASSUME SpawnInv, Options!CloseParentFd
  PROVE  SpawnInv'
<1>1. /\ phase = "spawned" /\ phase' = "spawned" /\ others' = others /\ descriptors' = descriptors
      /\ intended' = intended /\ lateOption' = lateOption /\ freeTarget' = freeTarget
      /\ spawnCalls' = spawnCalls /\ childFds' = childFds
  BY DEF Options!CloseParentFd
<1>2. PICK t \in DOMAIN optionPipes :
        /\ parentFds' = [parentFds EXCEPT ![optionPipes[t]] = 0]
        /\ optionPipes' = Options!WithoutKey(optionPipes, t)
  BY DEF Options!CloseParentFd, Options!Closed
<1>3. ~Going /\ ~Going' /\ Unowned' = Unowned /\ NextFile' = NextFile
  BY <1>1 DEF Going, Unowned, NextFile
<1>4. /\ spawnCalls \in Nat /\ others \subseteq Descs /\ NextFile \in Nat /\ NextFile > 0
      /\ Configured(Unowned, parentFds, descriptors, optionPipes, {}, Options!Nowhere, NextFile)
      /\ descriptors = Options!Nowhere
  BY <1>3, FilesGrow DEF SpawnInv, SpawnTable
<1>5. Configured(Unowned, parentFds', descriptors, optionPipes', {}, Options!Nowhere, NextFile)
  BY <1>2, <1>4, EndClosed
<1>6. SpawnTable'
  BY <1>1, <1>3, <1>4, <1>5 DEF SpawnTable
<1>7. SpawnOrder' /\ ChildTable'
  BY <1>1, <1>3 DEF SpawnOrder, ChildTable
<1>8. /\ ~lateOption /\ ~freeTarget => Options!Delivered
      /\ \A u \in DOMAIN optionPipes : parentFds[optionPipes[u]] \notin Options!Range(childFds)
  BY <1>1 DEF SpawnInv, ChildSound
<1>9. ~lateOption' /\ ~freeTarget' => Options!Delivered'
  BY <1>1, <1>8 DEF Options!Delivered
<1>10. ASSUME NEW u \in DOMAIN optionPipes' PROVE parentFds'[optionPipes'[u]] \notin Options!Range(childFds)
  <2>1. u \in DOMAIN optionPipes /\ u # t /\ optionPipes'[u] = optionPipes[u]
    BY <1>2, <1>10 DEF Options!WithoutKey
  <2>2. optionPipes[u] # optionPipes[t] /\ optionPipes[u] \in Descs
    BY <1>4, <2>1 DEF Configured, Owned, Injection1, Points
  <2>3. parentFds'[optionPipes'[u]] = parentFds[optionPipes[u]]
    BY <1>2, <1>4, <2>1, <2>2 DEF Configured, Distinguished
  <2> QED
    BY <1>8, <2>1, <2>3
<1>11. ChildSound'
  BY <1>1, <1>9, <1>10 DEF ChildSound
<1> QED
  BY <1>6, <1>7, <1>11 DEF SpawnInv

LEMMA SpawnInit == Options!Init => SpawnInv
<1> SUFFICES ASSUME Options!Init PROVE SpawnInv
  OBVIOUS
<1>1. /\ others \subseteq Descs /\ spawnCalls = 0 /\ phase = "options" /\ Going
      /\ parentFds = [n \in Descs |-> IF n \in Unowned THEN n + 1 ELSE 0]
      /\ descriptors = Options!Nowhere /\ optionPipes = Options!Nowhere /\ intended = Options!Nowhere
  BY FdAssumption DEF Options!Init, Options!Numbers, Descs, Unowned, Going
<1>2. DOMAIN Options!Nowhere = {} /\ \A n : ~Points(Options!Nowhere, n)
  BY DEF Options!Nowhere, Points
<1>3. MaxFd \in Nat /\ NextFile = MaxFd + 2
  BY <1>1, FdAssumption DEF NextFile
<1>4. Distinguished(parentFds, NextFile)
  BY <1>1, <1>3 DEF Distinguished, Descs
<1>5. Owned(Unowned, parentFds, Options!Nowhere, Options!Nowhere, {})
  BY <1>1, <1>2 DEF Owned, Injection1, Descs
<1>6. Intended(Options!Nowhere, Options!Nowhere, parentFds)
  BY <1>2 DEF Intended, Options!Nowhere
<1>7. SpawnTable
  BY <1>1, <1>4, <1>5, <1>6 DEF SpawnTable, Configured
<1> QED
  BY <1>1, <1>2, <1>7 DEF SpawnInv, SpawnOrder, ChildTable, ChildSound

LEMMA SpawnStep == SpawnInv /\ [Options!Next]_(Options!spawnVars) => SpawnInv'
<1> SUFFICES ASSUME SpawnInv, [Options!Next]_(Options!spawnVars) PROVE SpawnInv'
  OBVIOUS
<1>1. ASSUME NEW t \in Targets, Options!OpenFor(t) PROVE SpawnInv'
  BY <1>1, OpenForKeeps
<1>2. ASSUME NEW t \in Targets, NEW childRead \in BOOLEAN, Options!PipeFor(t, childRead) PROVE SpawnInv'
  BY <1>2, PipeForKeeps
<1>3. CASE Options!InheritDescriptor
  BY <1>3, InheritKeeps
<1>4. CASE Options!Spawn
  BY <1>4, SpawnKeeps
<1>5. ASSUME NEW t \in pending, Options!ChildDup2(t) PROVE SpawnInv'
  BY <1>5, ChildDup2Keeps
<1>6. CASE Options!Exec
  BY <1>6, ExecKeeps
<1>7. CASE Options!SpawnFails
  BY <1>7, SpawnFailsKeeps
<1>8. CASE Options!CloseParentFd
  BY <1>8, CloseParentFdKeeps
<1>9. CASE UNCHANGED Options!spawnVars
  BY <1>9 DEF Options!spawnVars, SpawnInv, SpawnTable, SpawnOrder, ChildTable, ChildSound, Going, Unowned, NextFile,
     Options!Delivered
<1> QED
  BY <1>1, <1>2, <1>3, <1>4, <1>5, <1>6, <1>7, <1>8, <1>9 DEF Options!Next

LEMMA SpawnResult == SpawnInv => SpawnedAsConfigured
<1> SUFFICES ASSUME SpawnInv PROVE SpawnedAsConfigured
  OBVIOUS
<1>1. ASSUME phase \in {"spawned", "failed"}
      PROVE  Options!Open(parentFds) = Options!Stdio \cup others \cup Options!Range(optionPipes)
  <2>1. /\ Configured(Unowned, parentFds, Options!Nowhere, optionPipes, {}, Options!Nowhere, NextFile)
        /\ others \subseteq Descs
    BY <1>1 DEF SpawnInv, SpawnTable, Going
  <2>2. \A n : ~Points(Options!Nowhere, n)
    BY DEF Options!Nowhere, Points
  <2>3. \A n : n \in Options!Range(optionPipes) <=> Points(optionPipes, n)
    BY DEF Options!Range, Points
  <2>4. \A n \in Descs : parentFds[n] # 0 <=> (n \in Unowned \/ Points(optionPipes, n))
    BY <2>1, <2>2 DEF Configured, Owned
  <2>5. \A n : Points(optionPipes, n) => n \in Descs
    BY <2>1 DEF Configured, Owned
  <2> QED
    BY <2>1, <2>3, <2>4, <2>5, StdioNumbers DEF Options!Open, Options!Free, Unowned
<1> QED
  BY <1>1 DEF SpawnedAsConfigured, Options!SpawnedAsConfigured, SpawnInv, ChildSound

\* SpawnedProcess.cpp:237-315, 533-538, 714-719, for all numbers of descriptors and options: the child
\* finds every file under the number that was agreed, in whatever order the unordered_map is
\* walked, when only stdio streams are redirected and inheritDescriptor() comes last; the
\* parent's ends of the pipes are not in the child, and nothing else stays open in the parent.
THEOREM ChildSpawnedAsConfigured == Options!Spec => []SpawnedAsConfigured
<1>1. Options!Spec => []SpawnInv
  BY SpawnInit, SpawnStep, PTL DEF Options!Spec
<1> QED
  BY <1>1, SpawnResult, PTL

-----------------------------------------------------------------------------
(* FileDescriptor *)

Iovec == [base : Nat, len : Nat]
CallRecord ==
  [function : {"writeFull", "writeNoInt", "writevFull", "readFull", "readNoInt", "readvFull"},
   ends : Seq(Nat), first : Nat, r : Nat, totalBytes : Nat,
   state : {"ready", "busy", "advancing", "value", "error"}, iov : Seq(Iovec)]

Shape(e) == e \in Seq(Nat) /\ Len(e) >= 1 /\ \A i, j \in 1 .. Len(e) : i <= j => e[i] <= e[j]

\* The buffers v from the f-th on are what is left of those that end at e after p bytes.
Remaining(v, e, f, p) ==
  /\ v \in Seq(Iovec) /\ Len(v) = Len(e) /\ f \in 1 .. (Len(e) + 1) /\ p \in Nat
  /\ \A k \in f .. Len(e) : v[k].base + v[k].len = e[k]
  /\ \A k \in f .. Len(e) : k # f => v[k].base = Descriptor!Before(e, k)
  /\ f <= Len(e) => v[f].base = p
  /\ f = Len(e) + 1 => p = e[Len(e)]

CallSound(c) ==
  /\ c \in CallRecord /\ Shape(c.ends) /\ c.r <= c.totalBytes
  /\ Remaining(c.iov, c.ends, c.first, c.totalBytes - c.r)
  /\ c.totalBytes <= c.ends[Len(c.ends)]
  /\ c.state # "advancing" => c.r = 0
  /\ c.state = "advancing" => Descriptor!Vectored(c.function) /\ c.r > 0
  /\ c.state \in {"ready", "busy", "advancing"} => c.first <= Len(c.ends)
  /\ ~Descriptor!Vectored(c.function) => Len(c.ends) = 1 /\ c.first = 1
  /\ Descriptor!Vectored(c.function) /\ c.first <= Len(c.ends) /\ c.iov[c.first].len = 0 =>
       c.totalBytes - c.r = Descriptor!Before(c.ends, c.first)

\* What a value means, unless the file has ended.
Complete(c) ==
  \/ c.totalBytes = c.ends[Len(c.ends)]
  \/ Descriptor!OnlyOnce(c.function) /\ c.totalBytes > 0
  \/ Descriptor!EmptyRun(c)

\* The last buffer that an operation is given.
LastOf(c) ==
  IF Descriptor!Vectored(c.function) /\ c.first + IovMax <= Len(c.ends) THEN c.first + IovMax - 1 ELSE Len(c.ends)

\* An operation is given the bytes that follow.
LEMMA OfferedBytes ==
  ASSUME NEW c, CallSound(c), c.state = "busy"
  PROVE  /\ LastOf(c) \in c.first .. Len(c.ends) /\ c.ends[LastOf(c)] \in Nat
         /\ c.ends[LastOf(c)] <= c.ends[Len(c.ends)] /\ c.totalBytes <= c.ends[LastOf(c)]
         /\ Descriptor!Offered(c) = (c.totalBytes + 1) .. c.ends[LastOf(c)]
<1>1. PICK e, v, f, p, n, z :
        e = c.ends /\ v = c.iov /\ f = c.first /\ p = c.totalBytes /\ n = Len(e) /\ z = LastOf(c)
  OBVIOUS
<1>2. /\ Shape(e) /\ Remaining(v, e, f, p) /\ f <= n /\ n \in Nat /\ f \in Nat /\ f >= 1 /\ p \in Nat
      /\ Len(v) = n /\ p <= e[n]
  BY <1>1 DEF CallSound, CallRecord, Remaining, Shape
<1>3. /\ z \in f .. n /\ (\A k \in f .. n : Descriptor!InWindow(c, k) <=> k <= z)
      /\ \A k : Descriptor!InWindow(c, k) => k \in f .. n
  <2>1. z = IF Descriptor!Vectored(c.function) /\ f + IovMax <= n THEN f + IovMax - 1 ELSE n
    BY <1>1 DEF LastOf
  <2>2. \A k : Descriptor!InWindow(c, k) <=>
                 k \in f .. n /\ (Descriptor!Vectored(c.function) => k < f + IovMax)
    BY <1>1, <1>2 DEF Descriptor!InWindow
  <2>3. IovMax \in Nat /\ IovMax >= 1
    BY TransferAssumption
  <2> QED
    BY ONLY <1>2, <2>1, <2>2, <2>3
<1>4. /\ \A k \in 1 .. n : e[k] \in Nat
      /\ \A i, j \in 1 .. n : i <= j => e[i] <= e[j]
  BY <1>1, <1>2 DEF Shape
<1>5. z \in 1 .. n /\ e[z] \in Nat /\ e[z] <= e[n]
  BY ONLY <1>2, <1>3, <1>4
<1>6. \A k \in f .. n : v[k].base \in Nat /\ v[k].len \in Nat /\ v[k].base + v[k].len = e[k]
  <2>1. \A k \in f .. n : v[k] \in Iovec /\ v[k].base + v[k].len = e[k]
    BY <1>1, <1>2 DEF Remaining
  <2> QED
    BY <2>1 DEF Iovec
<1>7. v[f].base = p /\ \A k \in f .. n : k # f => k - 1 \in f .. n /\ v[k].base = e[k - 1]
  <2>1. v[f].base = p /\ \A k \in f .. n : k # f => v[k].base = Descriptor!Before(e, k)
    BY <1>1, <1>2 DEF Remaining
  <2> QED
    BY <1>2, <2>1 DEF Descriptor!Before
<1>8. p <= e[f] /\ e[f] <= e[z] /\ p <= e[z]
  BY ONLY <1>2, <1>3, <1>4, <1>5, <1>6, <1>7
<1>9. ASSUME NEW k \in f .. n PROVE p <= v[k].base
  <2>1. CASE k = f
    BY <1>2, <1>7, <2>1
  <2>2. CASE k # f
    <3>1. v[k].base = e[k - 1] /\ k - 1 \in f .. n
      BY <1>7, <2>2
    <3>2. e[f] <= e[k - 1]
      BY ONLY <1>2, <1>4, <3>1
    <3> QED
      BY ONLY <1>2, <1>4, <1>8, <3>1, <3>2
  <2> QED
    BY <2>1, <2>2
<1>10. ASSUME NEW a \in Descriptor!Offered(c) PROVE a \in (p + 1) .. e[z]
  <2>1. /\ a \in 1 .. e[n]
        /\ \E k \in 1 .. n : Descriptor!InWindow(c, k) /\ v[k].base < a /\ a <= v[k].base + v[k].len
    BY <1>1, <1>2, <1>10 DEF Descriptor!Offered, Descriptor!Total
  <2>2. PICK k \in 1 .. n : Descriptor!InWindow(c, k) /\ v[k].base < a /\ a <= v[k].base + v[k].len
    BY <2>1
  <2>3. k \in f .. n /\ k <= z
    BY <1>3, <2>2
  <2>4. e[k] <= e[z] /\ p <= v[k].base /\ a <= e[k] /\ a \in Nat
    BY <1>2, <1>3, <1>4, <1>5, <1>6, <1>9, <2>1, <2>2, <2>3
  <2> QED
    BY <1>2, <1>4, <1>5, <1>6, <2>2, <2>3, <2>4
<1>11. ASSUME NEW a \in (p + 1) .. e[z] PROVE a \in Descriptor!Offered(c)
  <2> DEFINE S == {k \in f .. z : a <= e[k]}
  <2>1. S \subseteq Nat /\ S # {}
    BY <1>2, <1>3, <1>5, <1>11
  <2>2. PICK k \in S : \A x \in S : k <= x
    <3> HIDE DEF S
    <3> QED
      BY <2>1, Least
  <2>3. k \in f .. n /\ k <= z /\ a <= e[k] /\ k \in 1 .. n
    BY <1>2, <1>3, <2>2
  <2>4. v[k].base < a
    <3>1. CASE k = f
      BY <1>2, <1>5, <1>7, <1>11, <3>1
    <3>2. CASE k # f
      <4>1. k - 1 \in f .. n /\ v[k].base = e[k - 1] /\ k - 1 \in f .. z
        BY <1>2, <1>3, <1>7, <2>3, <3>2
      <4>2. k - 1 \notin S
        BY <2>2, <2>3, <4>1
      <4>3. ~(a <= e[k - 1])
        BY <4>1, <4>2
      <4> QED
        BY <1>2, <1>4, <1>11, <4>1, <4>3
    <3> QED
      BY <3>1, <3>2
  <2>5. Descriptor!InWindow(c, k) /\ a <= v[k].base + v[k].len /\ a \in 1 .. e[n]
    <3>1. Descriptor!InWindow(c, k)
      BY ONLY <1>3, <2>3
    <3>2. a <= v[k].base + v[k].len
      BY ONLY <1>6, <2>3
    <3>3. a \in 1 .. e[n]
      <4>1. e[n] \in Nat
        BY ONLY <1>2, <1>3, <1>4
      <4> QED
        BY ONLY <1>2, <1>5, <4>1, a \in (p + 1) .. e[z]
    <3> QED
      BY ONLY <3>1, <3>2, <3>3
  <2> QED
    BY <1>1, <1>2, <2>3, <2>4, <2>5 DEF Descriptor!Offered, Descriptor!Total
<1> QED
  BY <1>1, <1>3, <1>5, <1>8, <1>10, <1>11

\* The first n of consecutive bytes.
LEMMA BytesInOrder ==
  ASSUME NEW c, NEW p \in Nat, NEW q \in Nat, Descriptor!Offered(c) = (p + 1) .. q, NEW n \in Nat,
         NEW bytes \in Descriptor!FirstBytes(c, n)
  PROVE  /\ bytes \in [1 .. n -> Nat] /\ \A i \in 1 .. n : bytes[i] = p + i
         /\ n = 0 \/ p + n <= q
<1>1. /\ bytes \in [1 .. n -> (p + 1) .. q]
      /\ (\A i, j \in 1 .. n : i < j => bytes[i] < bytes[j])
      /\ \A a \in (p + 1) .. q, i \in 1 .. n : a < bytes[i] => \E j \in 1 .. n : bytes[j] = a
  BY DEF Descriptor!FirstBytes
<1>2. \A i \in 1 .. n : bytes[i] \in (p + 1) .. q /\ bytes[i] \in Nat
  BY <1>1
<1>3. ASSUME NEW u \in 1 .. n, bytes[u] # p + u PROVE FALSE
  <2> DEFINE S == {i \in 1 .. n : bytes[i] # p + i}
  <2>1. S \subseteq Nat /\ S # {}
    BY <1>3
  <2>2. PICK i \in S : \A x \in S : i <= x
    <3> HIDE DEF S
    <3> QED
      BY <2>1, Least
  <2>3. i \in 1 .. n /\ bytes[i] # p + i /\ \A j \in 1 .. n : j < i => bytes[j] = p + j
    BY <2>2
  <2>4. bytes[i] > p + i
    <3>1. CASE i = 1
      BY <1>2, <2>3, <3>1
    <3>2. CASE i # 1
      <4>1. i - 1 \in 1 .. n /\ i - 1 < i
        BY <2>3, <3>2
      <4>2. bytes[i - 1] = p + (i - 1) /\ bytes[i - 1] < bytes[i]
        BY <1>1, <2>3, <4>1
      <4> QED
        BY <1>2, <2>3, <4>1, <4>2
    <3> QED
      BY <3>1, <3>2
  <2>5. p + i \in (p + 1) .. q
    BY <1>2, <2>3, <2>4
  <2>6. PICK j \in 1 .. n : bytes[j] = p + i
    BY <1>1, <2>3, <2>4, <2>5
  <2>7. CASE j < i
    BY <2>3, <2>6, <2>7
  <2>8. CASE j = i
    BY <2>3, <2>6, <2>8
  <2>9. CASE j > i
    <3>1. bytes[i] < bytes[j]
      BY <1>1, <2>3, <2>9
    <3> QED
      BY <1>2, <2>3, <2>4, <2>6, <3>1
  <2> QED
    BY <2>3, <2>7, <2>8, <2>9
<1>4. n = 0 \/ p + n <= q
  BY <1>2, <1>3
<1> QED
  BY <1>1, <1>2, <1>3, <1>4
\* The first of the remaining buffers.
LEMMA FirstBuffer ==
  ASSUME NEW v, NEW e, NEW f, NEW p, Shape(e), Remaining(v, e, f, p), f <= Len(e)
  PROVE  /\ v \in Seq(Iovec) /\ Len(v) = Len(e) /\ Len(e) \in Nat /\ f \in 1 .. Len(e) /\ p \in Nat
         /\ v[f] \in Iovec /\ v[f].base = p /\ v[f].len \in Nat /\ p + v[f].len = e[f]
         /\ e[f] \in Nat /\ e[Len(e)] \in Nat /\ e[f] <= e[Len(e)]
<1>1. v \in Seq(Iovec) /\ Len(v) = Len(e) /\ f \in 1 .. (Len(e) + 1) /\ p \in Nat /\ v[f].base = p
  BY DEF Remaining
<1>2. e \in Seq(Nat) /\ Len(e) \in Nat /\ Len(e) >= 1
  BY DEF Shape
<1>3. f \in 1 .. Len(e) /\ f \in f .. Len(e) /\ Len(e) \in 1 .. Len(e)
  BY <1>1, <1>2
<1>4. v[f].base + v[f].len = e[f]
  BY <1>3 DEF Remaining
<1>5. v[f] \in Iovec
  BY <1>1, <1>3
<1>6. v[f].len \in Nat
  BY <1>5 DEF Iovec
<1>7. e[f] \in Nat /\ e[Len(e)] \in Nat
  BY <1>2, <1>3
<1>8. e[f] <= e[Len(e)]
  BY <1>3 DEF Shape
<1> QED
  BY <1>1, <1>2, <1>3, <1>4, <1>5, <1>6, <1>7, <1>8


\* Nothing is left to transfer, or the next buffers look like the end of the file.
LEMMA NothingOffered ==
  ASSUME NEW c, CallSound(c), c.state = "busy", Descriptor!Offered(c) = {}
  PROVE  Complete(c)
<1>1. PICK e, v, f, p, n, z :
        e = c.ends /\ v = c.iov /\ f = c.first /\ p = c.totalBytes /\ n = Len(e) /\ z = LastOf(c)
  OBVIOUS
<1>2. /\ z \in f .. n /\ e[z] \in Nat /\ e[z] <= e[n] /\ p <= e[z]
      /\ Descriptor!Offered(c) = (p + 1) .. e[z]
  BY <1>1, OfferedBytes
<1>3. /\ Shape(e) /\ Remaining(v, e, f, p) /\ f <= n /\ n \in Nat /\ f \in Nat /\ f >= 1 /\ p \in Nat
      /\ Descriptor!Vectored(c.function) /\ v[f].len = 0 => p = Descriptor!Before(e, f)
  BY <1>1 DEF CallSound, CallRecord, Remaining, Shape
<1>4. e[z] = p
  BY <1>2, <1>3
<1>5. CASE z = n
  BY <1>1, <1>4, <1>5 DEF Complete
<1>6. CASE z # n
  <2>1. Descriptor!Vectored(c.function) /\ f + IovMax <= n /\ z = f + IovMax - 1 /\ IovMax \in Nat /\ IovMax >= 1
    BY <1>1, <1>6, TransferAssumption DEF LastOf
  <2>2. /\ f \in 1 .. n /\ e[f] \in Nat /\ v[f].len \in Nat /\ p + v[f].len = e[f]
    BY <1>1, <1>3, FirstBuffer
  <2>3. v[f].len = 0
    <3>1. z \in 1 .. n /\ f <= z
      BY ONLY <1>2, <1>3
    <3>2. e[f] <= e[z]
      BY <1>1, <1>3, <2>2, <3>1 DEF Shape
    <3> QED
      BY ONLY <1>2, <1>3, <1>4, <2>2, <3>2
  <2>4. Descriptor!Before(e, f) = p /\ Descriptor!Before(e, f + IovMax) = e[z]
    BY <1>3, <2>1, <2>3 DEF Descriptor!Before
  <2>5. f \in 1 .. n - IovMax
    BY <1>3, <2>1
  <2>6. Descriptor!EmptyRun(c)
    BY <1>1, <1>4, <2>1, <2>4, <2>5 DEF Descriptor!EmptyRun
  <2> QED
    BY <2>6 DEF Complete
<1> QED
  BY <1>5, <1>6

\* A step of a call from c to d, with n more bytes.
Proceeds(c, d, n) == CallSound(d) /\ d.totalBytes = c.totalBytes + n /\ d.ends = c.ends /\ d.function = c.function

Shortened(v, f, r) == [v EXCEPT ![f].base = @ + r, ![f].len = @ - r]

LEMMA ShortenIs ==
  ASSUME NEW c \in CallRecord, NEW r
  PROVE  Descriptor!Shorten(c, r) = [c EXCEPT !.iov = Shortened(c.iov, c.first, r)]
BY DEF Descriptor!Shorten, CallRecord, Shortened

LEMMA ShortenSound ==
  ASSUME NEW v, NEW e, NEW f, NEW p, Shape(e), Remaining(v, e, f, p), f <= Len(e),
         NEW r \in Nat, r <= v[f].len
  PROVE  Remaining(Shortened(v, f, r), e, f, p + r) /\ Shortened(v, f, r)[f].len = v[f].len - r
<1>0. PICK w : w = Shortened(v, f, r)
  OBVIOUS
<1>1. /\ v \in Seq(Iovec) /\ Len(v) = Len(e) /\ f \in 1 .. Len(v) /\ v[f] \in Iovec /\ p \in Nat /\ v[f].base = p
      /\ v[f].len \in Nat /\ f \in DOMAIN v
  <2>1. /\ v \in Seq(Iovec) /\ Len(v) = Len(e) /\ f \in 1 .. Len(v) /\ v[f] \in Iovec /\ p \in Nat
        /\ v[f].base = p /\ v[f].len \in Nat
    BY FirstBuffer
  <2> QED
    BY <2>1
<1>2. PICK x : x = [base |-> v[f].base + r, len |-> v[f].len - r]
  OBVIOUS
<1>3. x \in Iovec /\ x.base = p + r /\ x.len = v[f].len - r /\ x.base + x.len = v[f].base + v[f].len
  BY ONLY <1>1, <1>2, r \in Nat, r <= v[f].len DEF Iovec
<1>4. w = [v EXCEPT ![f] = x]
  <2>1. PICK y, i, j : y = v[f] /\ i = v[f].base /\ j = v[f].len
    OBVIOUS
  <2>2. [y EXCEPT !.base = @ + r, !.len = @ - r] = x
    <3>1. y = [base |-> i, len |-> j]
      BY ONLY <1>1, <2>1 DEF Iovec
    <3>2. x = [base |-> i + r, len |-> j - r]
      BY ONLY <1>2, <2>1
    <3>3. PICK h : h = [y EXCEPT !.base = y.base + r]
      OBVIOUS
    <3>4. h = [base |-> i + r, len |-> j]
      BY ONLY <3>1, <3>3
    <3>5. [y EXCEPT !.base = @ + r, !.len = @ - r] = [h EXCEPT !.len = h.len - r]
      BY ONLY <3>3
    <3>6. [h EXCEPT !.len = h.len - r] = x
      BY ONLY <3>2, <3>4
    <3> QED
      BY ONLY <3>5, <3>6
  <2>3. w = [v EXCEPT ![f] = [y EXCEPT !.base = @ + r, !.len = @ - r]]
    BY ONLY <1>0, <1>1, <2>1 DEF Iovec, Shortened
  <2> QED
    BY ONLY <2>2, <2>3
<1>5. w \in Seq(Iovec) /\ Len(w) = Len(e) /\ w[f] = x /\ \A k \in 1 .. Len(e) : k # f => w[k] = v[k]
  BY ONLY <1>1, <1>3, <1>4
<1>6. /\ \A k \in f .. Len(e) : w[k].base + w[k].len = e[k]
      /\ \A k \in f .. Len(e) : k # f => w[k].base = Descriptor!Before(e, k)
  <2>1. /\ \A k \in f .. Len(e) : v[k].base + v[k].len = e[k]
        /\ \A k \in f .. Len(e) : k # f => v[k].base = Descriptor!Before(e, k)
    BY DEF Remaining
  <2>2. \A k \in f .. Len(e) : k \in 1 .. Len(e)
    BY <1>1
  <2> QED
    BY ONLY <1>3, <1>5, <2>1, <2>2
<1> QED
  BY <1>0, <1>1, <1>3, <1>5, <1>6 DEF Remaining

LEMMA ReturnedSound ==
  ASSUME NEW c, CallSound(c), c.state = "busy", NEW n \in Nat, c.totalBytes + n <= c.ends[Len(c.ends)],
         NEW isRead \in BOOLEAN, NEW d, d = Descriptor!Returned(c, n, isRead)
  PROVE  /\ Proceeds(c, d, n) /\ d.state \in {"busy", "advancing", "value"}
         /\ d.state = "value" => n = 0 \/ Complete(d)
         /\ n = 0 => d.iov = c.iov
<1>1. PICK e, v, f, p, m :
        e = c.ends /\ v = c.iov /\ f = c.first /\ p = c.totalBytes /\ m = Len(e)
  OBVIOUS
<1>2. /\ Shape(e) /\ Remaining(v, e, f, p) /\ f <= m /\ m \in Nat /\ f \in Nat /\ f >= 1 /\ p \in Nat
      /\ c \in CallRecord /\ c.r = 0 /\ e[m] \in Nat /\ p + n <= e[m] /\ v \in Seq(Iovec) /\ Len(v) = m
  BY <1>1 DEF CallSound, CallRecord, Remaining, Shape
<1>3. v[f] \in Iovec /\ v[f].base = p /\ p + v[f].len = e[f] /\ v[f].len \in Nat
  BY <1>1, <1>2, FirstBuffer
<1>4. CASE n = 0 /\ (isRead \/ Descriptor!Vectored(c.function))
  <2>1. d = [c EXCEPT !.state = "value"]
    BY <1>4 DEF Descriptor!Returned
  <2>2. /\ d \in CallRecord /\ d.state = "value" /\ d.r = c.r /\ d.ends = c.ends /\ d.function = c.function
        /\ d.first = c.first /\ d.iov = c.iov /\ d.totalBytes = c.totalBytes
    BY <1>2, <2>1 DEF CallRecord
  <2> QED
    BY <1>1, <1>2, <1>4, <2>2 DEF CallSound, Proceeds
<1>5. CASE ~(n = 0 /\ (isRead \/ Descriptor!Vectored(c.function))) /\ Descriptor!Vectored(c.function)
  <2>1. d = [[c EXCEPT !.totalBytes = @ + n] EXCEPT !.r = n, !.state = "advancing"]
    BY <1>5 DEF Descriptor!Returned
  <2>2. /\ d \in CallRecord /\ d.state = "advancing" /\ d.r = n /\ d.ends = c.ends /\ d.function = c.function
        /\ d.first = c.first /\ d.iov = c.iov /\ d.totalBytes = c.totalBytes + n
    <3>1. d = [c EXCEPT !.totalBytes = p + n, !.r = n, !.state = "advancing"] /\ p + n \in Nat
      BY <1>1, <1>2, <2>1 DEF CallRecord
    <3> QED
      BY ONLY <1>1, <1>2, <3>1, n \in Nat DEF CallRecord
  <2>3. d.totalBytes - d.r = p /\ n > 0 /\ c.totalBytes - c.r = p
    BY <1>1, <1>2, <1>5, <2>2
  <2> QED
    BY <1>1, <1>2, <1>5, <2>2, <2>3 DEF CallSound, Proceeds
<1>6. CASE ~Descriptor!Vectored(c.function) /\ ~(n = 0 /\ isRead)
  <2>1. m = 1 /\ f = 1
    BY <1>1, <1>6 DEF CallSound
  <2>2. n <= v[f].len
    BY <1>2, <1>3, <2>1
  <2>3. PICK w, s : /\ w = Shortened(v, f, n)
                    /\ s = IF Descriptor!OnlyOnce(c.function) \/ v[f].len - n = 0 THEN "value" ELSE "busy"
    OBVIOUS
  <2>4. Remaining(w, e, f, p + n) /\ w[f].len = v[f].len - n
    BY <1>1, <1>2, <2>2, <2>3, ShortenSound
  <2>5. d = [c EXCEPT !.totalBytes = p + n, !.iov = w, !.state = s]
    <3>1. d = [Descriptor!Shorten([c EXCEPT !.totalBytes = @ + n], n) EXCEPT !.state = s]
      BY <1>1, <1>6, <2>3 DEF Descriptor!Returned
    <3>2. Descriptor!Shorten([c EXCEPT !.totalBytes = @ + n], n) = [c EXCEPT !.totalBytes = p + n, !.iov = w]
      <4>1. PICK g : g = [c EXCEPT !.totalBytes = @ + n]
        OBVIOUS
      <4>2. g.iov = v /\ g.first = f /\ g = [c EXCEPT !.totalBytes = p + n]
        BY ONLY <1>1, <1>2, <4>1 DEF CallRecord
      <4>3. p \in Nat /\ c \in CallRecord
        BY ONLY <1>2
      <4>8. p + n \in Nat
        BY ONLY <4>3, n \in Nat
      <4>4. g \in CallRecord
        BY ONLY <4>2, <4>3, <4>8 DEF CallRecord
      <4>5. Descriptor!Shorten(g, n) = [g EXCEPT !.iov = w]
        BY ONLY <2>3, <4>2, <4>4, ShortenIs
      <4> QED
        BY ONLY <4>1, <4>2, <4>5
    <3> QED
      BY <1>2, <3>1, <3>2 DEF CallRecord
  <2>6. w \in Seq(Iovec) /\ s \in {"value", "busy"} /\ p + n \in Nat
    BY <1>2, <2>3, <2>4 DEF Remaining
  <2>7. /\ d \in CallRecord /\ d.state = s /\ d.r = 0 /\ d.ends = e /\ d.function = c.function
        /\ d.first = f /\ d.iov = w /\ d.totalBytes = p + n
    BY <1>1, <1>2, <2>5, <2>6 DEF CallRecord
  <2>8. CallSound(d)
    <3>1. d.totalBytes - d.r = p + n /\ d.r <= d.totalBytes /\ d.totalBytes <= e[Len(e)]
      BY ONLY <1>1, <1>2, <2>6, <2>7
    <3>2. s # "advancing" /\ f <= Len(e) /\ Len(e) = 1
      BY ONLY <1>1, <1>2, <2>1, <2>6
    <3> QED
      BY ONLY <1>2, <1>6, <2>1, <2>4, <2>7, <3>1, <3>2 DEF CallSound
  <2>9. s = "value" => n = 0 \/ Complete(d)
    <3>1. CASE Descriptor!OnlyOnce(c.function)
      <4>1. n # 0 => p + n > 0
        BY ONLY <1>2, n \in Nat
      <4> QED
        BY ONLY <2>7, <3>1, <4>1 DEF Complete
    <3>2. CASE ~Descriptor!OnlyOnce(c.function) /\ s = "value"
      <4>1. v[f].len - n = 0
        BY ONLY <2>3, <3>2
      <4>2. p + n = e[m]
        BY ONLY <1>2, <1>3, <2>1, <4>1, n \in Nat
      <4> QED
        BY ONLY <1>1, <2>7, <4>2 DEF Complete
    <3> QED
      BY ONLY <3>1, <3>2
  <2>10. n = 0 => w = v
    BY <1>2, <1>3, <2>3 DEF Iovec, Shortened
  <2> QED
    BY <1>1, <2>6, <2>7, <2>8, <2>9, <2>10 DEF Proceeds
<1> QED
  BY <1>4, <1>5, <1>6

LEMMA AdvanceSound ==
  ASSUME NEW c, CallSound(c), c.state = "advancing", NEW d, d = Descriptor!Advance(c)
  PROVE  /\ Proceeds(c, d, 0) /\ d.state \in {"busy", "advancing", "value"}
         /\ d.state = "value" => Complete(d)
<1>1. PICK e, v, f, p, t, r, m, l :
        /\ e = c.ends /\ v = c.iov /\ f = c.first /\ r = c.r /\ t = c.totalBytes /\ p = t - r /\ m = Len(e)
        /\ l = v[f].len
  OBVIOUS
<1>2. /\ Shape(e) /\ Remaining(v, e, f, p) /\ f <= m /\ m \in Nat /\ f \in Nat /\ f >= 1 /\ p \in Nat
      /\ c \in CallRecord /\ r \in Nat /\ r > 0 /\ e[m] \in Nat /\ t <= e[m] /\ t \in Nat /\ r <= t
      /\ v \in Seq(Iovec) /\ Len(v) = m /\ Descriptor!Vectored(c.function)
  BY <1>1 DEF CallSound, CallRecord, Remaining, Shape
<1>3. v[f] \in Iovec /\ v[f].base = p /\ p + l = e[f] /\ l \in Nat /\ e[f] \in Nat /\ e[f] <= e[m]
  BY <1>1, <1>2, FirstBuffer
<1>4. CASE r >= l
  <2>1. PICK s : s = IF f + 1 > m THEN "value" ELSE IF r - l = 0 THEN "busy" ELSE "advancing"
    OBVIOUS
  <2>2. d = [c EXCEPT !.r = r - l, !.first = f + 1, !.state = s]
    <3>1. PICK next : next = [c EXCEPT !.r = @ - l, !.first = @ + 1]
      OBVIOUS
    <3>2. next.first = f + 1 /\ next.r = r - l /\ Len(next.iov) = m /\ next = [c EXCEPT !.r = r - l, !.first = f + 1]
          /\ next.state = "advancing"
      BY <1>1, <1>2, <3>1 DEF CallRecord
    <3>3. d = IF next.first > Len(next.iov) THEN [next EXCEPT !.state = "value"]
              ELSE IF next.r = 0 THEN [next EXCEPT !.state = "busy"] ELSE next
      BY <1>1, <1>4, <3>1 DEF Descriptor!Advance
    <3>4. d = [next EXCEPT !.state = s]
      <4>1. next = [next EXCEPT !.state = "advancing"]
        BY <1>2, <3>2 DEF CallRecord
      <4> QED
        BY <2>1, <3>2, <3>3, <4>1
    <3> QED
      BY <1>2, <3>2, <3>4 DEF CallRecord
  <2>3. r - l \in Nat /\ f + 1 \in Nat /\ s \in {"busy", "advancing", "value"}
    BY <1>2, <1>3, <1>4, <2>1
  <2>4. /\ d \in CallRecord /\ d.state = s /\ d.r = r - l /\ d.ends = e /\ d.function = c.function
        /\ d.first = f + 1 /\ d.iov = v /\ d.totalBytes = t
    BY <1>1, <1>2, <2>2, <2>3 DEF CallRecord
  <2>5. t - (r - l) = e[f] /\ r - l <= t
    <3>1. p = t - r
      BY <1>1
    <3> QED
      BY ONLY <1>2, <1>3, <1>4, <3>1
  <2>6. f + 1 <= m => v[f + 1].base = e[f] /\ Descriptor!Before(e, f + 1) = e[f]
    <3>1. f + 1 <= m => v[f + 1].base = Descriptor!Before(e, f + 1)
      <4>1. \A k \in f .. m : k # f => v[k].base = Descriptor!Before(e, k)
        BY <1>1, <1>2 DEF Remaining
      <4>2. f + 1 <= m => f + 1 \in f .. m /\ f + 1 # f
        BY ONLY <1>2
      <4> QED
        BY ONLY <4>1, <4>2
    <3> QED
      BY <1>2, <3>1 DEF Descriptor!Before
  <2>7. Remaining(v, e, f + 1, e[f])
    <3>1. \A k \in f + 1 .. m : k \in f .. m /\ k # f
      BY <1>2
    <3>2. /\ \A k \in f .. m : v[k].base + v[k].len = e[k]
          /\ \A k \in f .. m : k # f => v[k].base = Descriptor!Before(e, k)
      BY <1>1, <1>2 DEF Remaining
    <3>3. /\ \A k \in f + 1 .. m : v[k].base + v[k].len = e[k]
          /\ \A k \in f + 1 .. m : k # f + 1 => v[k].base = Descriptor!Before(e, k)
      BY ONLY <3>1, <3>2
    <3>4. f + 1 \in 1 .. (m + 1) /\ (f + 1 = m + 1 => e[f] = e[m])
      BY ONLY <1>2
    <3>5. m = Len(e)
      BY <1>1
    <3> QED
      BY ONLY <1>2, <1>3, <2>6, <3>3, <3>4, <3>5 DEF Remaining
  <2>8. f + 1 > m => t = e[m] /\ r - l = 0
    <3>1. f + 1 > m => f = m
      BY ONLY <1>2
    <3> QED
      BY ONLY <1>2, <1>3, <1>4, <2>5, <3>1
  <2>9. s = "advancing" => r - l > 0
    BY <2>1, <2>3
  <2>10. s # "advancing" => r - l = 0
    BY <2>1, <2>8
  <2>11. s # "value" => f + 1 <= m
    BY <1>2, <2>1
  <2>12. CallSound(d)
    BY <1>1, <1>2, <2>3, <2>4, <2>5, <2>6, <2>7, <2>9, <2>10, <2>11 DEF CallSound
  <2>13. s = "value" => t = e[m]
    BY <1>2, <2>1, <2>8
  <2>14. Proceeds(c, d, 0)
    BY <1>1, <1>2, <2>4, <2>12 DEF Proceeds
  <2> QED
    BY <1>1, <2>3, <2>4, <2>13, <2>14 DEF Complete
<1>5. CASE r < l
  <2>1. PICK w : w = Shortened(v, f, r)
    OBVIOUS
  <2>2. Remaining(w, e, f, p + r) /\ w[f].len = l - r
    <3>1. r <= v[f].len /\ f <= Len(e) /\ l = v[f].len
      <4>1. l = v[f].len /\ m = Len(e)
        BY <1>1
      <4> QED
        BY ONLY <1>2, <1>3, <1>5, <4>1
    <3>2. Shape(e) /\ Remaining(v, e, f, p) /\ r \in Nat
      BY ONLY <1>2
    <3>3. Remaining(w, e, f, p + r) /\ w[f].len = v[f].len - r
      BY ONLY <2>1, <3>1, <3>2, ShortenSound
    <3> QED
      BY ONLY <3>1, <3>3
  <2>3. d = [c EXCEPT !.iov = w, !.r = 0, !.state = "busy"]
    <3>1. PICK next : next = [Descriptor!Shorten(c, c.r) EXCEPT !.r = 0]
      OBVIOUS
    <3>2. Descriptor!Shorten(c, c.r) = [c EXCEPT !.iov = w]
      BY <1>1, <1>2, <2>1, ShortenIs
    <3>3. next = [c EXCEPT !.iov = w, !.r = 0] /\ next.first = f /\ next.r = 0 /\ Len(next.iov) = m
      <4>1. Len(w) = m
        BY <1>1, <2>2 DEF Remaining
      <4> QED
        BY <1>1, <1>2, <3>1, <3>2, <4>1 DEF CallRecord
    <3>4. ~(c.r >= c.iov[c.first].len)
      BY <1>1, <1>2, <1>3, <1>5
    <3>5. d = [next EXCEPT !.state = "busy"]
      BY <1>2, <3>1, <3>3, <3>4 DEF Descriptor!Advance
    <3> QED
      BY <1>2, <3>3, <3>5 DEF CallRecord
  <2>4. w \in Seq(Iovec)
    BY <2>2 DEF Remaining
  <2>5. /\ d \in CallRecord /\ d.state = "busy" /\ d.r = 0 /\ d.ends = e /\ d.function = c.function
        /\ d.first = f /\ d.iov = w /\ d.totalBytes = t
    <3>1. e = c.ends /\ f = c.first /\ t = c.totalBytes /\ c \in CallRecord
      BY <1>1, <1>2
    <3> QED
      BY ONLY <2>3, <2>4, <3>1 DEF CallRecord
  <2>6. p + r = t /\ t - 0 = t /\ w[f].len # 0
    <3>1. p = t - r /\ w[f].len = l - r
      BY <1>1, <2>2
    <3> QED
      BY ONLY <1>2, <1>3, <1>5, <3>1
  <2>7. CallSound(d)
    BY <1>1, <1>2, <2>2, <2>5, <2>6 DEF CallSound
  <2> QED
    BY <1>1, <1>2, <2>5, <2>7 DEF Proceeds
<1> QED
  BY <1>2, <1>3, <1>4, <1>5

LEMMA CompleteKept ==
  ASSUME NEW c, NEW d, Complete(c), d.totalBytes = c.totalBytes, d.ends = c.ends, d.function = c.function
  PROVE  Complete(d)
BY DEF Complete, Descriptor!EmptyRun

LEMMA StateChanged ==
  ASSUME NEW c, CallSound(c), c.state \in {"ready", "busy"}, NEW s \in {"busy", "value", "error"},
         NEW d, d = [c EXCEPT !.state = s]
  PROVE  Proceeds(c, d, 0) /\ d.state = s
<1>1. c \in CallRecord /\ c.r = 0 /\ c.totalBytes \in Nat
  BY DEF CallSound, CallRecord
<1>2. /\ d \in CallRecord /\ d.state = s /\ d.r = c.r /\ d.ends = c.ends /\ d.function = c.function
      /\ d.first = c.first /\ d.iov = c.iov /\ d.totalBytes = c.totalBytes
  BY <1>1 DEF CallRecord
<1>3. CallSound(d)
  BY <1>1, <1>2 DEF CallSound
<1> QED
  BY <1>1, <1>2, <1>3 DEF Proceeds

LEMMA InterruptedSound ==
  ASSUME NEW c, CallSound(c), c.state = "busy", NEW d, d = Descriptor!Interrupted(c)
  PROVE  /\ Proceeds(c, d, 0) /\ d.state \in {"busy", "value"}
         /\ d.state = "value" => Complete(d)
<1>1. CASE Descriptor!Vectored(c.function) \/ c.iov[c.first].len # 0
  <2>1. d = c /\ c.totalBytes \in Nat
    BY <1>1 DEF Descriptor!Interrupted, CallSound, CallRecord
  <2> QED
    BY <2>1 DEF Proceeds
<1>2. CASE ~(Descriptor!Vectored(c.function) \/ c.iov[c.first].len # 0)
  <2>1. d = [c EXCEPT !.state = "value"]
    BY <1>2 DEF Descriptor!Interrupted
  <2>2. Proceeds(c, d, 0) /\ d.state = "value"
    BY <2>1, StateChanged
  <2>3. PICK e, v, f, p : e = c.ends /\ v = c.iov /\ f = c.first /\ p = c.totalBytes
    OBVIOUS
  <2>4. Shape(e) /\ Remaining(v, e, f, p) /\ Len(e) = 1 /\ f = 1 /\ p \in Nat
    BY <1>2, <2>3 DEF CallSound, CallRecord
  <2>5. p + v[f].len = e[f]
    BY <2>4, FirstBuffer
  <2>6. c.totalBytes = c.ends[Len(c.ends)]
    BY <1>2, <2>3, <2>4, <2>5
  <2>7. Complete(d)
    <3>1. d.totalBytes = c.totalBytes /\ d.ends = c.ends
      BY <2>2, <2>3, <2>4 DEF Proceeds
    <3> QED
      BY <2>6, <3>1 DEF Complete
  <2> QED
    BY <2>2, <2>7
<1> QED
  BY <1>1, <1>2

LEMMA CallStarts ==
  ASSUME NEW g \in {"writeFull", "writeNoInt", "writevFull", "readFull", "readNoInt", "readvFull"},
         NEW e \in SendEnds \cup RecvEnds, Descriptor!Vectored(g) \/ Len(e) = 1, NEW c, c = Descriptor!Call(g, e)
  PROVE  CallSound(c) /\ c.totalBytes = 0 /\ c.state = "ready" /\ c.ends = e /\ e[Len(e)] \in Nat
<1>1. Shape(e) /\ Len(e) \in Nat /\ Len(e) >= 1 /\ e \in Seq(Nat)
  BY TransferAssumption DEF Shape
<1>2. \A i \in 1 .. Len(e) : e[i] \in Nat
  BY <1>1
<1>3. \A k \in 1 .. Len(e) : Descriptor!Before(e, k) \in Nat /\ Descriptor!Before(e, k) <= e[k]
  <2> SUFFICES ASSUME NEW k \in 1 .. Len(e)
               PROVE  Descriptor!Before(e, k) \in Nat /\ Descriptor!Before(e, k) <= e[k]
    OBVIOUS
  <2>1. CASE k = 1
    BY <1>2, <2>1 DEF Descriptor!Before
  <2>2. CASE k # 1
    <3>1. k - 1 \in 1 .. Len(e) /\ k - 1 <= k
      BY <1>1, <2>2
    <3>2. e[k - 1] <= e[k] /\ e[k - 1] \in Nat
      BY <1>1, <1>2, <3>1 DEF Shape
    <3> QED
      BY <2>2, <3>2 DEF Descriptor!Before
  <2> QED
    BY <2>1, <2>2
<1>4. PICK v : v = [k \in 1 .. Len(e) |-> [base |-> Descriptor!Before(e, k), len |-> e[k] - Descriptor!Before(e, k)]]
  OBVIOUS
<1>5. \A k \in 1 .. Len(e) : v[k] \in Iovec /\ v[k].base = Descriptor!Before(e, k) /\ v[k].base + v[k].len = e[k]
  <2> SUFFICES ASSUME NEW k \in 1 .. Len(e)
               PROVE  v[k] \in Iovec /\ v[k].base = Descriptor!Before(e, k) /\ v[k].base + v[k].len = e[k]
    OBVIOUS
  <2>1. PICK b, l : b = Descriptor!Before(e, k) /\ l = e[k] - b
    OBVIOUS
  <2>2. b \in Nat /\ l \in Nat /\ b + l = e[k]
    BY <1>2, <1>3, <2>1
  <2>3. v[k] = [base |-> b, len |-> l]
    BY <1>4, <2>1
  <2> QED
    BY ONLY <2>1, <2>2, <2>3 DEF Iovec
<1>6. v \in Seq(Iovec) /\ Len(v) = Len(e)
  <2>1. v \in [1 .. Len(e) -> Iovec]
    BY <1>4, <1>5
  <2> QED
    BY ONLY <1>1, <2>1
<1>7. Remaining(v, e, 1, 0)
  <2>1. Descriptor!Before(e, 1) = 0
    BY DEF Descriptor!Before
  <2> QED
    BY <1>1, <1>5, <1>6, <2>1 DEF Remaining
<1>8. c = [function |-> g, ends |-> e, first |-> 1, r |-> 0, totalBytes |-> 0, state |-> "ready", iov |-> v]
  BY <1>4 DEF Descriptor!Call
<1>9. /\ c.function = g /\ c.ends = e /\ c.first = 1 /\ c.r = 0 /\ c.totalBytes = 0 /\ c.state = "ready"
      /\ c.iov = v /\ c \in CallRecord
  BY ONLY <1>1, <1>6, <1>8, g \in {"writeFull", "writeNoInt", "writevFull", "readFull", "readNoInt", "readvFull"}
  DEF CallRecord
<1>10. e[Len(e)] \in Nat /\ 0 <= e[Len(e)] /\ 0 - 0 = 0 /\ 1 <= Len(e)
  BY <1>1, <1>2
<1>11. CallSound(c)
  <2>1. Descriptor!Before(e, 1) = 0
    BY DEF Descriptor!Before
  <2> QED
    BY <1>1, <1>7, <1>9, <1>10, <2>1 DEF CallSound
<1> QED
  BY <1>9, <1>10, <1>11

\* The bytes of the call c that have not reached the call d are in the pipe q.
Arrived(c, d, q, mem) ==
  /\ CallSound(c) /\ CallSound(d) /\ q \in Seq(Nat) /\ c.totalBytes = d.totalBytes + Len(q)
  /\ \A i \in 1 .. Len(q) : q[i] = d.totalBytes + i
  /\ DOMAIN mem = 1 .. d.ends[Len(d.ends)]
  /\ \A a \in 1 .. d.ends[Len(d.ends)] : mem[a] = IF a <= d.totalBytes THEN a ELSE 0

\* What the values mean.  Only a closed write end is the end of the file, and the sender has
\* one that is open.
Returns(c, d, q, open) ==
  /\ c.state = "value" => Complete(c)
  /\ d.state = "value" => Complete(d) \/ (q = <<>> /\ open = {})
  /\ Descriptor!InCall(c) => open # {}

OwnerTypes == pipeFd \in [Objects -> Int] /\ raw \in Int
DescriptorInv ==
  /\ Arrived(sender, receiver, pipe, memory) /\ Returns(sender, receiver, pipe, openFds)
  /\ OwnerTypes /\ Descriptor!OwnedOnce

\* Bytes that are written ...
LEMMA SendArrives ==
  ASSUME NEW c, NEW d, NEW q, NEW mem, Arrived(c, d, q, mem), NEW n \in Nat, NEW c2, Proceeds(c, c2, n),
         NEW bytes \in [1 .. n -> Nat], \A i \in 1 .. n : bytes[i] = c.totalBytes + i
  PROVE  Arrived(c2, d, q \o bytes, mem)
<1>1. PICK p, t, z : p = d.totalBytes /\ t = c.totalBytes /\ z = q \o bytes
  OBVIOUS
<1>2. p \in Nat /\ t \in Nat /\ q \in Seq(Nat) /\ t = p + Len(q) /\ Len(q) \in Nat /\ \A i \in 1 .. Len(q) : q[i] = p + i
  BY <1>1 DEF Arrived, CallSound, CallRecord
<1>3. bytes \in Seq(Nat) /\ Len(bytes) = n
  OBVIOUS
<1>4. /\ z \in Seq(Nat) /\ Len(z) = Len(q) + n
      /\ \A i \in 1 .. Len(q) + n : z[i] = IF i <= Len(q) THEN q[i] ELSE bytes[i - Len(q)]
  <2>1. z = q \o bytes /\ q \in Seq(Nat)
    BY ONLY <1>1, <1>2
  <2>2. z \in Seq(Nat)
    BY ONLY <1>3, <2>1
  <2>4. Len(z) = Len(q) + Len(bytes)
    <3>1. \A x, y \in Seq(Nat) : Len(x \o y) = Len(x) + Len(y)
      OBVIOUS
    <3> QED
      BY ONLY <1>3, <2>1, <3>1
  <2>3. \A i \in 1 .. Len(q) + Len(bytes) : z[i] = IF i <= Len(q) THEN q[i] ELSE bytes[i - Len(q)]
    BY ONLY <1>3, <2>1
  <2> QED
    BY ONLY <1>3, <2>2, <2>3, <2>4
<1>5. ASSUME NEW i \in 1 .. Len(z) PROVE z[i] = p + i
  <2>1. CASE i <= Len(q)
    <3>1. i \in 1 .. Len(q) /\ i \in 1 .. Len(q) + n
      BY ONLY <1>2, <1>4, <2>1, n \in Nat, i \in 1 .. Len(z)
    <3> QED
      BY ONLY <1>2, <1>4, <2>1, <3>1
  <2>2. CASE i > Len(q)
    <3>1. i - Len(q) \in 1 .. n
      BY <1>2, <1>4, <2>2
    <3>2. z[i] = bytes[i - Len(q)]
      BY <1>2, <1>4, <2>2
    <3>3. bytes[i - Len(q)] = t + (i - Len(q))
      BY <1>1, <3>1
    <3> QED
      BY ONLY <1>2, <1>4, <3>1, <3>2, <3>3
  <2> QED
    BY <1>2, <1>4, <2>1, <2>2
<1>6. CallSound(c2) /\ c2.totalBytes = t + n
  BY <1>1 DEF Proceeds
<1>7. c2.totalBytes = p + Len(z)
  BY ONLY <1>2, <1>4, <1>6, n \in Nat
<1> QED
  BY <1>1, <1>4, <1>5, <1>6, <1>7 DEF Arrived

\* ... and read.
Filled(mem, q, b, n) ==
  [a \in DOMAIN mem |-> IF \E i \in 1 .. n : b[i] = a THEN q[CHOOSE i \in 1 .. n : b[i] = a] ELSE mem[a]]

LEMMA ReceiveArrives ==
  ASSUME NEW c, NEW d, NEW q, NEW mem, Arrived(c, d, q, mem), NEW n \in 0 .. Len(q), NEW d2, Proceeds(d, d2, n),
         NEW bytes \in [1 .. n -> Nat], \A i \in 1 .. n : bytes[i] = d.totalBytes + i
  PROVE  Arrived(c, d2, SubSeq(q, n + 1, Len(q)), Filled(mem, q, bytes, n))
<1>0. PICK mem2 : mem2 = Filled(mem, q, bytes, n)
  OBVIOUS
<1>1. PICK p, t, z, u : p = d.totalBytes /\ t = c.totalBytes /\ z = SubSeq(q, n + 1, Len(q)) /\ u = d.ends[Len(d.ends)]
  OBVIOUS
<1>2. /\ p \in Nat /\ t \in Nat /\ q \in Seq(Nat) /\ t = p + Len(q) /\ Len(q) \in Nat
      /\ \A i \in 1 .. Len(q) : q[i] = p + i
  BY <1>1 DEF Arrived, CallSound, CallRecord
<1>3. n \in Nat /\ n <= Len(q)
  BY <1>2
<1>4. /\ z \in Seq(Nat) /\ Len(z) = Len(q) - n /\ \A i \in 1 .. Len(q) - n : z[i] = q[n + i]
  BY ONLY <1>1, <1>2, <1>3
<1>5. CallSound(d2) /\ d2.totalBytes = p + n /\ d2.ends = d.ends
  BY <1>1 DEF Proceeds
<1>6. ASSUME NEW i \in 1 .. Len(z) PROVE z[i] = (p + n) + i
  <2>1. n + i \in 1 .. Len(q) /\ i \in 1 .. Len(q) - n
    BY ONLY <1>2, <1>3, <1>4, i \in 1 .. Len(z)
  <2>2. z[i] = p + (n + i)
    BY ONLY <1>2, <1>4, <2>1
  <2> QED
    BY ONLY <1>2, <1>3, <1>4, <2>1, <2>2
<1>7. t = (p + n) + Len(z)
  BY ONLY <1>2, <1>3, <1>4
<1>8. u \in Nat /\ DOMAIN mem = 1 .. u /\ \A a \in 1 .. u : mem[a] = IF a <= p THEN a ELSE 0
  <2>1. Shape(d.ends)
    BY DEF Arrived, CallSound
  <2>2. u \in Nat
    BY <1>1, <2>1 DEF Shape
  <2> QED
    BY <1>1, <2>2 DEF Arrived
<1>9. \A i \in 1 .. n : bytes[i] = p + i
  BY <1>1
<1>10. ASSUME NEW a \in 1 .. u PROVE mem2[a] = IF a <= p + n THEN a ELSE 0
  <2>1. mem2[a] = IF \E i \in 1 .. n : bytes[i] = a THEN q[CHOOSE i \in 1 .. n : bytes[i] = a] ELSE mem[a]
    BY <1>0, <1>8 DEF Filled
  <2>2. CASE \E i \in 1 .. n : bytes[i] = a
    <3>1. PICK i : i = CHOOSE j \in 1 .. n : bytes[j] = a
      OBVIOUS
    <3>2. i \in 1 .. n /\ bytes[i] = a
      BY <2>2, <3>1
    <3>3. a = p + i /\ i \in 1 .. Len(q)
      BY ONLY <1>2, <1>3, <1>9, <3>2
    <3>4. q[i] = p + i
      BY ONLY <1>2, <3>3
    <3>5. mem2[a] = q[i]
      BY <2>1, <2>2, <3>1
    <3> QED
      BY ONLY <1>2, <1>3, <3>2, <3>3, <3>4, <3>5
  <2>3. CASE ~\E i \in 1 .. n : bytes[i] = a
    <3>1. ~(a > p /\ a <= p + n)
      <4>1. a > p /\ a <= p + n => a - p \in 1 .. n /\ p + (a - p) = a
        BY ONLY <1>2, <1>3, <1>8, a \in 1 .. u
      <4> QED
        BY ONLY <1>9, <2>3, <4>1
    <3>2. mem2[a] = mem[a] /\ mem[a] = IF a <= p THEN a ELSE 0
      BY <1>8, <2>1, <2>3
    <3> QED
      BY ONLY <1>2, <1>3, <1>8, <3>1, <3>2, a \in 1 .. u
  <2> QED
    BY <2>2, <2>3
<1>11. DOMAIN mem2 = 1 .. u
  BY <1>0, <1>8 DEF Filled
<1>12. CallSound(c)
  BY DEF Arrived
<1>13. d2.ends[Len(d2.ends)] = u /\ c.totalBytes = d2.totalBytes + Len(z)
  BY ONLY <1>1, <1>5, <1>7
<1>14. \A i \in 1 .. Len(z) : z[i] = d2.totalBytes + i
  BY ONLY <1>5, <1>6
<1>15. \A a \in 1 .. u : mem2[a] = IF a <= d2.totalBytes THEN a ELSE 0
  BY ONLY <1>5, <1>10
<1>16. Arrived(c, d2, z, mem2)
  BY ONLY <1>4, <1>5, <1>11, <1>12, <1>13, <1>14, <1>15 DEF Arrived
<1> QED
  BY <1>0, <1>1, <1>16

\* A step that moves no bytes.
LEMMA NothingArrives ==
  ASSUME NEW c, NEW d, NEW q, NEW mem, Arrived(c, d, q, mem), NEW c2, NEW d2,
         c2 = c \/ Proceeds(c, c2, 0), d2 = d \/ Proceeds(d, d2, 0)
  PROVE  Arrived(c2, d2, q, mem)
<1>1. c.totalBytes \in Nat /\ d.totalBytes \in Nat
  BY DEF Arrived, CallSound, CallRecord
<1>2. CallSound(c2) /\ c2.totalBytes = c.totalBytes
  BY <1>1 DEF Proceeds, Arrived
<1>3. CallSound(d2) /\ d2.totalBytes = d.totalBytes /\ d2.ends = d.ends
  BY <1>1 DEF Proceeds, Arrived
<1> QED
  BY <1>2, <1>3 DEF Arrived

LEMMA OwnersKept ==
  OwnerTypes /\ Descriptor!OwnedOnce /\ UNCHANGED <<pipeFd, raw, openFds>> => OwnerTypes' /\ Descriptor!OwnedOnce'
BY DEF OwnerTypes, Descriptor!OwnedOnce, Descriptor!kInvalid

\* The sender's thread is the only one that uses the write end.
LEMMA SenderMoves ==
  ASSUME DescriptorInv, sender.state \in {"busy", "advancing"}, UNCHANGED <<pipeFd, raw, openFds, receiver>>,
         Arrived(sender', receiver', pipe', memory'), sender'.state = "value" => Complete(sender')
  PROVE  DescriptorInv'
<1>1. openFds # {}
  BY DEF DescriptorInv, Returns, Descriptor!InCall
<1>2. Returns(sender', receiver', pipe', openFds')
  BY <1>1 DEF DescriptorInv, Returns
<1> QED
  BY <1>2, OwnersKept DEF DescriptorInv

LEMMA ReceiverMoves ==
  ASSUME DescriptorInv, UNCHANGED <<pipeFd, raw, openFds, sender>>,
         Arrived(sender', receiver', pipe', memory'),
         receiver'.state = "value" => Complete(receiver') \/ (pipe' = <<>> /\ openFds' = {})
  PROVE  DescriptorInv'
<1>1. Returns(sender', receiver', pipe', openFds')
  BY DEF DescriptorInv, Returns
<1> QED
  BY <1>1, OwnersKept DEF DescriptorInv

LEMMA SendStepKeeps == DescriptorInv /\ Descriptor!SendStep => DescriptorInv'
<1> SUFFICES ASSUME DescriptorInv, Descriptor!SendStep PROVE DescriptorInv'
  OBVIOUS
<1>1. /\ sender.state = "busy" /\ CallSound(sender) /\ Arrived(sender, receiver, pipe, memory)
      /\ UNCHANGED <<pipeFd, raw, openFds, memory, receiver>>
  BY DEF DescriptorInv, Arrived, Descriptor!SendStep
<1>2. PICK n \in 0 .. Capacity - Len(pipe) : \E b \in Descriptor!FirstBytes(sender, n) :
        /\ n = 0 => Descriptor!Offered(sender) = {}
        /\ pipe' = pipe \o b /\ sender' = Descriptor!Returned(sender, n, FALSE)
  BY DEF Descriptor!SendStep
<1>3. PICK b \in Descriptor!FirstBytes(sender, n) :
        /\ n = 0 => Descriptor!Offered(sender) = {}
        /\ pipe' = pipe \o b /\ sender' = Descriptor!Returned(sender, n, FALSE)
  BY <1>2
<1>4. n \in Nat
  OBVIOUS
<1>5. PICK p, q, u : p = sender.totalBytes /\ q = sender.ends[LastOf(sender)] /\ u = sender.ends[Len(sender.ends)]
  OBVIOUS
<1>6. p \in Nat /\ q \in Nat /\ q <= u /\ Descriptor!Offered(sender) = (p + 1) .. q /\ p <= u
  <2>1. p \in Nat /\ p <= u
    BY <1>1, <1>5 DEF CallSound, CallRecord
  <2> QED
    BY <1>1, <1>5, <2>1, OfferedBytes
<1>7. b \in [1 .. n -> Nat] /\ (\A i \in 1 .. n : b[i] = p + i) /\ (n = 0 \/ p + n <= q)
  BY <1>3, <1>4, <1>6, BytesInOrder
<1>8. p + n <= u
  <2>1. u \in Nat
    BY <1>1, <1>5 DEF CallSound, Shape
  <2> QED
    BY ONLY <1>4, <1>6, <1>7, <2>1
<1>9. Proceeds(sender, sender', n) /\ (sender'.state = "value" => n = 0 \/ Complete(sender'))
  BY <1>1, <1>3, <1>4, <1>5, <1>8, ReturnedSound
<1>10. Arrived(sender', receiver, pipe \o b, memory)
  BY <1>1, <1>4, <1>5, <1>7, <1>9, SendArrives
<1>11. n = 0 => Complete(sender')
  <2>1. n = 0 => Complete(sender)
    BY <1>1, <1>3, NothingOffered
  <2>2. n = 0 => sender'.totalBytes = sender.totalBytes
    BY <1>5, <1>6, <1>9 DEF Proceeds
  <2>3. sender'.ends = sender.ends /\ sender'.function = sender.function
    BY <1>9 DEF Proceeds
  <2> QED
    BY <2>1, <2>2, <2>3, CompleteKept
<1> QED
  BY <1>1, <1>3, <1>9, <1>10, <1>11, SenderMoves

LEMMA SendAdvanceKeeps == DescriptorInv /\ Descriptor!SendAdvance => DescriptorInv'
<1> SUFFICES ASSUME DescriptorInv, Descriptor!SendAdvance PROVE DescriptorInv'
  OBVIOUS
<1>1. /\ sender.state = "advancing" /\ sender' = Descriptor!Advance(sender) /\ CallSound(sender)
      /\ Arrived(sender, receiver, pipe, memory) /\ UNCHANGED <<pipeFd, raw, openFds, pipe, memory, receiver>>
  BY DEF DescriptorInv, Arrived, Descriptor!SendAdvance
<1>2. Proceeds(sender, sender', 0) /\ (sender'.state = "value" => Complete(sender'))
  BY <1>1, AdvanceSound
<1>3. Arrived(sender', receiver', pipe', memory')
  BY <1>1, <1>2, NothingArrives
<1> QED
  BY <1>1, <1>2, <1>3, SenderMoves

LEMMA ReceiveStepKeeps == DescriptorInv /\ Descriptor!ReceiveStep => DescriptorInv'
<1> SUFFICES ASSUME DescriptorInv, Descriptor!ReceiveStep PROVE DescriptorInv'
  OBVIOUS
<1>1. /\ receiver.state = "busy" /\ CallSound(receiver) /\ Arrived(sender, receiver, pipe, memory)
      /\ UNCHANGED <<pipeFd, raw, openFds, sender>> /\ pipe \in Seq(Nat)
  BY DEF DescriptorInv, Arrived, Descriptor!ReceiveStep
<1>2. PICK n \in 0 .. Len(pipe) : \E b \in Descriptor!FirstBytes(receiver, n) :
        /\ n = 0 => Descriptor!Offered(receiver) = {} \/ (pipe = <<>> /\ openFds = {})
        /\ memory' = Filled(memory, pipe, b, n) /\ pipe' = SubSeq(pipe, n + 1, Len(pipe))
        /\ receiver' = Descriptor!Returned(receiver, n, TRUE)
  BY DEF Descriptor!ReceiveStep, Filled
<1>3. PICK b \in Descriptor!FirstBytes(receiver, n) :
        /\ n = 0 => Descriptor!Offered(receiver) = {} \/ (pipe = <<>> /\ openFds = {})
        /\ memory' = Filled(memory, pipe, b, n) /\ pipe' = SubSeq(pipe, n + 1, Len(pipe))
        /\ receiver' = Descriptor!Returned(receiver, n, TRUE)
  BY <1>2
<1>4. n \in Nat
  BY <1>1
<1>5. PICK p, q, u : p = receiver.totalBytes /\ q = receiver.ends[LastOf(receiver)] /\ u = receiver.ends[Len(receiver.ends)]
  OBVIOUS
<1>6. p \in Nat /\ q \in Nat /\ q <= u /\ Descriptor!Offered(receiver) = (p + 1) .. q /\ p <= u
  <2>1. p \in Nat /\ p <= u
    BY <1>1, <1>5 DEF CallSound, CallRecord
  <2> QED
    BY <1>1, <1>5, <2>1, OfferedBytes
<1>7. b \in [1 .. n -> Nat] /\ (\A i \in 1 .. n : b[i] = p + i) /\ (n = 0 \/ p + n <= q)
  BY <1>3, <1>4, <1>6, BytesInOrder
<1>8. p + n <= u
  <2>1. u \in Nat
    BY <1>1, <1>5 DEF CallSound, Shape
  <2> QED
    BY ONLY <1>4, <1>6, <1>7, <2>1
<1>9. Proceeds(receiver, receiver', n) /\ (receiver'.state = "value" => n = 0 \/ Complete(receiver'))
  BY <1>1, <1>3, <1>4, <1>5, <1>8, ReturnedSound
<1>10. Arrived(sender, receiver', pipe', memory')
  <2>1. memory' = Filled(memory, pipe, b, n)
    BY <1>3
  <2>2. Arrived(sender, receiver', SubSeq(pipe, n + 1, Len(pipe)), memory')
    BY <1>1, <1>5, <1>7, <1>9, <2>1, ReceiveArrives
  <2> QED
    BY <1>3, <2>2
<1>11. n = 0 => Complete(receiver') \/ (pipe' = <<>> /\ openFds' = {})
  <2>1. ASSUME n = 0, Descriptor!Offered(receiver) = {} PROVE Complete(receiver')
    <3>1. Complete(receiver)
      BY <1>1, <2>1, NothingOffered
    <3>2. receiver'.totalBytes = receiver.totalBytes /\ receiver'.ends = receiver.ends /\ receiver'.function = receiver.function
      BY <1>5, <1>6, <1>9, <2>1 DEF Proceeds
    <3> QED
      BY <3>1, <3>2, CompleteKept
  <2>2. ASSUME n = 0, pipe = <<>>, openFds = {} PROVE pipe' = <<>> /\ openFds' = {}
    <3>1. pipe' = SubSeq(pipe, 1, 0)
      BY <1>3, <2>2
    <3> QED
      BY <1>1, <2>2, <3>1
  <2> QED
    BY <1>3, <2>1, <2>2
<1> QED
  BY <1>1, <1>9, <1>10, <1>11, ReceiverMoves

LEMMA ReceiveAdvanceKeeps == DescriptorInv /\ Descriptor!ReceiveAdvance => DescriptorInv'
<1> SUFFICES ASSUME DescriptorInv, Descriptor!ReceiveAdvance PROVE DescriptorInv'
  OBVIOUS
<1>1. /\ receiver.state = "advancing" /\ receiver' = Descriptor!Advance(receiver) /\ CallSound(receiver)
      /\ Arrived(sender, receiver, pipe, memory) /\ UNCHANGED <<pipeFd, raw, openFds, pipe, memory, sender>>
  BY DEF DescriptorInv, Arrived, Descriptor!ReceiveAdvance
<1>2. Proceeds(receiver, receiver', 0) /\ (receiver'.state = "value" => Complete(receiver'))
  BY <1>1, AdvanceSound
<1>3. Arrived(sender', receiver', pipe', memory')
  BY <1>1, <1>2, NothingArrives
<1> QED
  BY <1>1, <1>2, <1>3, ReceiverMoves

LEMMA InterruptKeeps == DescriptorInv /\ Descriptor!Interrupt => DescriptorInv'
<1> SUFFICES ASSUME DescriptorInv, Descriptor!Interrupt PROVE DescriptorInv'
  OBVIOUS
<1>1. /\ Arrived(sender, receiver, pipe, memory) /\ UNCHANGED <<pipeFd, raw, openFds, pipe, memory>>
      /\ CallSound(sender) /\ CallSound(receiver)
  BY DEF DescriptorInv, Arrived, Descriptor!Interrupt
<1>2. CASE sender.state = "busy" /\ sender' = Descriptor!Interrupted(sender) /\ UNCHANGED receiver
  <2>1. Proceeds(sender, sender', 0) /\ (sender'.state = "value" => Complete(sender'))
    BY <1>1, <1>2, InterruptedSound
  <2>2. Arrived(sender', receiver', pipe', memory')
    BY <1>1, <1>2, <2>1, NothingArrives
  <2> QED
    BY <1>1, <1>2, <2>1, <2>2, SenderMoves
<1>3. CASE receiver.state = "busy" /\ receiver' = Descriptor!Interrupted(receiver) /\ UNCHANGED sender
  <2>1. Proceeds(receiver, receiver', 0) /\ (receiver'.state = "value" => Complete(receiver'))
    BY <1>1, <1>3, InterruptedSound
  <2>2. Arrived(sender', receiver', pipe', memory')
    BY <1>1, <1>3, <2>1, NothingArrives
  <2> QED
    BY <1>1, <1>3, <2>1, <2>2, ReceiverMoves
<1> QED
  BY <1>2, <1>3 DEF Descriptor!Interrupt

LEMMA FailsKeeps == DescriptorInv /\ Descriptor!Fails => DescriptorInv'
<1> SUFFICES ASSUME DescriptorInv, Descriptor!Fails PROVE DescriptorInv'
  OBVIOUS
<1>1. /\ Arrived(sender, receiver, pipe, memory) /\ UNCHANGED <<pipeFd, raw, openFds, pipe, memory>>
      /\ CallSound(sender) /\ CallSound(receiver)
  BY DEF DescriptorInv, Arrived, Descriptor!Fails
<1>2. CASE sender.state = "busy" /\ sender' = [sender EXCEPT !.state = "error"] /\ UNCHANGED receiver
  <2>1. Proceeds(sender, sender', 0) /\ sender'.state = "error"
    BY <1>1, <1>2, StateChanged
  <2>2. Arrived(sender', receiver', pipe', memory')
    BY <1>1, <1>2, <2>1, NothingArrives
  <2> QED
    BY <1>1, <1>2, <2>1, <2>2, SenderMoves
<1>3. CASE receiver.state = "busy" /\ receiver' = [receiver EXCEPT !.state = "error"] /\ UNCHANGED sender
  <2>1. Proceeds(receiver, receiver', 0) /\ receiver'.state = "error"
    BY <1>1, <1>3, StateChanged
  <2>2. Arrived(sender', receiver', pipe', memory')
    BY <1>1, <1>3, <2>1, NothingArrives
  <2> QED
    BY <1>1, <1>3, <2>1, <2>2, ReceiverMoves
<1> QED
  BY <1>2, <1>3 DEF Descriptor!Fails

LEMMA StartSendKeeps == DescriptorInv /\ Descriptor!StartSend => DescriptorInv'
<1> SUFFICES ASSUME DescriptorInv, Descriptor!StartSend PROVE DescriptorInv'
  OBVIOUS
<1>1. /\ Arrived(sender, receiver, pipe, memory) /\ UNCHANGED <<pipeFd, raw, openFds, pipe, memory, receiver>>
      /\ CallSound(sender) /\ sender.state = "ready" /\ sender' = [sender EXCEPT !.state = "busy"]
  BY DEF DescriptorInv, Arrived, Descriptor!StartSend
<1>2. Proceeds(sender, sender', 0) /\ sender'.state = "busy"
  BY <1>1, StateChanged
<1>3. Arrived(sender', receiver', pipe', memory')
  BY <1>1, <1>2, NothingArrives
<1>4. openFds # {}
  BY DEF DescriptorInv, Descriptor!StartSend, Descriptor!OwnedOnce
<1>5. Returns(sender', receiver', pipe', openFds')
  BY <1>1, <1>2, <1>4 DEF DescriptorInv, Returns
<1> QED
  BY <1>1, <1>3, <1>5, OwnersKept DEF DescriptorInv

LEMMA StartReceiveKeeps == DescriptorInv /\ Descriptor!StartReceive => DescriptorInv'
<1> SUFFICES ASSUME DescriptorInv, Descriptor!StartReceive PROVE DescriptorInv'
  OBVIOUS
<1>1. /\ Arrived(sender, receiver, pipe, memory) /\ UNCHANGED <<pipeFd, raw, openFds, pipe, memory, sender>>
      /\ CallSound(receiver) /\ receiver.state = "ready" /\ receiver' = [receiver EXCEPT !.state = "busy"]
  BY DEF DescriptorInv, Arrived, Descriptor!StartReceive
<1>2. Proceeds(receiver, receiver', 0) /\ receiver'.state = "busy"
  BY <1>1, StateChanged
<1>3. Arrived(sender', receiver', pipe', memory')
  BY <1>1, <1>2, NothingArrives
<1> QED
  BY <1>1, <1>2, <1>3, ReceiverMoves

\* The sender's thread, between its calls, changes who owns the write end.
LEMMA OwnerMoves ==
  ASSUME DescriptorInv, Descriptor!Owner, OwnerTypes', Descriptor!OwnedOnce', openFds = {} => openFds' = {}
  PROVE  DescriptorInv'
<1>1. ~Descriptor!InCall(sender) /\ UNCHANGED <<pipe, memory, sender, receiver>>
  BY DEF Descriptor!Owner
<1>2. Returns(sender', receiver', pipe', openFds')
  BY <1>1 DEF DescriptorInv, Returns
<1> QED
  BY <1>1, <1>2 DEF DescriptorInv

\* OwnedOnce by its members.
OwnsEach(f, r, open) ==
  /\ \A x : x \in open <=> x # -1 /\ (x = r \/ \E o \in Objects : f[o] = x)
  /\ \A o, p \in Objects : f[o] = f[p] /\ f[o] # -1 => o = p
  /\ \A o \in Objects : f[o] = r => r = -1

LEMMA OwnsEachIs == OwnsEach(pipeFd, raw, openFds) <=> Descriptor!OwnedOnce
BY DEF OwnsEach, Descriptor!OwnedOnce, Descriptor!kInvalid

LEMMA OwnsEachNext == OwnsEach(pipeFd', raw', openFds') => Descriptor!OwnedOnce'
BY DEF OwnsEach, Descriptor!OwnedOnce, Descriptor!kInvalid

LEMMA CloseKeeps == ASSUME DescriptorInv, NEW o \in Objects, Descriptor!Close(o) PROVE DescriptorInv'
<1>1. /\ Descriptor!Owner /\ openFds' = openFds \ {pipeFd[o]} /\ pipeFd' = [pipeFd EXCEPT ![o] = -1] /\ raw' = raw
  BY DEF Descriptor!Close, Descriptor!kInvalid
<1>2. OwnsEach(pipeFd, raw, openFds) /\ pipeFd \in [Objects -> Int] /\ raw \in Int
  BY OwnsEachIs DEF DescriptorInv, OwnerTypes
<1>3. \A p \in Objects : pipeFd'[p] = IF p = o THEN -1 ELSE pipeFd[p]
  BY <1>1, <1>2
<1>4. OwnsEach(pipeFd', raw', openFds')
  BY ONLY <1>1, <1>2, <1>3, o \in Objects DEF OwnsEach
<1>5. OwnerTypes'
  BY <1>1, <1>2 DEF OwnerTypes
<1> QED
  BY <1>1, <1>4, <1>5, OwnsEachNext, OwnerMoves

LEMMA ReleaseKeeps == ASSUME DescriptorInv, NEW o \in Objects, Descriptor!Release(o) PROVE DescriptorInv'
<1>1. /\ Descriptor!Owner /\ raw = -1 /\ raw' = pipeFd[o] /\ pipeFd' = [pipeFd EXCEPT ![o] = -1] /\ openFds' = openFds
  BY DEF Descriptor!Release, Descriptor!kInvalid
<1>2. OwnsEach(pipeFd, raw, openFds) /\ pipeFd \in [Objects -> Int] /\ raw \in Int
  BY OwnsEachIs DEF DescriptorInv, OwnerTypes
<1>3. \A p \in Objects : pipeFd'[p] = IF p = o THEN -1 ELSE pipeFd[p]
  BY <1>1, <1>2
<1>4. OwnsEach(pipeFd', raw', openFds')
  BY ONLY <1>1, <1>2, <1>3, o \in Objects DEF OwnsEach
<1>5. OwnerTypes'
  BY <1>1, <1>2 DEF OwnerTypes
<1> QED
  BY <1>1, <1>4, <1>5, OwnsEachNext, OwnerMoves

LEMMA AssignIs ==
  ASSUME NEW to \in Objects, NEW new, NEW from, Descriptor!Assign(to, new, from), OwnerTypes, new \in Int
  PROVE  /\ \A p \in Objects : pipeFd'[p] = IF p = to THEN new ELSE IF p = from THEN -1 ELSE pipeFd[p]
         /\ pipeFd' \in [Objects -> Int]
         /\ \A x : x \in openFds' <=> x # -1 /\ x # pipeFd[to] /\ (x \in openFds \/ x = new)
BY DEF Descriptor!Assign, Descriptor!kInvalid, OwnerTypes

LEMMA MoveFromKeeps ==
  ASSUME DescriptorInv, NEW from \in Objects, NEW to \in Objects, Descriptor!MoveFrom(from, to) PROVE DescriptorInv'
<1>1. PICK new : new = IF from = to THEN -1 ELSE pipeFd[from]
  OBVIOUS
<1>2. Descriptor!Owner /\ Descriptor!Assign(to, new, from) /\ raw' = raw
  BY <1>1 DEF Descriptor!MoveFrom, Descriptor!kInvalid
<1>3. OwnsEach(pipeFd, raw, openFds) /\ OwnerTypes /\ new \in Int
  BY <1>1, OwnsEachIs DEF DescriptorInv, OwnerTypes
<1>4. /\ \A p \in Objects : pipeFd'[p] = IF p = to THEN new ELSE IF p = from THEN -1 ELSE pipeFd[p]
      /\ pipeFd' \in [Objects -> Int]
      /\ \A x : x \in openFds' <=> x # -1 /\ x # pipeFd[to] /\ (x \in openFds \/ x = new)
  BY <1>2, <1>3, AssignIs
<1>5. OwnsEach(pipeFd', raw', openFds')
  BY ONLY <1>1, <1>2, <1>3, <1>4, from \in Objects, to \in Objects DEF OwnsEach
<1>6. OwnerTypes' /\ (openFds = {} => openFds' = {})
  BY <1>1, <1>2, <1>3, <1>4 DEF OwnerTypes, OwnsEach
<1> QED
  BY <1>2, <1>5, <1>6, OwnsEachNext, OwnerMoves

LEMMA DuplicateKeeps ==
  ASSUME DescriptorInv, NEW from \in Objects, NEW to \in Objects, Descriptor!Duplicate(from, to) PROVE DescriptorInv'
<1>1. PICK new \in Descriptor!Free : Descriptor!Assign(to, new, "temporary")
  BY DEF Descriptor!Duplicate
<1>2. Descriptor!Owner /\ raw' = raw /\ pipeFd[from] # -1
  BY DEF Descriptor!Duplicate, Descriptor!kInvalid
<1>3. OwnsEach(pipeFd, raw, openFds) /\ OwnerTypes
  BY OwnsEachIs DEF DescriptorInv, OwnerTypes
<1>4. new \in Int /\ new # -1 /\ new \notin openFds /\ "temporary" \notin Objects
  BY FdAssumption, TransferAssumption DEF Descriptor!Free, Descriptor!Fds
<1>5. /\ \A p \in Objects : pipeFd'[p] = IF p = to THEN new ELSE IF p = "temporary" THEN -1 ELSE pipeFd[p]
      /\ pipeFd' \in [Objects -> Int]
      /\ \A x : x \in openFds' <=> x # -1 /\ x # pipeFd[to] /\ (x \in openFds \/ x = new)
  BY <1>1, <1>3, <1>4, AssignIs
<1>6. \A p \in Objects : pipeFd'[p] = IF p = to THEN new ELSE pipeFd[p]
  BY <1>4, <1>5
<1>7. OwnsEach(pipeFd', raw', openFds')
  BY ONLY <1>2, <1>3, <1>4, <1>5, <1>6, to \in Objects DEF OwnsEach
<1>8. OwnerTypes' /\ openFds # {}
  BY <1>2, <1>3, <1>5 DEF OwnerTypes, OwnsEach
<1> QED
  BY <1>2, <1>7, <1>8, OwnsEachNext, OwnerMoves

LEMMA AdoptKeeps == ASSUME DescriptorInv, NEW to \in Objects, Descriptor!Adopt(to) PROVE DescriptorInv'
<1>1. Descriptor!Owner /\ raw # -1 /\ Descriptor!Assign(to, raw, "temporary") /\ raw' = -1
  BY DEF Descriptor!Adopt, Descriptor!kInvalid
<1>2. OwnsEach(pipeFd, raw, openFds) /\ OwnerTypes /\ raw \in Int
  BY OwnsEachIs DEF DescriptorInv, OwnerTypes
<1>3. /\ \A p \in Objects : pipeFd'[p] = IF p = to THEN raw ELSE IF p = "temporary" THEN -1 ELSE pipeFd[p]
      /\ pipeFd' \in [Objects -> Int]
      /\ \A x : x \in openFds' <=> x # -1 /\ x # pipeFd[to] /\ (x \in openFds \/ x = raw)
  BY <1>1, <1>2, AssignIs
<1>4. \A p \in Objects : pipeFd'[p] = IF p = to THEN raw ELSE pipeFd[p]
  BY <1>3, TransferAssumption
<1>5. OwnsEach(pipeFd', raw', openFds')
  BY ONLY <1>1, <1>2, <1>3, <1>4, to \in Objects DEF OwnsEach
<1>6. OwnerTypes' /\ openFds # {}
  BY <1>1, <1>2, <1>3 DEF OwnerTypes, OwnsEach
<1> QED
  BY <1>1, <1>5, <1>6, OwnsEachNext, OwnerMoves

LEMMA DescriptorInit == Descriptor!Init => DescriptorInv
<1> SUFFICES ASSUME Descriptor!Init PROVE DescriptorInv
  OBVIOUS
<1>1. CallSound(sender) /\ sender.totalBytes = 0 /\ sender.state = "ready"
  <2>1. PICK g \in {"writeFull", "writeNoInt", "writevFull"}, e \in SendEnds :
          sender = Descriptor!Call(g, e) /\ (g # "writevFull" => Len(e) = 1)
    BY DEF Descriptor!Init, Descriptor!Calls, Descriptor!Single
  <2> QED
    BY <2>1, CallStarts DEF Descriptor!Vectored
<1>2. CallSound(receiver) /\ receiver.totalBytes = 0 /\ receiver.state = "ready"
  <2>1. PICK g \in {"readFull", "readNoInt", "readvFull"}, e \in RecvEnds :
          receiver = Descriptor!Call(g, e) /\ (g # "readvFull" => Len(e) = 1)
    BY DEF Descriptor!Init, Descriptor!Calls, Descriptor!Single
  <2> QED
    BY <2>1, CallStarts DEF Descriptor!Vectored
<1>3. pipe = <<>> /\ memory = [a \in 1 .. receiver.ends[Len(receiver.ends)] |-> 0]
  BY DEF Descriptor!Init, Descriptor!Total, Descriptor!Untouched
<1>4. Arrived(sender, receiver, pipe, memory)
  <2>1. receiver.ends[Len(receiver.ends)] \in Nat
    BY <1>2 DEF CallSound, Shape
  <2>2. \A a \in 1 .. receiver.ends[Len(receiver.ends)] : ~(a <= 0)
    BY <2>1
  <2>3. pipe \in Seq(Nat) /\ Len(pipe) = 0
    BY <1>3
  <2> QED
    BY <1>1, <1>2, <1>3, <2>2, <2>3 DEF Arrived
<1>5. Returns(sender, receiver, pipe, openFds)
  BY <1>1, <1>2 DEF Returns, Descriptor!InCall
<1>6. /\ openFds = {3} /\ raw = -1 /\ pipeFd = [o \in Objects |-> IF o = "pipe.write" THEN 3 ELSE -1]
      /\ "pipe.write" \in Objects
  BY TransferAssumption DEF Descriptor!Init, Descriptor!kInvalid
<1>7. OwnerTypes
  BY <1>6 DEF OwnerTypes
<1>8. OwnsEach(pipeFd, raw, openFds)
  BY ONLY <1>6 DEF OwnsEach
<1> QED
  BY <1>4, <1>5, <1>7, <1>8, OwnsEachIs DEF DescriptorInv

LEMMA DescriptorStep == DescriptorInv /\ [Descriptor!Next]_Descriptor!fdVars => DescriptorInv'
<1> SUFFICES ASSUME DescriptorInv, [Descriptor!Next]_Descriptor!fdVars PROVE DescriptorInv'
  OBVIOUS
<1>1. CASE Descriptor!StartSend
  BY <1>1, StartSendKeeps
<1>2. CASE Descriptor!StartReceive
  BY <1>2, StartReceiveKeeps
<1>3. CASE Descriptor!SendStep
  BY <1>3, SendStepKeeps
<1>4. CASE Descriptor!SendAdvance
  BY <1>4, SendAdvanceKeeps
<1>5. CASE Descriptor!ReceiveStep
  BY <1>5, ReceiveStepKeeps
<1>6. CASE Descriptor!ReceiveAdvance
  BY <1>6, ReceiveAdvanceKeeps
<1>7. CASE Descriptor!Interrupt
  BY <1>7, InterruptKeeps
<1>8. CASE Descriptor!Fails
  BY <1>8, FailsKeeps
<1>9. CASE \E o \in Objects : Descriptor!Close(o)
  BY <1>9, CloseKeeps
<1>10. CASE \E o \in Objects : Descriptor!Release(o)
  BY <1>10, ReleaseKeeps
<1>11. CASE \E o \in Objects : Descriptor!Adopt(o)
  BY <1>11, AdoptKeeps
<1>12. CASE \E o \in Objects : \E from \in Objects : Descriptor!MoveFrom(from, o)
  BY <1>12, MoveFromKeeps
<1>13. CASE \E o \in Objects : \E from \in Objects : Descriptor!Duplicate(from, o)
  BY <1>13, DuplicateKeeps
<1>14. CASE UNCHANGED Descriptor!fdVars
  <2>1. UNCHANGED <<pipeFd, raw, openFds, pipe, memory, sender, receiver>>
    BY <1>14 DEF Descriptor!fdVars
  <2> QED
    BY <2>1, OwnersKept DEF DescriptorInv
<1> QED
  BY <1>1, <1>2, <1>3, <1>4, <1>5, <1>6, <1>7, <1>8, <1>9, <1>10, <1>11, <1>12, <1>13, <1>14 DEF Descriptor!Next

LEMMA DescriptorResult == DescriptorInv => DescriptorsSound
<1> SUFFICES ASSUME DescriptorInv PROVE DescriptorsSound
  OBVIOUS
<1>1. Descriptor!FullTransfers
  <2>1. /\ sender.totalBytes = receiver.totalBytes + Len(pipe)
        /\ \A i \in 1 .. Len(pipe) : pipe[i] = receiver.totalBytes + i
        /\ \A a \in 1 .. Descriptor!Total(receiver) :
             memory[a] = IF a <= receiver.totalBytes THEN a ELSE Descriptor!Untouched
    BY DEF DescriptorInv, Arrived, Descriptor!Total, Descriptor!Untouched
  <2>2. sender.state = "value" /\ ~Descriptor!EmptyRun(sender) =>
          \/ sender.totalBytes = Descriptor!Total(sender)
          \/ Descriptor!OnlyOnce(sender.function) /\ sender.totalBytes > 0
    BY DEF DescriptorInv, Returns, Complete, Descriptor!Total
  <2>3. receiver.state = "value" /\ ~Descriptor!EmptyRun(receiver) =>
          \/ receiver.totalBytes = Descriptor!Total(receiver)
          \/ Descriptor!OnlyOnce(receiver.function) /\ receiver.totalBytes > 0
          \/ pipe = <<>> /\ openFds = {}
    BY DEF DescriptorInv, Returns, Complete, Descriptor!Total
  <2> QED
    BY <2>1, <2>2, <2>3 DEF Descriptor!FullTransfers
<1> QED
  BY <1>1 DEF DescriptorInv, DescriptorsSound, Descriptor!DescriptorsSound

\* FileDescriptor.cpp:25-116, 370-446, for all buffers, pipe capacities and kIovMax: however the
\* kernel cuts and interrupts the transfers, the bytes arrive in order, once and in their place,
\* a full transfer that returns a value is complete or has met the end of the file (or kIovMax
\* empty buffers in a row), and every descriptor has one owner.
THEOREM DescriptorsAreSound == Descriptor!Spec => []DescriptorsSound
<1>1. Descriptor!Spec => []DescriptorInv
  BY DescriptorInit, DescriptorStep, PTL DEF Descriptor!Spec
<1> QED
  BY <1>1, DescriptorResult, PTL
=============================================================================
