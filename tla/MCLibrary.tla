----------------------------- MODULE MCLibrary -----------------------------
(***************************************************************************)
(* The utilities that share nothing with each other, for TLC: those of     *)
(* Library, MappedDiskVector and the ones instantiated below.  The initial *)
(* state chooses the one that runs; the others rest in their initial       *)
(* states.                                                                 *)
(***************************************************************************)
EXTENDS Library, MappedDiskVector, Sequences

VARIABLES
  part,
  text, other, iter,
  caseSensitive, entries, mutator, second, dict, answer, meant

vectorVars == <<header, entryCount, records, path, tmpPath, lock, pc, fd, original, size, mapUnits, item>>
pathVars == <<text, other, iter>>
mapVars == <<caseSensitive, entries, mutator, second, dict, answer, meant>>

Path == INSTANCE PathFuncs WITH MaxText <- 5, MaxOther <- 4
Dictionary == INSTANCE PathMap WITH MaxEntries <- 3, MaxOther <- 2, MapValues <- {1, 2}
\* Buffers that are empty at the front, in the middle and as many as one writev() takes.
SomeSendEnds == {<<2>>, <<0, 1, 1, 3>>, <<1, 1, 1, 2>>}
SomeRecvEnds == {<<3>>, <<1, 1, 3>>}

Parts == {"IDGen", "LazyInitialize", "MappedDiskVector", "ImmediateFuture", "PathFuncs", "PathMap", "SpawnOptions",
          "FileDescriptor", "LeaseCache", "CoverageSet", "BucketedLog", "RefPtr", "Tracing", "FaultInjector",
          "IoFuture"}

LibraryInit ==
  /\ part \in Parts
  /\ Ids!Init /\ Lazy!Init /\ Path!Init /\ Lease!Init /\ Coverage!Init /\ Log!Init /\ Tracer!Init /\ Injector!Init /\ Io!Init
  /\ Init /\ (part = "MappedDiskVector" \/ path = None)
  /\ Future!Init /\ (part = "ImmediateFuture" \/ (~alwaysDefer /\
                                                   \A i \in DOMAIN chains : chains[i].source.type = "empty"))
  /\ Dictionary!Init /\ (part = "PathMap" \/ (caseSensitive /\ entries = <<>>))
  /\ Options!Init /\ (part = "SpawnOptions" \/ others = {})
  /\ Descriptor!Init /\ (part = "FileDescriptor" \/ (sender.function = "writeNoInt" /\ receiver.function = "readNoInt"))
  /\ Ref!Init /\ (part = "RefPtr" \/ refPtr["a"] = "owned")

LibraryNext ==
  /\ UNCHANGED part
  /\ IF part = "PathFuncs" THEN Path!Next ELSE UNCHANGED pathVars
  /\ IF part = "SpawnOptions" THEN Options!Next ELSE UNCHANGED spawnVars
  /\ IF part = "CoverageSet" THEN Coverage!Next ELSE UNCHANGED coverageVars
  /\ IF part = "RefPtr" THEN Ref!Next ELSE UNCHANGED refVars
  /\ IF part = "IoFuture" THEN Io!Next ELSE UNCHANGED ioVars
  /\ IF part = "PathMap" THEN Dictionary!Next ELSE UNCHANGED mapVars
  /\ IF part = "LazyInitialize" THEN Lazy!Next ELSE UNCHANGED lazyVars
  /\ IF part = "IDGen" THEN Ids!Next ELSE UNCHANGED idVars
  /\ IF part = "LeaseCache" THEN Lease!Next ELSE UNCHANGED leaseVars
  /\ IF part = "BucketedLog" THEN Log!Next ELSE UNCHANGED logVars
  /\ IF part = "FileDescriptor" THEN Descriptor!Next ELSE UNCHANGED pipeVars
  /\ IF part = "Tracing" THEN Tracer!Next ELSE UNCHANGED tracingVars
  /\ IF part = "MappedDiskVector" THEN Next ELSE UNCHANGED vectorVars
  /\ IF part = "FaultInjector" THEN Injector!Next ELSE UNCHANGED faultVars
  /\ IF part = "ImmediateFuture" THEN Future!Next ELSE UNCHANGED futureVars

LibrarySpec ==
  LibraryInit /\ [][LibraryNext]_<<part, idVars, lazyVars, vectorVars, futureVars, pathVars, mapVars, spawnVars,
                                   pipeVars, leaseVars, coverageVars, logVars, refVars, tracingVars, faultVars, ioVars>>

-----------------------------------------------------------------------------
(* The properties of the parts that only TLC checks. *)

\* PathFuncs.h:706-2078, PathFuncs.cpp:29-368: paths are lists of components.
PathsSound == part = "PathFuncs" => Path!PathsSound

\* PathMap.h:60-430, PathMapMutator.h:39-243: the vector is a dictionary.
PathMapSound == part = "PathMap" => Dictionary!PathMapSound
=============================================================================
