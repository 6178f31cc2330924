------------------------------ MODULE MCShared ------------------------------
(***************************************************************************)
(* The two objects that every thread of the process shares, for TLC: the   *)
(* trace bus and the process info cache.  The initial state chooses the    *)
(* one that runs, and the other one rests in its initial state.            *)
(***************************************************************************)
EXTENDS TraceBus, ProcessInfoCache, TLC

VARIABLE part

SharedInit ==
  /\ part \in {"TraceBus", "ProcessInfoCache"}
  /\ Init
  /\ CacheInit

SharedNext ==
  /\ UNCHANGED part
  /\ IF part = "TraceBus" THEN Next ELSE UNCHANGED vars
  /\ IF part = "ProcessInfoCache" THEN CacheNext ELSE UNCHANGED cacheVars

SharedSpec == SharedInit /\ [][SharedNext]_<<part, vars, cacheVars>>

\* Threads publish or call the cache; objects are Subscriptions or ProcessInfoNodes.
Symmetry ==
  Permutations(Publishers \union Threads) \union Permutations(Subs \union Nodes) \union Permutations(Pids)
=============================================================================
