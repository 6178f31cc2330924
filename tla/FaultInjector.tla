--------------------------- MODULE FaultInjector ---------------------------
(***************************************************************************)
(* eden/common/utils/FaultInjector.{h,cpp}, with fault injection enabled:  *)
(* code under test calls check(), a test defines faults that make matching *)
(* checks fail, sleep or block, and unblocks them again.                   *)
(*                                                                         *)
(* An action is one critical section of state_ or one promise being        *)
(* fulfilled.  There is one key class, since classes share nothing, and a  *)
(* regular expression is the set of key values it matches.  A cancellation *)
(* token belongs to the checker whose request it cancels; None is the      *)
(* placeholder that is never cancelled.                                    *)
(***************************************************************************)
EXTENDS Naturals, Sequences, SequencesExt

CONSTANTS
  Checkers,    \* threads (or futures) that check for faults
  Testers,     \* threads that unblock them
  Keys,        \* key values
  Regexes,     \* sets of key values
  None,
  MaxFaults,   \* bound on the calls of inject*()
  Counts       \* their count parameters, where 0 means no limit

VARIABLES
  faults, blockedChecks,   \* struct State; a blocked check is its checker
  pc, key, token,          \* each checker: position, key, the token it polls
  hands,                   \* promises that a tester, or the destructor, has taken
  cancelled,               \* tokens with a cancellation requested
  alive,                   \* the injector; the process
  count, hits              \* history: of every fault, its parameter and, if limited, its matches

vars == <<faults, blockedChecks, pc, key, token, hands, cancelled, alive, count, hits>>

Unblockers == Testers \union {"dtor"}
\* "now" is both the no-op and the error that is thrown at once.
Behaviors == {"now", "block", "cancel", "delay", "kill"}

TypeOK ==
  /\ faults \in Seq([id : 1 .. MaxFaults, regex : Regexes, countRemaining : Nat,
                     behavior : Behaviors, token : Checkers \union {None}])
  /\ blockedChecks \in Seq(Checkers)
  /\ pc \in [Checkers -> {"idle", "find", "enlist", "blocked", "polling", "sleeping"}]
  /\ key \in [Checkers -> Keys \union {None}]
  /\ token \in [Checkers -> Checkers \union {None}]
  /\ hands \in [Unblockers -> Seq(Checkers)]
  /\ cancelled \subseteq Checkers
  /\ alive \in {"yes", "destroyed", "aborted"}
  /\ count \in Seq(Counts) /\ hits \in Seq(Nat) /\ Len(hits) = Len(count)

Init ==
  /\ faults = <<>> /\ blockedChecks = <<>>
  /\ pc = [c \in Checkers |-> "idle"]
  /\ key = [c \in Checkers |-> None]
  /\ token = [c \in Checkers |-> None]
  /\ hands = [u \in Unblockers |-> <<>>]
  /\ cancelled = {}
  /\ alive = "yes"
  /\ count = <<>> /\ hits = <<>>

-----------------------------------------------------------------------------
(* Defining faults *)

\* injectFault() behind all the inject*() methods.
Inject(regex, behavior, n) ==
  /\ alive = "yes"
  /\ Len(count) < MaxFaults
  /\ faults' = Append(faults, [id |-> Len(count) + 1, regex |-> regex, countRemaining |-> n,
                               behavior |-> behavior, token |-> None])
  /\ count' = Append(count, n)
  /\ hits' = Append(hits, 0)
  /\ UNCHANGED <<blockedChecks, pc, key, token, hands, cancelled, alive>>

\* removeFault(): the earliest fault with this very regular expression.
RemoveFault(regex) ==
  /\ alive = "yes"
  /\ \E i \in DOMAIN faults :
       /\ faults[i].regex = regex
       /\ \A j \in 1 .. (i - 1) : faults[j].regex # regex
       /\ faults' = RemoveAt(faults, i)
  /\ UNCHANGED <<blockedChecks, pc, key, token, hands, cancelled, alive, count, hits>>

-----------------------------------------------------------------------------
(* Checking *)

Matching(k) == {i \in DOMAIN faults : k \in faults[i].regex}
First(indices) == CHOOSE i \in indices : \A j \in indices : i <= j

\* Mutant of Consume: a fault that is used up stays, and counts as unlimited.
Consume_NoErase(i) ==
  faults' = IF faults[i].countRemaining = 0 THEN faults
            ELSE [faults EXCEPT ![i].countRemaining = @ - 1]

\* A limited fault is counted down, and erased by its last match.
Consume(i) ==
  faults' = IF faults[i].countRemaining = 1 THEN RemoveAt(faults, i)
            ELSE IF faults[i].countRemaining = 0 THEN faults
            ELSE [faults EXCEPT ![i].countRemaining = @ - 1]

\* Where a check goes on after findFault() has returned this behavior; kill
\* aborts the process.
After(behavior) ==
  CASE behavior = "block"  -> "enlist"
    [] behavior = "cancel" -> "polling"
    [] behavior = "delay"  -> "sleeping"
    [] OTHER               -> "idle"

\* findFault() for checker c and key k, and what the caller does with it.
FindFault(c, k) ==
  \/ /\ Matching(k) = {}
     /\ pc' = [pc EXCEPT ![c] = "idle"]
     /\ key' = [key EXCEPT ![c] = None]
     /\ UNCHANGED <<faults, token, alive, hits>>
  \/ /\ Matching(k) # {}
     /\ LET i == First(Matching(k))
            f == faults[i]
        IN /\ Consume(i)
           /\ hits' = [hits EXCEPT ![f.id] = IF count[f.id] = 0 THEN 0 ELSE @ + 1]
           /\ pc' = [pc EXCEPT ![c] = After(f.behavior)]
           /\ key' = [key EXCEPT ![c] = IF After(f.behavior) = "enlist" THEN k ELSE None]
           /\ token' = [token EXCEPT ![c] = IF f.behavior = "cancel" THEN f.token ELSE None]
           /\ alive' = IF f.behavior = "kill" THEN "aborted" ELSE alive

\* check(), checkAsync(), co_checkAsync() and checkTry().
Check(c, k) ==
  /\ alive = "yes"
  /\ pc[c] = "idle"
  /\ FindFault(c, k)
  /\ UNCHANGED <<blockedChecks, hands, cancelled, count>>

\* waitForCancelOrTimeout(): the first matching fault of the right kind gets the
\* token of this request, which was not cancelled before ...
UpdateToken(c, k) ==
  LET own == {i \in Matching(k) : faults[i].behavior = "cancel"} IN
  /\ alive = "yes"
  /\ pc[c] = "idle" /\ c \notin cancelled
  /\ faults' = IF own = {} THEN faults ELSE [faults EXCEPT ![First(own)].token = c]
  /\ pc' = [pc EXCEPT ![c] = "find"]
  /\ key' = [key EXCEPT ![c] = k]
  /\ UNCHANGED <<blockedChecks, token, hands, cancelled, alive, count, hits>>

\* ... and then, under the lock again, the check is made.
CheckAfterUpdate(c) ==
  /\ alive = "yes"
  /\ pc[c] = "find"
  /\ FindFault(c, key[c])
  /\ UNCHANGED <<blockedChecks, hands, cancelled, count>>

\* addBlockedFault(), a second critical section.
Enlist(c) ==
  /\ alive = "yes"
  /\ pc[c] = "enlist"
  /\ blockedChecks' = Append(blockedChecks, c)
  /\ pc' = [pc EXCEPT ![c] = "blocked"]
  /\ UNCHANGED <<faults, key, token, hands, cancelled, alive, count, hits>>

\* The future of a check is ready, with a value or an exception.
Finish(c) ==
  /\ pc' = [pc EXCEPT ![c] = "idle"]
  /\ key' = [key EXCEPT ![c] = None]
  /\ token' = [token EXCEPT ![c] = None]

\* pollCancellationToken() looks at the token first ...
PollCancelled(c) ==
  /\ alive # "aborted"
  /\ pc[c] = "polling"
  /\ token[c] \in cancelled
  /\ Finish(c)
  /\ UNCHANGED <<faults, blockedChecks, hands, cancelled, alive, count, hits>>

TimedOut(c) == pc[c] = "polling" /\ token[c] \notin cancelled

\* ... and then at the clock.
PollTimeout(c) ==
  /\ alive # "aborted"
  /\ TimedOut(c)
  /\ Finish(c)
  /\ UNCHANGED <<faults, blockedChecks, hands, cancelled, alive, count, hits>>

\* The end of a delay, with or without an error.
SleepEnds(c) ==
  /\ alive # "aborted"
  /\ pc[c] = "sleeping"
  /\ Finish(c)
  /\ UNCHANGED <<faults, blockedChecks, hands, cancelled, alive, count, hits>>

-----------------------------------------------------------------------------
(* Unblocking *)

Hits(regex) == {i \in DOMAIN blockedChecks : key[blockedChecks[i]] \in regex}
\* The order in which a loop meets these indices.
Ascending(indices) ==
  {at \in [1 .. Cardinality(indices) -> indices] :
     Range(at) = indices /\ \A m, n \in DOMAIN at : m < n => at[m] < at[n]}
Pick(checks, at) == [n \in DOMAIN at |-> checks[at[n]]]

\* extractBlockedChecks() and the swap of unblockAllImpl().
Extract(u, regex) ==
  \E taken \in Ascending(Hits(regex)), left \in Ascending(DOMAIN blockedChecks \ Hits(regex)) :
    /\ hands' = [hands EXCEPT ![u] = Pick(blockedChecks, taken)]
    /\ blockedChecks' = Pick(blockedChecks, left)

\* unblock(), unblockWithError() and, with all keys, unblockAll*().
Unblock(u, regex) ==
  /\ alive = "yes"
  /\ hands[u] = <<>>
  /\ Hits(regex) # {}
  /\ Extract(u, regex)
  /\ UNCHANGED <<faults, pc, key, token, cancelled, alive, count, hits>>

TakeNext(u) == hands' = [hands EXCEPT ![u] = Tail(@)]

\* promise.setValue() or setException(), outside the lock.
Fulfil(u) ==
  /\ alive # "aborted"
  /\ hands[u] # <<>>
  /\ TakeNext(u)
  /\ Finish(Head(hands[u]))
  /\ UNCHANGED <<faults, blockedChecks, cancelled, alive, count, hits>>

\* Mutant of DestroyUnblocks: pending checks are left behind.
DestroyUnblocks_Not == UNCHANGED <<hands, blockedChecks>>
DestroyUnblocks == Extract("dtor", Keys)

\* ~FaultInjector(), while nobody is inside one of its methods.
Destroy ==
  /\ alive = "yes"
  /\ \A c \in Checkers : pc[c] \notin {"find", "enlist"}
  /\ \A u \in Testers : hands[u] = <<>>
  /\ DestroyUnblocks
  /\ alive' = "destroyed"
  /\ UNCHANGED <<faults, pc, key, token, cancelled, count, hits>>

\* A request is cancelled.
Cancel(c) ==
  /\ alive # "aborted"
  /\ c \notin cancelled
  /\ cancelled' = cancelled \union {c}
  /\ UNCHANGED <<faults, blockedChecks, pc, key, token, hands, alive, count, hits>>

\* Nobody has anything left to call.
Terminated ==
  /\ alive # "yes"
  /\ UNCHANGED vars

CheckerStep(c) == 
  CheckAfterUpdate(c) \/ Enlist(c) \/ PollCancelled(c) \/ PollTimeout(c) \/ SleepEnds(c)

Next ==
  \/ \E regex \in Regexes :
       \/ \E behavior \in Behaviors, n \in Counts : Inject(regex, behavior, n)
       \/ RemoveFault(regex)
       \/ \E u \in Testers : Unblock(u, regex)
  \/ \E c \in Checkers :
       \/ \E k \in Keys : Check(c, k) \/ UpdateToken(c, k)
       \/ CheckerStep(c)
       \/ Cancel(c)
  \/ \E u \in Unblockers : Fulfil(u)
  \/ Destroy
  \/ Terminated

\* Threads inside a call go on, and time passes.
Fairness ==
  /\ \A c \in Checkers : WF_vars(CheckerStep(c))
  /\ \A u \in Unblockers : WF_vars(Fulfil(u))

Spec == Init /\ [][Next]_vars
FairSpec == Spec /\ Fairness

-----------------------------------------------------------------------------
(* What the injector promises *)

\* However extraction by several testers, new checks and the destructor
\* interleave, the promise of a blocked check is in one place: fulfilled never
\* twice, dropped never.
PromiseKeptOnce ==
  LET taken(u) == Range(hands[u]) IN
  /\ TypeOK
  /\ IsInjective(blockedChecks) /\ \A u \in Unblockers : IsInjective(hands[u])
  /\ \A u \in Unblockers :
       /\ taken(u) \intersect Range(blockedChecks) = {}
       /\ \A v \in Unblockers \ {u} : taken(u) \intersect taken(v) = {}
  /\ {c \in Checkers : pc[c] = "blocked"} =
       Range(blockedChecks) \union UNION {taken(u) : u \in Unblockers}

\* "how many check() calls this fault should match before expiring"
\* (FaultInjector.h:185-186): a limited fault matches exactly that often, however
\* many threads check at once and whatever is removed in between.
CountsExact ==
  /\ \A i \in DOMAIN count : count[i] # 0 => hits[i] <= count[i]
  /\ \A i \in DOMAIN faults :
       count[faults[i].id] # 0 => hits[faults[i].id] + faults[i].countRemaining = count[faults[i].id]

\* Once unblock() has chosen a check, or the injector is destroyed, the check
\* returns; nothing stays blocked on an injector that is gone.  A check that waits
\* for a cancellation returns even if nobody cancels it, or if a concurrent
\* request has replaced the token of its fault.
ChecksReturn ==
  \A c \in Checkers :
    /\ (\E u \in Unblockers : c \in Range(hands[u])) \/ (pc[c] = "blocked" /\ alive = "destroyed")
         ~> (pc[c] # "blocked" \/ alive = "aborted")
    /\ (pc[c] = "polling") ~> (pc[c] # "polling" \/ alive = "aborted")

\* FaultInjector.cpp:57-118, 341-356: no blocked check is lost or answered twice, and no limited
\* fault matches too often or too rarely, under concurrent checks and testers.
InjectorSound == PromiseKeptOnce /\ CountsExact
=============================================================================
