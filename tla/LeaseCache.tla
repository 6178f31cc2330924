----------------------------- MODULE LeaseCache -----------------------------
(***************************************************************************)
(* eden/common/utils/LeaseCache.h: a cache of futures.  The first get() of *)
(* a key puts a promise into the cache and calls the fetcher; the others   *)
(* share it.  The map under it is folly's EvictingCacheMap (external).     *)
(***************************************************************************)
EXTENDS Naturals, FiniteSets, SequencesExt

CONSTANTS
  Threads, Keys,
  MaxSize,     \* of the map, in entries; 0 stands for no limit
  MaxPromises  \* promises that are ever made: a bound

VARIABLES
  cache,       \* the keys and promises in the map, the most recently used first
  promise,     \* the promises made: [key, state]
  fetching,    \* thread -> the promise whose fetch it is to start, 0 for none
  inFlight,    \* promises whose fetch has started and not finished
  waiting,     \* the <<thread, promise>>s of the futures get() has returned
  abandoned    \* promises whose fetcher has thrown

leaseVars == <<cache, promise, fetching, inFlight, waiting, abandoned>>

Init ==
  /\ cache = <<>> /\ promise = <<>>
  /\ fetching = [t \in Threads |-> 0]
  /\ inFlight = {} /\ waiting = {} /\ abandoned = {}

\* The map has one entry of a key at most.
At(key) == {i \in DOMAIN cache : cache[i].key = key}
Without(key) == IF At(key) = {} THEN cache ELSE RemoveAt(cache, CHOOSE i \in At(key) : TRUE)
Cached(key) == {e.promise : e \in {f \in Range(cache) : f.key = key}}

\* EvictingCacheMap::set(): the least recently used entry goes when the map is too large.
SetInMap(key, p) ==
  LET new == <<[key |-> key, promise |-> p]>> \o Without(key)
  IN SubSeq(new, 1, IF MaxSize > 0 /\ Len(new) > MaxSize THEN MaxSize ELSE Len(new))

NewPromise(key, state) ==
  /\ Len(promise) < MaxPromises
  /\ promise' = Append(promise, [key |-> key, state |-> state])

Set(key) ==
  /\ NewPromise(key, "set")
  /\ cache' = SetInMap(key, Len(promise) + 1)
  /\ UNCHANGED <<fetching, inFlight, waiting, abandoned>>

Erase(key) ==
  /\ Cached(key) # {}
  /\ cache' = Without(key)
  /\ UNCHANGED <<promise, fetching, inFlight, waiting, abandoned>>

\* get() under the lock: find() also makes the entry the most recently used one.
GetHit(t, key) ==
  /\ fetching[t] = 0 /\ Cached(key) # {}
  /\ \E p \in Cached(key) : cache' = SetInMap(key, p) /\ waiting' = waiting \cup {<<t, p>>}
  /\ UNCHANGED <<promise, fetching, inFlight, abandoned>>

GetMiss(t, key) ==
  /\ fetching[t] = 0 /\ Cached(key) = {}
  /\ NewPromise(key, "pending")
  /\ cache' = SetInMap(key, Len(promise) + 1)
  /\ fetching' = [fetching EXCEPT ![t] = Len(promise) + 1]
  /\ UNCHANGED <<inFlight, waiting, abandoned>>

\* fetcher_(key) outside the lock: it returns a future, or throws out of get().
StartFetch(t) ==
  /\ fetching[t] # 0 /\ fetching' = [fetching EXCEPT ![t] = 0]
  /\ inFlight' = inFlight \cup {fetching[t]} /\ waiting' = waiting \cup {<<t, fetching[t]>>}
  /\ UNCHANGED <<cache, promise, abandoned>>

FetcherThrows(t) ==
  /\ fetching[t] # 0 /\ fetching' = [fetching EXCEPT ![t] = 0]
  /\ abandoned' = abandoned \cup {fetching[t]}
  /\ UNCHANGED <<cache, promise, inFlight, waiting>>

\* The continuation keeps the promise it has captured, whatever the map holds now.
\* Mutant: it looks the key up again.
Fulfilled_ByKey(p) == Cached(promise[p].key)
Fulfilled(p) == {p}

FinishFetch(p) ==
  /\ p \in inFlight /\ inFlight' = inFlight \ {p}
  /\ promise' = [q \in 1..Len(promise) |-> IF q \in Fulfilled(p) THEN [promise[q] EXCEPT !.state = "fetched"] ELSE promise[q]]
  /\ UNCHANGED <<cache, fetching, waiting, abandoned>>

Next ==
  \/ \E key \in Keys : Set(key) \/ Erase(key) \/ \E t \in Threads : GetHit(t, key) \/ GetMiss(t, key)
  \/ \E t \in Threads : StartFetch(t) \/ FetcherThrows(t)
  \/ \E p \in inFlight : FinishFetch(p)

Spec == Init /\ [][Next]_leaseVars

-----------------------------------------------------------------------------
\* LeaseCache.h:48-70: a promise is pending exactly while its one fetch is about to start or
\* under way, or for good when its fetcher has thrown out of get(): a fetch that ends answers
\* everyone who shares its promise, even when the key was erased, evicted or set() meanwhile.
\* And one promise is leased per key, the newest one made for it: a fetch that ends late puts
\* nothing back in the place of what set() or a later get() has put there.
LeasesSettle ==
  /\ \A p \in 1..Len(promise) :
       (promise[p].state = "pending") <=>
         (p \in inFlight \cup abandoned \cup {fetching[t] : t \in Threads})
  /\ \A k \in Keys : Cardinality(Cached(k)) <= 1 /\ \A p \in Cached(k) : promise[p].key = k
  /\ \A k \in Keys : \A p \in Cached(k) : \A q \in 1..Len(promise) : promise[q].key = k => q <= p
  /\ MaxSize > 0 => Len(cache) <= MaxSize
=============================================================================
