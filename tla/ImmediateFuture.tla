-------------------------- MODULE ImmediateFuture --------------------------
(***************************************************************************)
(* eden/common/utils/ImmediateFuture{.h,-inl.h}: a future that holds its   *)
(* value, or a SemiFuture.  The same chain of continuations runs at once,  *)
(* when it is attached, or later, when the value is asked for, depending   *)
(* on what is ready at that moment, on laziness, and on the build          *)
(* (kImmediateFutureAlwaysDefer).  Other threads fulfil the promises       *)
(* behind the SemiFutures at any time.                                     *)
(*                                                                         *)
(* A Try is <<"value" or "error", who made it>>: 0 is an initial value,    *)
(* then come the promises, then the callbacks in the order in which they   *)
(* are attached.  A promise belongs to each of the futures, one callback   *)
(* may return the future of the last promise.                              *)
(***************************************************************************)
EXTENDS Naturals, Sequences, FiniteSets, Functions

CONSTANTS
  Count,         \* the number of futures
  MaxThens       \* bound on the continuations that are attached

VARIABLES
  alwaysDefer,   \* kImmediateFutureAlwaysDefer: a debug build
  lastTaken,     \* a callback returns the future of the last promise
  promise,       \* what each promise was fulfilled with, or <<>>
  futures,       \* ImmediateFutures, the arguments of collectAll()
  chains,        \* history: what each was made from, its continuations, and those that have run
  thens,         \* history: number of continuations attached
  consumer, semisIndices, results,  \* the call that waits, and what it has
  done

vars == <<alwaysDefer, lastTaken, promise, futures, chains, thens, consumer, semisIndices, results, done>>

Slots == 1 .. Count
LastPromise == Count + 1
Promises == 1 .. LastPromise
Maker(op) == LastPromise + op.id
Tries(n) == {<<"value", n>>, <<"error", n>>}
Unset == <<>>

Immediate(try) == [kind |-> "Immediate", from |-> 0, try |-> try, deferred |-> <<>>]
Semi(from, try) == [kind |-> "SemiFuture", from |-> from, try |-> try, deferred |-> <<>>]
Nothing == [kind |-> "Nothing", from |-> 0, try |-> Unset, deferred |-> <<>>]

\* SemiFuture::isReady(): its core has a result, and no callback is deferred.
HasResult(f) == f.from # 0 => promise[f.from] # Unset
SemiIsReady(f) == HasResult(f) /\ f.deferred = <<>>
SourceTry(f) == IF f.from = 0 THEN f.try ELSE promise[f.from]

\* ImmediateFuture(Try), and ImmediateFuture(SemiFuture, readiness).
FromTry(try) == IF alwaysDefer THEN Semi(0, try) ELSE Immediate(try)

FromSemiFuture(f, readiness) ==
  IF readiness = "Lazy" THEN [f EXCEPT !.kind = "LazySemiFuture"]
  ELSE IF ~SemiIsReady(f) \/ alwaysDefer THEN [f EXCEPT !.kind = "SemiFuture"]
  ELSE Immediate(SourceTry(f))

Empty == [type |-> "empty", try |-> Unset, from |-> 0]

\* What a future can be made from: a value or an error, a SemiFuture whose promise
\* may be fulfilled already, makeNotReadyImmediateFuture(), makeEmpty().
Sources(i) ==
  {[type |-> "try", try |-> t, from |-> 0] : t \in Tries(0)}
  \union {[type |-> "promise", try |-> Unset, from |-> i],
          [type |-> "lazy", try |-> <<"value", 0>>, from |-> 0], Empty}

Construct(source) ==
  CASE source.type = "try"     -> FromTry(source.try)
    [] source.type = "promise" -> FromSemiFuture(Semi(source.from, Unset), "Eager")
    [] source.type = "lazy"    -> FromSemiFuture(Semi(0, source.try), "Lazy")
    [] source.type = "empty"   -> Nothing

Chain(source) == [source |-> source, ops |-> <<>>, ran |-> <<>>]

Init ==
  /\ alwaysDefer \in BOOLEAN /\ lastTaken = FALSE
  /\ \E fulfilled \in SUBSET Slots :
       promise = [p \in Promises |-> IF p \in fulfilled THEN <<"value", p>> ELSE Unset]
  /\ \E s \in [Slots -> UNION {Sources(i) : i \in Slots}] :
       /\ \A i \in Slots : s[i] \in Sources(i) /\ (promise[i] # Unset => s[i].from = i)
       /\ futures = [i \in Slots |-> Construct(s[i])]
       /\ chains = [i \in Slots |-> Chain(s[i])]
  /\ thens = 0
  /\ consumer = "none" /\ semisIndices = <<>> /\ results = [i \in Slots |-> Unset]
  /\ done = FALSE

-----------------------------------------------------------------------------
(* Continuations: [on : the method, does and awaits : the callback, id : Nat] *)

Methods == {"thenValue", "thenError", "thenTry", "ensure"}
\* A callback returns a value, throws, or returns the future of a promise (thenTry()
\* handles this for all of them).
Callbacks(method) ==
  {[does |-> "value", awaits |-> 0], [does |-> "throw", awaits |-> 0]}
  \union {[does |-> "future", awaits |-> p] : p \in IF method = "thenTry" THEN {LastPromise} ELSE {}}

\* Whether the callback is called.
Calls(op, try) ==
  CASE op.on = "thenValue" -> try[1] = "value"
    [] op.on = "thenError" -> try[1] = "error"
    [] OTHER -> TRUE

\* The result of the continuation: a future that holds a Try, or waits.
Continue(op, try) ==
  IF ~Calls(op, try) THEN Semi(0, try)
  ELSE CASE op.does = "throw" -> Semi(0, <<"error", Maker(op)>>)
         [] op.does = "value" -> Semi(0, IF op.on = "ensure" THEN try ELSE <<"value", Maker(op)>>)
         [] op.does = "future" -> Semi(op.awaits, Unset)

IsReady(f) ==
  \/ f.kind = "Immediate"
  \/ f.kind = "SemiFuture" /\ ~alwaysDefer /\ SemiIsReady(f)

Log(ran, op, try) == IF Calls(op, try) THEN Append(ran, op.id) ELSE ran
Ran(chain, op, try) == [chain EXCEPT !.ran = Log(@, op, try)]
Attach(chain, op) == [chain EXCEPT !.ops = Append(@, op)]

\* makeImmediateFutureFromImmediate(): call at once.
RunNow(i, op) ==
  LET try == SourceTry(futures[i])
      f == Continue(op, try)
  IN /\ futures' = [futures EXCEPT ![i] = IF f.from = 0 THEN FromTry(f.try) ELSE FromSemiFuture(f, "Eager")]
     /\ chains' = [chains EXCEPT ![i] = Ran(Attach(@, op), op, try)]

\* semi().defer()
PutOff(f, op) == [Semi(f.from, f.try) EXCEPT !.deferred = Append(f.deferred, op)]
Defer(i, op) ==
  /\ futures' = [futures EXCEPT ![i] = PutOff(@, op)]
  /\ chains' = [chains EXCEPT ![i] = Attach(@, op)]

\* thenTry(), and with it thenValue(), thenError(), ensure() and unit().
Then(i, method, callback) ==
  LET op == [on |-> method, does |-> callback.does, awaits |-> callback.awaits, id |-> thens + 1]
  IN /\ consumer = "none"
     /\ thens < MaxThens
     /\ futures[i].kind # "Nothing"
     /\ thens' = thens + 1
     /\ op.does = "future" => ~lastTaken
     /\ lastTaken' = (lastTaken \/ op.does = "future")
     /\ IF IsReady(futures[i]) THEN RunNow(i, op) ELSE Defer(i, op)
     /\ UNCHANGED <<alwaysDefer, promise, consumer, semisIndices, results, done>>

\* futures[to] = std::move(futures[from]): what the target held is destroyed first, so that
\* an empty future, and one that is moved to itself, leaves nothing in it.
Move(to, from) ==
  /\ consumer = "none"
  /\ futures' = [futures EXCEPT ![to] = futures[from], ![from] = Nothing]
  /\ chains' = [chains EXCEPT ![to] = chains[from], ![from] = Chain(Empty)]
  /\ UNCHANGED <<alwaysDefer, lastTaken, promise, thens, consumer, semisIndices, results, done>>

\* Another thread fulfils a promise; no callback runs there.
Fulfil(p, try) ==
  /\ promise[p] = Unset
  /\ IF p = LastPromise THEN lastTaken ELSE \E i \in Slots : chains[i].source.from = p
  /\ promise' = [promise EXCEPT ![p] = try]
  /\ UNCHANGED <<alwaysDefer, lastTaken, futures, chains, thens, consumer, semisIndices, results, done>>

-----------------------------------------------------------------------------
(* Consumers *)

\* collectAll() of a vector remembers the places of the futures that are not ready.
Valid == {i \in Slots : futures[i].kind # "Nothing"}
NotReady == {i \in Valid : ~IsReady(futures[i])}
InOrder(places) ==
  {s \in [1 .. Cardinality(places) -> places] :
     /\ \A j, k \in DOMAIN s : j < k => s[j] < s[k]
     /\ \A i \in places : \E k \in DOMAIN s : s[k] = i}

\* collectAll() of a tuple takes what is ready and waits for the others, collectAllValid()
\* leaves out empty futures where the others throw FutureInvalid.  get() and getTry()
\* do this to one future.
Consume(how) ==
  /\ consumer = "none"
  /\ how # "collectAllValid" => Valid = Slots
  /\ consumer' = how
  /\ semisIndices' \in InOrder(NotReady)
  /\ results' = [i \in Slots |->
       IF i \in Valid /\ IsReady(futures[i]) THEN SourceTry(futures[i]) ELSE Unset]
  /\ UNCHANGED <<alwaysDefer, lastTaken, promise, futures, chains, thens, done>>

\* The waiting thread runs the next deferred callback.
Drive(i) ==
  LET f == futures[i]
      op == Head(f.deferred)
  IN /\ consumer # "none" /\ ~done
     /\ i \in Range(semisIndices)
     /\ f.deferred # <<>> /\ HasResult(f)
     /\ chains' = [chains EXCEPT ![i] = Ran(@, op, SourceTry(f))]
     /\ futures' = [futures EXCEPT ![i] = [Continue(op, SourceTry(f)) EXCEPT !.deferred = Tail(f.deferred)]]
     /\ UNCHANGED <<alwaysDefer, lastTaken, promise, thens, consumer, semisIndices, results, done>>

\* Mutant of PutBack: results go to the front of the vector.
PutBack_InOrder(i, semis) ==
  IF i \in DOMAIN semis THEN SourceTry(futures[semis[i]]) ELSE results[i]
\* res[semisIndices[k]] = semisRes[k]
PutBack(i, semis) ==
  IF i \in Range(semis) THEN SourceTry(futures[i]) ELSE results[i]

\* collectAllSafe() makes an error of the first error.
Unwrap(res) ==
  LET errors == {i \in Slots : res[i] # Unset /\ res[i][1] = "error"}
  IN IF errors = {} THEN res
     ELSE LET first == CHOOSE i \in errors : \A j \in errors : i <= j
          IN [i \in Slots |-> res[first]]

Finish ==
  /\ consumer # "none" /\ ~done
  /\ \A i \in Range(semisIndices) : SemiIsReady(futures[i])
  /\ LET res == [i \in Slots |-> PutBack(i, semisIndices)]
     IN results' = IF consumer = "collectAllSafe" THEN Unwrap(res) ELSE res
  /\ done' = TRUE
  /\ UNCHANGED <<alwaysDefer, lastTaken, promise, futures, chains, thens, consumer, semisIndices>>

Next ==
  \/ \E i \in Slots, method \in Methods : \E callback \in Callbacks(method) : Then(i, method, callback)
  \/ \E to, from \in Slots : Move(to, from)
  \/ \E p \in Promises : \E try \in Tries(p) : Fulfil(p, try)
  \/ \E how \in {"collectAll", "collectAllSafe", "collectAllValid"} : Consume(how)
  \/ \E i \in Slots : Drive(i)
  \/ Finish

Spec == Init /\ [][Next]_vars

-----------------------------------------------------------------------------
(* The reference: a chain is its continuations applied one after the other. *)

SourceValue(source) == IF source.type = "promise" THEN promise[source.from] ELSE source.try

Apply(try, op) == SourceTry(Continue(op, try))
Composed(chain) ==
  LET value[k \in 0 .. Len(chain.ops)] ==
        IF k = 0 THEN SourceValue(chain.source) ELSE Apply(value[k - 1], chain.ops[k])
  IN value

Expected ==
  LET all == [i \in Slots |->
               IF chains[i].source.type = "empty" THEN Unset ELSE Composed(chains[i])[Len(chains[i].ops)]]
  IN IF consumer = "collectAllSafe" THEN Unwrap(all) ELSE all

\* The callbacks that the composition calls.
Called(chain) ==
  {chain.ops[k].id : k \in {k \in DOMAIN chain.ops : Calls(chain.ops[k], Composed(chain)[k - 1])}}

\* ImmediateFuture.h:17-34, 386-388: whenever continuations happen to run, in a debug
\* or an optimised build, eagerly or lazily, collectAll() gives the results of the
\* plain composition, in the order of its arguments, and each callback that the
\* composition calls has run exactly once, in the order of its chain.
ResultIndependentOfTiming ==
  done =>
    /\ results = Expected
    /\ \A i \in Slots : chains[i].source.type # "empty" =>
         /\ Range(chains[i].ran) = Called(chains[i])
         /\ \A a, b \in DOMAIN chains[i].ran : a < b => chains[i].ran[a] < chains[i].ran[b]
=============================================================================
