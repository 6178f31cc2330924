------------------------------ MODULE PathMap ------------------------------
(***************************************************************************)
(* eden/common/utils/PathMap.h and PathMapMutator.h: a dictionary kept as  *)
(* a sorted vector, with or without regard to case, and the mutator that   *)
(* delays the removals and keeps the additions in a sorted suffix until it *)
(* must compact.                                                           *)
(***************************************************************************)
EXTENDS Integers, Sequences, SequencesExt, Functions, FiniteSetsExt

CONSTANTS MaxEntries, MaxOther, MapValues   \* bounds, and the values

VARIABLES
  caseSensitive,  \* PathMap::compare_
  entries,        \* the vector of both classes, a sequence of <<key, value>>
  mutator,        \* [suffixStart, erased] of a PathMapMutator, or NoMutator
  second,         \* another PathMap, an argument of collatePathMaps()
  dict,           \* history: what the map holds, by folded key
  answer, meant   \* the last answer of the code, and the right one

mapVars == <<caseSensitive, entries, mutator, second, dict, answer, meant>>

\* Four names in the order of their bytes.
NameOrder == <<"A", "B", "a", "b">>
Names == Range(NameOrder)
Byte(name) == CHOOSE i \in DOMAIN NameOrder : NameOrder[i] = name
ToLower(name) == CASE name = "A" -> "a" [] name = "B" -> "b" [] OTHER -> name
Folded(sensitive, name) == IF sensitive THEN name ELSE ToLower(name)

isPathPieceLess(a, b, sensitive) == Byte(Folded(sensitive, a)) < Byte(Folded(sensitive, b))
isPathPieceEqual(a, b, sensitive) == Folded(sensitive, a) = Folded(sensitive, b)

Less(a, b) == isPathPieceLess(a, b, caseSensitive)
NoMutator == [suffixStart |-> -1, erased |-> {}]

\* std::lower_bound() on the elements from..to; the index after `to` if all are less.
LowerBound(vec, from, to, key, sensitive) ==
  from + Cardinality({i \in from .. to : isPathPieceLess(vec[i][1], key, sensitive)})

\* std::stable_sort().
StableSort(vec, sensitive) ==
  LET before(i, j) == \/ isPathPieceLess(vec[i][1], vec[j][1], sensitive)
                      \/ i < j /\ ~isPathPieceLess(vec[j][1], vec[i][1], sensitive)
      order == SetToSortSeq(DOMAIN vec, before)
  IN [i \in DOMAIN vec |-> vec[order[i]]]

\* std::inplace_merge() of the two parts.
Merge(prefix, suffix, sensitive) ==
  FoldLeft(LAMBDA m, k :
             IF m.i <= Len(prefix) /\
                (m.j > Len(suffix) \/ ~isPathPieceLess(suffix[m.j][1], prefix[m.i][1], sensitive))
             THEN [m EXCEPT !.out = Append(@, prefix[m.i]), !.i = @ + 1]
             ELSE [m EXCEPT !.out = Append(@, suffix[m.j]), !.j = @ + 1],
           [i |-> 1, j |-> 1, out |-> <<>>],
           [k \in 1 .. Len(prefix) + Len(suffix) |-> k]).out

-----------------------------------------------------------------------------
(* PathMap. *)

Find(vec, key, sensitive) ==
  LET at == LowerBound(vec, 1, Len(vec), key, sensitive) IN
  IF at <= Len(vec) /\ ~isPathPieceLess(key, vec[at][1], sensitive) THEN at ELSE 0

\* insert(), emplace() and, with a default value, operator[].
Inserted(vec, key, value, sensitive) ==
  IF Find(vec, key, sensitive) # 0 THEN vec
  ELSE InsertAt(vec, LowerBound(vec, 1, Len(vec), key, sensitive), <<key, value>>)

\* PathMap(Vector&&): sorted and freed of duplicates only if that is needed.
IsInOrder(vec, sensitive) == \A i \in 2 .. Len(vec) : isPathPieceLess(vec[i - 1][1], vec[i][1], sensitive)
Unique(vec, sensitive) ==
  LET first(i) == i = 1 \/ ~isPathPieceEqual(vec[i - 1][1], vec[i][1], sensitive)
      kept == SetToSortSeq({i \in DOMAIN vec : first(i)}, <)
  IN [n \in DOMAIN kept |-> vec[kept[n]]]
FromVector(vec, sensitive) ==
  IF IsInOrder(vec, sensitive) THEN vec ELSE Unique(StableSort(vec, sensitive), sensitive)

\* collatePathMaps().
NullOpt == "nullopt"
CollateSensitivity(a, b) == a.sensitive = b.sensitive /\ a.sensitive

Collate(a, b) ==
  LET s == CollateSensitivity(a, b)
      step(m, k) ==
        LET hasA == m.i <= Len(a.vec)  hasB == m.j <= Len(b.vec)
            x == IF hasA THEN a.vec[m.i] ELSE <<NullOpt, NullOpt>>
            y == IF hasB THEN b.vec[m.j] ELSE <<NullOpt, NullOpt>>
        IN IF ~hasA /\ ~hasB THEN m
           ELSE IF hasA /\ hasB /\ isPathPieceEqual(x[1], y[1], s)
             THEN [i |-> m.i + 1, j |-> m.j + 1, out |-> Inserted(m.out, x[1], <<x[2], y[2]>>, s)]
           ELSE IF hasA /\ (hasB => isPathPieceLess(x[1], y[1], s))
             THEN [m EXCEPT !.i = @ + 1, !.out = Inserted(@, x[1], <<x[2], NullOpt>>, s)]
           ELSE [m EXCEPT !.j = @ + 1, !.out = Inserted(@, y[1], <<NullOpt, y[2]>>, s)]
  IN FoldLeft(step, [i |-> 1, j |-> 1, out |-> <<>>], [k \in 1 .. Len(a.vec) + Len(b.vec) |-> k]).out

-----------------------------------------------------------------------------
(* PathMapMutator. *)

\* findImpl(): an index, 0 for end(); the second is whether it is marked as erased.
FindImpl(key) ==
  LET n == mutator.suffixStart
      inPrefix == LowerBound(entries, 1, n, key, caseSensitive)
      inSuffix == LowerBound(entries, n + 1, Len(entries), key, caseSensitive)
      matches(i, end) == i <= end /\ ~Less(key, entries[i][1])
  IN IF matches(inPrefix, n) THEN inPrefix ELSE IF matches(inSuffix, Len(entries)) THEN inSuffix ELSE 0
IsErased(i) == i \in mutator.erased
MutatorFind(key) == LET i == FindImpl(key) IN IF i # 0 /\ IsErased(i) THEN 0 ELSE i

Kept(from, to) ==
  LET kept == SetToSortSeq((from .. to) \ mutator.erased, <) IN [n \in DOMAIN kept |-> entries[kept[n]]]

\* compact()
Compacted == Merge(Kept(1, mutator.suffixStart), Kept(mutator.suffixStart + 1, Len(entries)), caseSensitive)

\* Mutant: the suffix is appended to in any order.
BreaksSuffixOrder_Never(key) == FALSE
BreaksSuffixOrder(key) == Len(entries) > mutator.suffixStart /\ ~Less(Last(entries)[1], key)

\* The end of emplace() and insert_or_assign().
AppendToSuffix(key, value) ==
  LET base == IF BreaksSuffixOrder(key) THEN Compacted ELSE entries IN
  /\ entries' = Append(base, <<key, value>>)
  /\ mutator' = IF BreaksSuffixOrder(key) THEN [suffixStart |-> Len(base), erased |-> {}] ELSE mutator

Revive(i, key, value) ==
  /\ entries' = [entries EXCEPT ![i] = <<key, value>>]
  /\ mutator' = [mutator EXCEPT !.erased = @ \ {i}]

-----------------------------------------------------------------------------
Dict(vec, sensitive) ==
  [f \in {Folded(sensitive, vec[i][1]) : i \in DOMAIN vec} |->
     vec[Min({i \in DOMAIN vec : Folded(sensitive, vec[i][1]) = f})]]
Without(f) == Restrict(dict, DOMAIN dict \ {f})
Holds(key) == Folded(caseSensitive, key) \in DOMAIN dict
Put(key, value) == (Folded(caseSensitive, key) :> <<key, value>>) @@ dict

Init ==
  /\ caseSensitive \in BOOLEAN
  /\ \E n \in 0 .. MaxEntries : \E vec \in [1 .. n -> Names \X MapValues] :
       entries = FromVector(vec, caseSensitive) /\ dict = Dict(vec, caseSensitive)
  /\ mutator = NoMutator
  /\ second = [sensitive |-> TRUE, vec |-> <<>>]
  /\ answer = FALSE /\ meant = FALSE

InsertSecond ==
  /\ mutator = NoMutator /\ Len(second.vec) < MaxOther
  /\ \E key \in Names, value \in MapValues, s \in BOOLEAN :
       /\ second.vec # <<>> => s = second.sensitive
       /\ second' = [sensitive |-> s, vec |-> Inserted(second.vec, key, value, s)]
  /\ UNCHANGED <<caseSensitive, entries, mutator, dict, answer, meant>>

Insert ==
  /\ mutator = NoMutator /\ second.vec = <<>> /\ Len(entries) < MaxEntries
  /\ \E key \in Names, value \in MapValues :
       /\ entries' = Inserted(entries, key, value, caseSensitive)
       /\ answer' = (Find(entries, key, caseSensitive) = 0)
       /\ meant' = ~Holds(key)
       /\ dict' = IF Holds(key) THEN dict ELSE Put(key, value)
  /\ UNCHANGED <<caseSensitive, mutator, second>>

Erase ==
  /\ mutator = NoMutator /\ second.vec = <<>>
  /\ \E key \in Names :
       LET i == Find(entries, key, caseSensitive) IN
       /\ entries' = IF i = 0 THEN entries ELSE RemoveAt(entries, i)
       /\ answer' = (i # 0) /\ meant' = Holds(key)
       /\ dict' = Without(Folded(caseSensitive, key))
  /\ UNCHANGED <<caseSensitive, mutator, second>>

\* PathMapMutator(Map&&)
Mutate ==
  /\ mutator = NoMutator /\ second.vec = <<>>
  /\ mutator' = [suffixStart |-> Len(entries), erased |-> {}]
  /\ UNCHANGED <<caseSensitive, entries, second, dict, answer, meant>>

MutatorErase ==
  /\ mutator # NoMutator
  /\ \E key \in Names :
       LET i == MutatorFind(key) IN
       /\ mutator' = IF i = 0 THEN mutator ELSE [mutator EXCEPT !.erased = @ \union {i}]
       /\ answer' = (i # 0) /\ meant' = Holds(key)
       /\ dict' = Without(Folded(caseSensitive, key))
  /\ UNCHANGED <<caseSensitive, entries, second>>

MutatorEmplace ==
  /\ mutator # NoMutator /\ Len(entries) <= MaxEntries
  /\ \E key \in Names, value \in MapValues :
       LET i == FindImpl(key) IN
       /\ CASE i # 0 /\ ~IsErased(i) -> UNCHANGED <<entries, mutator>>
            [] i # 0 /\ IsErased(i)  -> Revive(i, key, value)
            [] i = 0                 -> AppendToSuffix(key, value)
       /\ answer' = (i = 0 \/ IsErased(i)) /\ meant' = ~Holds(key)
       /\ dict' = IF Holds(key) THEN dict ELSE Put(key, value)
  /\ UNCHANGED <<caseSensitive, second>>

MutatorInsertOrAssign ==
  /\ mutator # NoMutator /\ Len(entries) <= MaxEntries
  /\ \E key \in Names, value \in MapValues :
       LET i == FindImpl(key) IN
       /\ CASE i # 0 /\ ~IsErased(i) -> entries' = [entries EXCEPT ![i][2] = value] /\ UNCHANGED mutator
            [] i # 0 /\ IsErased(i)  -> Revive(i, key, value)
            [] i = 0                 -> AppendToSuffix(key, value)
       /\ answer' = (i = 0 \/ IsErased(i)) /\ meant' = ~Holds(key)
       /\ dict' = IF Holds(key) THEN [dict EXCEPT ![Folded(caseSensitive, key)][2] = value]
                  ELSE Put(key, value)
  /\ UNCHANGED <<caseSensitive, second>>

Finalize ==
  /\ mutator # NoMutator
  /\ entries' = Compacted /\ mutator' = NoMutator
  /\ UNCHANGED <<caseSensitive, second, dict, answer, meant>>

Next ==
  \/ Insert \/ Erase \/ InsertSecond
  \/ Mutate \/ MutatorErase \/ MutatorEmplace \/ MutatorInsertOrAssign \/ Finalize

Spec == Init /\ [][Next]_mapVars

-----------------------------------------------------------------------------
(* The properties. *)

\* PathMap.h:22-35 and PathMapMutator.h:21-37: the vector is a dictionary.  Every
\* lookup finds what was last stored under the name, in the case it was stored in,
\* whatever was erased, revived, appended out of order or compacted in between;
\* insertions and erasures say truly whether they took place; a finished map is
\* sorted and has every entry once.
MapIsDictionary ==
  /\ answer = meant
  /\ \A key \in Names :
       LET i == IF mutator = NoMutator THEN Find(entries, key, caseSensitive) ELSE MutatorFind(key) IN
       IF Holds(key) THEN i # 0 /\ entries[i] = dict[Folded(caseSensitive, key)] ELSE i = 0
  /\ mutator = NoMutator => IsInOrder(entries, caseSensitive) /\ Len(entries) = Cardinality(DOMAIN dict)

\* PathMap.h:383-391: collatePathMaps() pairs the entries of both maps by key, when
\* both compare alike.  (When they do not, entries that differ in case only are lost;
\* the code logs a warning.)
CollatedByKey ==
  LET a == [sensitive |-> caseSensitive, vec |-> entries]
      da == Dict(entries, caseSensitive)  db == Dict(second.vec, second.sensitive)
      value(d, f) == IF f \in DOMAIN d THEN d[f][2] ELSE NullOpt
      out == Collate(a, second)
  IN mutator = NoMutator /\ caseSensitive = second.sensitive =>
       /\ IsInOrder(out, caseSensitive)
       /\ Range(out) = {<<IF f \in DOMAIN da THEN da[f][1] ELSE db[f][1], <<value(da, f), value(db, f)>>>> :
                          f \in DOMAIN da \union DOMAIN db}

\* PathMap.h:60-430, PathMapMutator.h:39-243: one map is a dictionary and two are collated by key.
PathMapSound == MapIsDictionary /\ CollatedByKey
=============================================================================
