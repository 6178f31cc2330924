----------------------------- MODULE PathFuncs -----------------------------
(***************************************************************************)
(* eden/common/utils/PathFuncs{.h,.cpp}, the POSIX build: PathComponent,   *)
(* RelativePath, AbsolutePath, their iterators, and the functions that     *)
(* split, join and normalise paths.                                        *)
(*                                                                         *)
(* A string is a sequence of characters.  Two strings grow one character   *)
(* at a time, so every pair of strings up to the bounds is a state, and    *)
(* the functions are compared in it with what they mean on the list of a   *)
(* path's components.  One iterator moves back and forth over the first    *)
(* string.  Positions count from 0; -1 stands for nullptr and npos.        *)
(***************************************************************************)
EXTENDS Integers, Sequences, SequencesExt, FiniteSetsExt

CONSTANTS MaxText, MaxOther   \* bounds on the two strings

VARIABLES text, other, iter

pathVars == <<text, other, iter>>

Slash == <<"/">>
Dot == <<".">>
DotDot == <<".", ".">>
Chars == {"/", ".", "a"}
npos == -1
SubStr(s, from, to) == SubSeq(s, from + 1, to)
IsDirSeparator(s, p) == s[p + 1] = "/"
Separators(s) == {p \in 0 .. Len(s) - 1 : IsDirSeparator(s, p)}

findPathSeparator(s, start) ==
  LET found == {p \in Separators(s) : p >= start} IN IF found = {} THEN npos ELSE Min(found)
rfindPathSeparator(s) == IF Separators(s) = {} THEN npos ELSE Max(Separators(s))

dirname(s) == IF rfindPathSeparator(s) = npos THEN <<>> ELSE SubStr(s, 0, rfindPathSeparator(s))
basename(s) == SubStr(s, rfindPathSeparator(s) + 1, Len(s))

\* The strings between the separators, some of them empty.
Pieces(s) ==
  LET at == SetToSortSeq(Separators(s), <)  n == Len(at) IN
  [i \in 1 .. n + 1 |-> SubStr(s, IF i = 1 THEN 0 ELSE at[i - 1] + 1, IF i > n THEN Len(s) ELSE at[i])]

Join(components) ==
  FoldLeft(LAMBDA joined, c : IF joined = <<>> THEN c ELSE joined \o Slash \o c, <<>>, components)

-----------------------------------------------------------------------------
(* The sanity checks: they throw where these are false. *)

PathComponentSanityCheck(s) == Separators(s) = {} /\ s \notin {<<>>, Dot, DotDot}

ComposedPathSanityCheck(s) == \A component \in ToSet(Pieces(s)) : PathComponentSanityCheck(component)

RelativePathSanityCheck(s) ==
  s # <<>> => Head(s) # "/" /\ Last(s) # "/" /\ ComposedPathSanityCheck(s)

AbsolutePathSanityCheck(s) ==
  /\ s # <<>> /\ Head(s) = "/"
  /\ Len(s) > 1 => Last(s) # "/" /\ ComposedPathSanityCheck(Tail(s))

IsPath(s, isAbsolute) == IF isAbsolute THEN AbsolutePathSanityCheck(s) ELSE RelativePathSanityCheck(s)

-----------------------------------------------------------------------------
(* The iterators.  An iterator of paths() stands after a prefix, one of    *)
(* components() holds the start and the end of a component, one of         *)
(* suffixes() the start of a suffix of the path without its root.          *)

PathBegin(isAbsolute) == IF isAbsolute THEN 1 ELSE 0
NextStop(s, p) == Min({q \in p + 1 .. Len(s) : q = Len(s) \/ IsDirSeparator(s, q)})
PreviousStop(s, p, stop) == Max({q \in stop .. p - 1 : q = stop \/ IsDirSeparator(s, q)})

PrefixAdvance(it, s) ==
  IF it.reverse /\ it.pos = npos THEN [it EXCEPT !.pos = PathBegin(it.isAbsolute)]
  ELSE IF ~it.reverse /\ it.pos = Len(s) THEN [it EXCEPT !.pos = npos]
  ELSE [it EXCEPT !.pos = NextStop(s, it.pos)]

PrefixRetreat(it, s) ==
  LET stop == PathBegin(it.isAbsolute) IN
  IF it.reverse /\ it.pos <= stop THEN [it EXCEPT !.pos = npos]
  ELSE IF ~it.reverse /\ it.pos = npos THEN [it EXCEPT !.pos = Len(s)]
  ELSE [it EXCEPT !.pos = PreviousStop(s, it.pos, stop)]

ComponentEnd(s, start) == Min({q \in start .. Len(s) : q = Len(s) \/ IsDirSeparator(s, q)})
ComponentStart(s, begin, end) == Max({q \in begin .. end : q = begin \/ IsDirSeparator(s, q - 1)})

ComponentAdvance(it, s) ==
  IF it.end = Len(s) THEN [it EXCEPT !.pos = it.end]
  ELSE [it EXCEPT !.pos = it.end + 1, !.end = ComponentEnd(s, it.end + 1)]

ComponentRetreat(it, s) ==
  LET begin == PathBegin(it.isAbsolute) IN
  IF it.pos = begin THEN [it EXCEPT !.end = begin]
  ELSE [it EXCEPT !.end = it.pos - 1, !.pos = ComponentStart(s, begin, it.pos - 1)]

WithoutRoot(s, isAbsolute) == IF isAbsolute THEN Tail(s) ELSE s

SuffixAdvance(it, s) ==
  LET p == WithoutRoot(s, it.isAbsolute)  next == findPathSeparator(p, it.pos + 1) IN
  [it EXCEPT !.pos = IF it.pos = npos THEN 0 ELSE IF next = npos THEN Len(p) ELSE next + 1]

SuffixRetreat(it, s) ==
  LET p == WithoutRoot(s, it.isAbsolute) IN
  [it EXCEPT !.pos = IF it.pos = 0 THEN npos ELSE rfindPathSeparator(SubStr(p, 0, it.pos - 1)) + 1]

Advance(it, s) ==
  CASE it.over = "paths" -> PrefixAdvance(it, s)
    [] it.over = "components" -> ComponentAdvance(it, s)
    [] it.over = "suffixes" -> SuffixAdvance(it, s)
Retreat(it, s) ==
  CASE it.over = "paths" -> PrefixRetreat(it, s)
    [] it.over = "components" -> ComponentRetreat(it, s)
    [] it.over = "suffixes" -> SuffixRetreat(it, s)
Increment(it, s) == IF it.reverse THEN Retreat(it, s) ELSE Advance(it, s)
Decrement(it, s) == IF it.reverse THEN Advance(it, s) ELSE Retreat(it, s)

piecePaths(it, s) == SubStr(s, 0, it.pos)
pieceComponents(it, s) == SubStr(s, it.pos, it.end)
pieceSuffixes(it, s) == LET p == WithoutRoot(s, it.isAbsolute) IN SubStr(p, it.pos, Len(p))
piece(it, s) ==
  CASE it.over = "paths" -> piecePaths(it, s)
    [] it.over = "components" -> pieceComponents(it, s)
    [] it.over = "suffixes" -> pieceSuffixes(it, s)

remainder(s, pos) == IF pos < Len(s) THEN SubStr(s, pos + 1, Len(s)) ELSE <<>>

\* The constructors and createRange().
BeginPaths(it, s) == [it EXCEPT !.pos = IF it.reverse THEN Len(s) ELSE PathBegin(it.isAbsolute)]

BeginComponents(it, s) ==
  LET begin == PathBegin(it.isAbsolute) IN
  IF it.reverse THEN [it EXCEPT !.pos = ComponentStart(s, begin, Len(s)), !.end = Len(s)]
  ELSE [it EXCEPT !.pos = begin, !.end = ComponentEnd(s, begin)]

BeginSuffixes(it, s) ==
  IF it.reverse THEN SuffixRetreat([it EXCEPT !.pos = Len(WithoutRoot(s, it.isAbsolute))], s) ELSE it

Begin(over, reverse, isAbsolute, s) ==
  LET it == [over |-> over, reverse |-> reverse, isAbsolute |-> isAbsolute, pos |-> 0, end |-> 0,
             at |-> 0, cameBack |-> FALSE]
  IN CASE over = "paths" -> BeginPaths(it, s)
       [] over = "components" -> BeginComponents(it, s)
       [] over = "suffixes" -> BeginSuffixes(it, s)

\* operator== with end() or rend().
AtEndPaths(it, s) == it.pos = npos
AtEndComponents(it, s) ==
  LET end == IF it.reverse THEN PathBegin(it.isAbsolute) ELSE Len(s) IN it.pos = end /\ it.end = end
AtEndSuffixes(it, s) == it.pos = IF it.reverse THEN npos ELSE Len(WithoutRoot(s, it.isAbsolute))
AtEnd(it, s) ==
  CASE it.over = "paths" -> AtEndPaths(it, s)
    [] it.over = "components" -> AtEndComponents(it, s)
    [] it.over = "suffixes" -> AtEndSuffixes(it, s)
-----------------------------------------------------------------------------
(* The functions on one or two paths. *)

\* The positions at which an iterator of AbsolutePath::paths() stops.
Stops(s) ==
  LET at[n \in 0 .. Len(s)] ==
        IF n = 0 THEN Begin("paths", FALSE, TRUE, s)
        ELSE IF at[n - 1].pos = npos THEN at[n - 1] ELSE Advance(at[n - 1], s)
  IN SelectSeq([n \in 1 .. Len(s) + 1 |-> at[n - 1].pos], LAMBDA p : p # npos)

Throws == <<"throws">>

relativize(this, child) ==
  LET mine == Stops(this)  theirs == Stops(child) IN
  IF Len(mine) <= Len(theirs) /\ \A i \in DOMAIN mine : SubStr(this, 0, mine[i]) = SubStr(child, 0, theirs[i])
  THEN remainder(child, theirs[Len(mine)]) ELSE Throws

\* Mutant: a name that only begins with the parent's counts as being inside it.
findParent_AnyPrefix(path, parent) ==
  IF Len(path) <= Len(parent) \/ SubStr(path, 0, Len(parent)) # parent THEN npos ELSE Len(parent)

findParent(path, parent) ==
  IF Len(path) <= Len(parent) THEN npos
  ELSE IF parent = <<>> THEN 0
  ELSE IF ~IsDirSeparator(path, Len(parent)) \/ SubStr(path, 0, Len(parent)) # parent THEN npos
  ELSE Len(parent)

isSubDirOf(path, parent) == findParent(path, parent) # npos

AddRelative(a, b) == IF a = <<>> THEN b ELSE IF b = <<>> THEN a ELSE a \o Slash \o b
AddToAbsolute(a, b) == IF b = <<>> THEN a ELSE IF a = Slash THEN a \o b ELSE a \o Slash \o b

Checked(s) == IF RelativePathSanityCheck(s) THEN s ELSE Throws

substr(path, pos) ==
  LET rest == SubStr(path, pos, Len(path)) IN
  Checked(IF rest # <<>> /\ Head(rest) = "/" THEN Tail(rest) ELSE rest)

filename(path) == IF path = <<>> THEN path ELSE piece(Begin("suffixes", TRUE, FALSE, path), path)

stem(path) ==
  LET name == filename(path)  periods == {p \in 0 .. Len(name) - 1 : name[p + 1] = "."} IN
  IF periods = {} \/ Max(periods) = 0 THEN name ELSE Checked(SubStr(name, 0, Max(periods)))

splitFirst(path) ==
  LET at == findPathSeparator(path, 0) IN
  IF at # npos THEN <<SubStr(path, 0, at), SubStr(path, at + 1, Len(path))>> ELSE <<path, <<>>>>

\* canonicalPathData(): processSlash() for every piece but an empty last one.
IgnoresDotDot(data) == data.components # <<>> /\ Last(data.components) = DotDot

ProcessSlash(data, component, isFirst) ==
  IF component = <<>> THEN [data EXCEPT !.isAbsolute = @ \/ isFirst]
  ELSE IF component = Dot THEN data
  ELSE IF component # DotDot THEN [data EXCEPT !.components = Append(@, component)]
  ELSE IF data.components = <<>> THEN
         IF data.isAbsolute THEN data ELSE [data EXCEPT !.components = <<DotDot>>]
  ELSE IF IgnoresDotDot(data) THEN data ELSE [data EXCEPT !.components = Front(@)]

canonicalPathData(s) ==
  LET Processed(pieces) == FoldLeftDomain(LAMBDA data, i : ProcessSlash(data, pieces[i], i = 1),
                                          [components |-> <<>>, isAbsolute |-> FALSE], pieces)
      WithoutEmptyLast(pieces) == IF Last(pieces) = <<>> THEN Front(pieces) ELSE pieces
  IN Processed(WithoutEmptyLast(Pieces(s)))

canonicalPath(path, base) ==
  LET Ups(components) == Max({k \in 0 .. Len(components) : \A i \in 1 .. k : components[i] = DotDot})
      From(start, components, ups) ==
        SubSeq(start, 1, Max({0, Len(start) - ups})) \o SubSeq(components, ups + 1, Len(components))
      Combined(canon, start) == IF canon.isAbsolute THEN canon.components
                                ELSE From(start, canon.components, Ups(canon.components))
  IN Slash \o Join(Combined(canonicalPathData(path), canonicalPathData(base).components))

joinAndNormalize(base, path) ==
  LET Joined(parts) == IF parts # <<>> /\ Head(parts) = DotDot THEN <<"EXDEV">> ELSE Join(parts)
  IN IF path # <<>> /\ Head(path) = "/" THEN <<"EPERM">>
     ELSE Joined(canonicalPathData(AddRelative(base, path)).components)

\* getcwd(), where it matters.
Cwd == <<"/", "a">>

expandUser(path, homeDir) ==
  LET hasHome == path # <<>> /\ Head(path) = "~"
      expanded == IF ~hasHome THEN path
                  ELSE IF Len(path) = 1 THEN homeDir
                  ELSE homeDir \o Slash \o SubStr(path, 2, Len(path))
  IN IF hasHome /\ ((Len(path) > 1 /\ path[2] # "/") \/ homeDir = <<>>) THEN Throws
     ELSE canonicalPath(expanded, Cwd)

-----------------------------------------------------------------------------
NoIterator == [over |-> "none"]

Init == text = <<>> /\ other = <<>> /\ iter = NoIterator

Grow ==
  /\ Len(text) < MaxText /\ other = <<>> /\ iter = NoIterator
  /\ \E c \in Chars : text' = Append(text, c)
  /\ UNCHANGED <<other, iter>>

GrowOther ==
  /\ Len(other) < MaxOther /\ iter = NoIterator
  /\ \E c \in Chars : other' = Append(other, c)
  /\ UNCHANGED <<text, iter>>

\* allPaths() and rallPaths() of a relative path, paths() and rpaths() of an absolute one,
\* components(), rcomponents(), suffixes(), rsuffixes().
MakeIterator ==
  /\ iter = NoIterator /\ other = <<>>
  /\ \E over \in {"paths", "components", "suffixes"}, reverse \in BOOLEAN, isAbsolute \in BOOLEAN :
       IsPath(text, isAbsolute) /\ iter' = Begin(over, reverse, isAbsolute, text)
  /\ UNCHANGED <<text, other>>

\* The caller compares with end() before it goes on, and stays behind begin().  (A debug build
\* stops in PathSuffixIterator::advance() where a release build comes back from rsuffixes().end().)
IncrementIterator ==
  /\ iter # NoIterator /\ ~AtEnd(iter, text)
  /\ iter' = [Increment(iter, text) EXCEPT !.at = @ + 1]
  /\ UNCHANGED <<text, other>>

DecrementIterator ==
  /\ iter # NoIterator /\ iter.at > 0
  /\ iter' = [Decrement(iter, text) EXCEPT !.at = @ - 1, !.cameBack = @ \/ AtEnd(iter, text)]
  /\ UNCHANGED <<text, other>>

Next == Grow \/ GrowOther \/ MakeIterator \/ IncrementIterator \/ DecrementIterator

Spec == Init /\ [][Next]_pathVars

-----------------------------------------------------------------------------
(* What paths mean: lists of components. *)

Components(s) == SelectSeq(Pieces(s), LAMBDA c : c # <<>>)

\* The names that are left when "." and ".." are followed from the root.
Resolve(components) ==
  FoldLeft(LAMBDA names, c : IF c = Dot THEN names
                             ELSE IF c # DotDot THEN Append(names, c)
                             ELSE IF names = <<>> THEN names ELSE Front(names),
           <<>>, components)

\* A name up to its last period, but for a period it begins with (PathFuncs.h:1542-1550).
WithoutExtension(name) ==
  LET periods == {i \in 2 .. Len(name) : name[i] = "."} IN
  IF periods = {} THEN name ELSE SubSeq(name, 1, Max(periods) - 1)

\* How far above its start a relative path leads.
Climbs(components) ==
  FoldLeft(LAMBDA d, c : IF c = Dot THEN d
                         ELSE IF c # DotDot THEN [d EXCEPT !.depth = @ + 1]
                         ELSE IF d.depth > 0 THEN [d EXCEPT !.depth = @ - 1] ELSE [d EXCEPT !.above = @ + 1],
           [depth |-> 0, above |-> 0], components).above

IsRelative(s) == s = <<>> \/ Head(s) # "/"
RelativeOf(components) == Join(components)
AbsoluteOf(components) == Slash \o Join(components)

ResolvedPath(path, base) ==
  AbsoluteOf(Resolve(IF IsRelative(path) THEN Components(base) \o Components(path) ELSE Components(path)))

\* What the iterator yields as its at-th item, counted from 0.
Items(it, s) ==
  LET cs == Components(s)  n == Len(cs)
      forward ==
        CASE it.over = "paths" ->
               [i \in 1 .. n + 1 |-> (IF it.isAbsolute THEN Slash ELSE <<>>) \o Join(SubSeq(cs, 1, i - 1))]
          [] it.over = "components" -> cs
          [] it.over = "suffixes" -> [i \in 1 .. n |-> Join(SubSeq(cs, i, n))]
  IN IF it.reverse THEN Reverse(forward) ELSE forward
-----------------------------------------------------------------------------
(* The properties. *)

\* RelativePath and AbsolutePath are lists of valid components: the checks of
\* PathFuncs.h:1231-1290 and 1569-1592 accept exactly the joined lists, and
\* dirname(), basename(), splitFirst(), filename(), stem(), substr(), isSubDirOf(),
\* relativize() and operator+ do to the string what they should do to the list.  Of
\* absolute paths this is claimed for dirname() below the first level and for relativize()
\* from a directory below the root, of stem() where what it leaves of the name is a
\* component; README.md has the cases outside of that.
AreComponentLists(cs, ds) ==
  LET n == Len(cs)
      valid == \A i \in DOMAIN cs : PathComponentSanityCheck(cs[i])
  IN /\ RelativePathSanityCheck(text) <=> valid /\ text = RelativeOf(cs)
     /\ AbsolutePathSanityCheck(text) <=> valid /\ text = AbsoluteOf(cs)
     /\ RelativePathSanityCheck(text) /\ text # <<>> =>
          /\ basename(text) = Last(cs) /\ dirname(text) = RelativeOf(Front(cs))
          /\ filename(text) = Last(cs) /\ splitFirst(text) = <<Head(cs), RelativeOf(Tail(cs))>>
          /\ PathComponentSanityCheck(WithoutExtension(Last(cs))) => stem(text) = WithoutExtension(Last(cs))
          /\ substr(text, Len(Head(cs))) = RelativeOf(Tail(cs))
     /\ AbsolutePathSanityCheck(text) /\ text # Slash =>
          /\ basename(text) = Last(cs)
          /\ n > 1 => dirname(text) = AbsoluteOf(Front(cs))
     /\ RelativePathSanityCheck(text) /\ RelativePathSanityCheck(other) =>
          /\ AddRelative(other, text) = RelativeOf(ds \o cs)
          /\ AddToAbsolute(AbsoluteOf(ds), text) = AbsoluteOf(ds \o cs)
          /\ isSubDirOf(text, other) <=> Len(ds) < n /\ SubSeq(cs, 1, Len(ds)) = ds
     /\ AbsolutePathSanityCheck(text) /\ AbsolutePathSanityCheck(other) /\ other # Slash =>
          relativize(other, text) =
            IF Len(ds) <= n /\ SubSeq(cs, 1, Len(ds)) = ds THEN RelativeOf(SubSeq(cs, Len(ds) + 1, n))
            ELSE Throws
PathsAreComponentLists == AreComponentLists(Components(text), Components(other))

\* Normalisation, PathFuncs.cpp:63-230 and 328-368: a path is resolved against its base
\* as the kernel would without symbolic links, joinAndNormalize() leaves its base
\* never and says so exactly when the path would, and expandUser() puts the home
\* directory first.  Of canonicalPath() this is claimed for paths that lead at most one
\* directory above their base; README.md has the others.
NormalisedAsResolved ==
  LET all == Components(other) \o Components(text)
      canonicalIsRight(path, base) == canonicalPath(path, base) = ResolvedPath(path, base)
      staysNear(path) == IsRelative(path) => Climbs(Components(path)) <= 1
  IN /\ AbsolutePathSanityCheck(canonicalPath(text, Cwd))
     /\ staysNear(text) => canonicalIsRight(text, Cwd)
     /\ AbsolutePathSanityCheck(other) /\ staysNear(text) => canonicalIsRight(text, other)
     /\ RelativePathSanityCheck(other) =>
          joinAndNormalize(other, text) =
            IF ~IsRelative(text) THEN <<"EPERM">>
            ELSE IF Climbs(all) > 0 THEN <<"EXDEV">> ELSE RelativeOf(Resolve(all))
     /\ AbsolutePathSanityCheck(other) =>
          expandUser(<<"~">> \o text, other) =
            IF text # <<>> /\ IsRelative(text) THEN Throws ELSE AbsoluteOf(Resolve(all))

\* The iterators, PathFuncs.h:797-1135 and 1800-1955, whichever way they are moved:
\* the item they point at is the one that was reached, and end() is reached after
\* the last.  Of components() this is claimed for iterators that do not come back from
\* end() (README.md).
IteratorsVisitComponents ==
  iter # NoIterator /\ ~(iter.cameBack /\ iter.over = "components") =>
    LET items == Items(iter, text) IN
    /\ iter.at <= Len(items)
    /\ AtEnd(iter, text) <=> iter.at = Len(items)
    /\ ~AtEnd(iter, text) => piece(iter, text) = items[iter.at + 1]

\* PathFuncs.h:706-2078 and PathFuncs.cpp:29-368: paths are lists of components, to the
\* operators that compose and compare them, to the iterators that walk over them and
\* to the functions that normalise them.
PathsSound == PathsAreComponentLists /\ IteratorsVisitComponents /\ NormalisedAsResolved
=============================================================================
