------------------------------ MODULE Versions ------------------------------
(***************************************************************************)
(* Versions: how oku orders them, which ones a range selects, what each    *)
(* source of versions lists, and which release Pick takes: internal/resolve *)
(* with the readers of the registries.  How the pages of a forge are read  *)
(* is in Lookup.                                                           *)
(*                                                                         *)
(* A version is a record: nums, its parts between dots, each a number with *)
(* the runs of its tail, and pre, the runs behind "-".  A run is a number  *)
(* (d is TRUE) or a word, given by its place in the alphabet.  Time is 0   *)
(* when unknown, and Cutoff is the last time that the minimum age passes.  *)
(***************************************************************************)
EXTENDS Integers, Sequences, FiniteSets, SequencesExt, TLC

CONSTANTS Sources,  \* what a source publishes: records with from, items, declared (the prefix of its tags),
                    \* latest (what npm's latest tag names) and dated (the Go proxy keeps times)
          Wants,    \* what a list asks for: a record with kind, version and ops
          Cutoff,   \* with a minimum age; 0 without one
          PreWords, \* the words that mark a prerelease
          PreIfNum, \* the words that do when a number follows
          NoneFits  \* no release

VARIABLES source, wanted, picked
versionVars == <<source, wanted, picked>>

-----------------------------------------------------------------------------
Sign(x, y) == IF x < y THEN -1 ELSE IF x > y THEN 1 ELSE 0

\* The words that prerelease matches in a tail or a suffix.
Pre(runs) == \E i \in DOMAIN runs : ~runs[i].d /\
                 (runs[i].v \in PreWords \/ (runs[i].v \in PreIfNum /\ i < Len(runs)))
Prerelease(v) == Pre(v.pre) \/ \E i \in DOMAIN v.nums : Pre(v.nums[i].tail)

\* A run against another: numbers by value, and a number is before a word.
CompareRun(x, y) == IF x.d = y.d THEN Sign(x.v, y.v) ELSE IF x.d THEN -1 ELSE 1

\* compareSuffix: the first runs that differ, or the shorter one.
CompareSuffix(a, b) ==
    LET differ == {i \in DOMAIN a \cap DOMAIN b : CompareRun(a[i], b[i]) # 0}
    IN IF differ = {} THEN Sign(Len(a), Len(b)) ELSE LET i == Min(differ) IN CompareRun(a[i], b[i])

\* comparePart, with tailRank: a bare number is after one with a prerelease word, and before other letters.
TailRank(tail) == IF Pre(tail) THEN 1 ELSE -1
ComparePart(x, y) ==
    CASE x.n # y.n -> Sign(x.n, y.n)
      [] x.tail = <<>> /\ y.tail = <<>> -> 0
      [] x.tail = <<>> -> TailRank(y.tail)
      [] y.tail = <<>> -> 0 - TailRank(x.tail)
      [] OTHER -> CompareSuffix(x.tail, y.tail)

\* Compare: part by part, where a missing one is 0, and then the suffixes.
Part(v, i) == IF i \in DOMAIN v.nums THEN v.nums[i] ELSE [n |-> 0, tail |-> <<>>]
Compare(a, b) ==
    LET differ == {i \in DOMAIN a.nums \cup DOMAIN b.nums : ComparePart(Part(a, i), Part(b, i)) # 0}
    IN CASE differ # {} -> LET i == Min(differ) IN ComparePart(Part(a, i), Part(b, i))
         [] a.pre = <<>> /\ b.pre # <<>> -> 1
         [] a.pre # <<>> /\ b.pre = <<>> -> -1
         [] OTHER -> CompareSuffix(a.pre, b.pre)

\* ceiling: the first version that ^part or ~part excludes.
Raise(part, op) ==
    LET len == Len(part.nums)
        nonzero == {i \in DOMAIN part.nums : part.nums[i].n # 0}
    IN IF op = "^" THEN (IF nonzero = {} THEN len ELSE Min(nonzero)) ELSE (IF len < 2 THEN len ELSE 2)
Ceiling(part, op) ==
    LET raise == Raise(part, op)
    IN [nums |-> [i \in 1..raise |-> [n |-> part.nums[i].n + (IF i = raise THEN 1 ELSE 0), tail |-> <<>>]], pre |-> <<>>]

\* Satisfies: every part of the range.
MeetsPart(v, op, part) ==
    LET order == Compare(v, part) IN
    CASE op \in {"^", "~"} -> order >= 0 /\ Compare(v, Ceiling(part, op)) < 0
      [] op = ">=" -> order >= 0
      [] op = ">" -> order > 0
      [] op = "<=" -> order <= 0
      [] op = "<" -> order < 0
      [] OTHER -> order = 0
Satisfies(v, want) == \A i \in DOMAIN want.ops : MeetsPart(v, want.ops[i].op, want.ops[i].part)

\* A prefix takes a version that starts with it and a dot.
StartsWith(v, p) == /\ Len(v.nums) > Len(p.nums) /\ \A i \in DOMAIN p.nums : v.nums[i] = p.nums[i]
                /\ p.pre = <<>>

\* fits, and Matches for a fixed version.
Fits(v, want) ==
    CASE want.kind = "range" -> Satisfies(v, want)
      [] want.kind = "newest" -> TRUE
      [] OTHER -> StartsWith(v, want.version)
Matches(v, want) == Fits(v, want) \/ (want.kind = "version" /\ v = want.version)

-----------------------------------------------------------------------------
\* list: tags become versions.  A "v" is optional, and the tag in the declared form wins over the other.
Declared(i, declared) == (i.v1 = "v") = (declared = "v")
Tagged(s) == {i \in s.items : \A j \in s.items : j.version = i.version /\ j # i => Declared(i, s.declared)}

\* The versions that a source puts behind all others: prereleases, and what was yanked.
Behind(s, i) ==
    CASE s.from = "pypi" -> i.yanked \/ Prerelease(i.version)
      [] s.from = "crates" -> i.yanked \/ i.version.pre # <<>>
      [] s.from = "go" -> i.version.pre # <<>>
      [] OTHER -> Prerelease(i.version)

\* npmVersions: no version with a suffix, and the last change of the package stands for the times of its
\* versions when that is old enough.
Modified(s) == Max({i.time : i \in s.items} \cup {1})
NpmTime(s, i) == IF Cutoff > 0 /\ Modified(s) > Cutoff THEN (IF i.time = 0 THEN Modified(s) ELSE i.time) ELSE Modified(s)

\* pypi.Read: a version is as old as the last of its files, and yanked when all of them are.  crates.Read and
\* goproxy.Versions list every version.
ListOf(s) ==
    CASE s.from = "npm" -> {[i EXCEPT !.time = NpmTime(s, i)] : i \in {j \in s.items : j.version.pre = <<>>}}
      [] s.from = "pypi" -> {[version |-> i.version, v1 |-> "", time |-> Max({j.time : j \in {k \in s.items : k.version = i.version}}),
                               yanked |-> \A j \in s.items : j.version = i.version => j.yanked] : i \in s.items}
      [] s.from \in {"crates", "go"} -> s.items
      [] s.from = "git-tags" -> {[i EXCEPT !.time = 0] : i \in Tagged(s)}
      [] OTHER -> Tagged(s)

\* The order of the list: what is behind comes last, and the newest first.
ListedBefore(s, i, j) == IF Behind(s, i) # Behind(s, j) THEN Behind(s, j) ELSE Compare(i.version, j.version) > 0
Sorted(s, items) == SetToSortSeq(items, LAMBDA i, j : ListedBefore(s, i, j))

\* tooNew: a version of unknown age passes.
TooNew(i) == Cutoff > 0 /\ i.time > Cutoff

\* goTimes: the proxy gives one time per request, asked from the newest down to the first that fits and
\* is old enough.  A proxy without times leaves them unknown.
GoTimesNone(s, list, want) == IF s.from = "go" THEN [k \in DOMAIN list |-> [list[k] EXCEPT !.time = 0]] ELSE list
GoTimes(s, list, want) ==
    LET asked == {k \in DOMAIN list : Fits(list[k].version, want)}
        last == {k \in asked : list[k].time < Cutoff}
    IN IF s.from # "go" \/ Cutoff = 0 \/ (\E k \in DOMAIN list : want.kind = "version" /\ list[k].version = want.version) THEN list
       ELSE [k \in DOMAIN list |-> IF s.dated /\ k \in asked /\ (last = {} \/ k <= Min(last)) THEN list[k] ELSE [list[k] EXCEPT !.time = 0]]

\* newest: the first of the list that fits and passes the age, and the newest that waits for it.
Newest(list, want) ==
    LET fit == {k \in DOMAIN list : Fits(list[k].version, want)}
        pass == {k \in fit : ~TooNew(list[k])}
        wait == {k \in fit : TooNew(list[k]) /\ (pass = {} \/ k < Min(pass))}
    IN [release |-> IF pass = {} THEN NoneFits ELSE list[Min(pass)],
        waiting |-> IF wait = {} THEN NoneFits ELSE list[Min(wait)]]

\* pickFrom: an exact version skips the age.
PickFrom(list, want) ==
    LET exact == {k \in DOMAIN list : want.kind = "version" /\ list[k].version = want.version}
    IN IF exact # {} THEN [release |-> list[Min(exact)], waiting |-> NoneFits] ELSE Newest(list, want)

\* sparkle: the item with the highest build, or the highest version where one has none, off no channel.
SparkleNewer(i, n) == IF i.build > 0 /\ n.build > 0 THEN i.build > n.build ELSE Compare(i.version, n.version) > 0
Sparkle(items) ==
    FoldLeft(LAMBDA n, i : IF i.channel \/ (n # NoneFits /\ ~SparkleNewer(i, n)) THEN n ELSE i, NoneFits, items)

\* jsonVersion and scrape: the newest of the candidates that look like a version.
JSONVersion(items) ==
    FoldLeft(LAMBDA n, i : IF ~i.looks \/ (n # NoneFits /\ Compare(i.version, n.version) <= 0) THEN n ELSE i, NoneFits, items)

\* PickWaiting: npm without a want takes its latest tag as a bound.
Bound(s, want) == IF s.from = "npm" /\ want.kind = "newest"
                  THEN [kind |-> "range", version |-> s.latest, ops |-> <<[op |-> "<=", part |-> s.latest]>>] ELSE want
PickWaiting(s, want) ==
    LET w == Bound(s, want) IN PickFrom(GoTimes(s, Sorted(s, ListOf(s)), w), w)

-----------------------------------------------------------------------------
VersionsInit ==
    /\ source \in Sources
    /\ wanted \in Wants
    /\ picked = [release |-> NoneFits, waiting |-> NoneFits, asked |-> FALSE]

PickRelease ==
    /\ ~picked.asked
    /\ picked' = [asked |-> TRUE] @@
                 CASE source.from = "sparkle" -> PickFrom(SelectSeq(<<Sparkle(source.feed)>>, LAMBDA i : i # NoneFits), wanted)
                   [] source.from = "page" -> PickFrom(SelectSeq(<<JSONVersion(source.feed)>>, LAMBDA i : i # NoneFits), wanted)
                   [] OTHER -> PickWaiting(source, wanted)
    /\ UNCHANGED <<source, wanted>>

VersionsNext == PickRelease
VersionsSpec == VersionsInit /\ [][VersionsNext]_versionVars

-----------------------------------------------------------------------------
Feed(s) == s.from \in {"sparkle", "page"}
Times(s, v) == {i.time : i \in {j \in (IF s.from = "releases" THEN Tagged(s) ELSE s.items) : j.version = v}}

\* The release that is taken is one that the source publishes and the list asks for, no younger than the
\* minimum age where the source says when it came out, unless it is named exactly; and no other release
\* that fits, is old enough and is not behind it is newer (Pick).
PickIsNewest ==
    picked.asked /\ ~Feed(source) =>
        LET w == Bound(source, wanted)
            r == picked.release
            named == w.kind = "version" /\ r # NoneFits /\ r.version = w.version
            old(i) == Cutoff = 0 \/ source.from = "git-tags" \/ (source.from = "go" /\ ~source.dated)
                        \/ (\A t \in Times(source, i.version) : t <= Cutoff /\ t > 0)
        IN /\ r # NoneFits => /\ \E i \in source.items : i.version = r.version
                              /\ Matches(r.version, w)
                              /\ named \/ old(r) \/ 0 \in Times(source, r.version)
           /\ ~named => \A i \in ListOf(source) :
                 Matches(i.version, w) /\ old(i) => r # NoneFits /\ (r.version = i.version \/ ~ListedBefore(source, i, r))
           /\ picked.waiting # NoneFits => /\ Fits(picked.waiting.version, w)
                                           /\ r # NoneFits => ListedBefore(source, picked.waiting, r)

\* A version of numbers only, and the numbers that an operator keeps.
Bare(v) == v.pre = <<>> /\ \A k \in DOMAIN v.nums : v.nums[k].tail = <<>>
Kept(op, p) == 1..(IF op = "~" THEN Min({2, Len(p.nums)}) ELSE Min({k \in DOMAIN p.nums : p.nums[k].n # 0} \cup {Len(p.nums)}))

(* The order of a list is one, so that sorting it means something: of      *)
(* three versions none is before itself through the others.  And ^ and ~   *)
(* keep the numbers that they say they keep (Satisfies, "As in npm"): a    *)
(* version of the range has the numbers of the part up to the first that   *)
(* is not 0, or up to the second.                                          *)
RangesTrue ==
    picked.asked =>
        /\ \A i, j, k \in source.items :
              ListedBefore(source, i, j) /\ ListedBefore(source, j, k) => ListedBefore(source, i, k) /\ ~ListedBefore(source, j, i)
        /\ \A i \in source.items, op \in {"^", "~"} : LET p == wanted.version IN
              Bare(i.version) /\ Bare(p) =>
                 (MeetsPart(i.version, op, p) <=> Compare(i.version, p) >= 0 /\ \A k \in Kept(op, p) : Part(i.version, k).n = p.nums[k].n)

\* What a pick promises: PickIsNewest and RangesTrue.
PicksHold == PickIsNewest /\ RangesTrue

=============================================================================
