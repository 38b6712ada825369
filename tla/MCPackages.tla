----------------------------- MODULE MCPackages -----------------------------
(***************************************************************************)
(* What a package is: its manifest as an author writes it, as oku infers   *)
(* it from a release or translates it from another package manager, and    *)
(* the version that oku picks for it.  The parts share no state, so the    *)
(* run explores each on its own: part says which one moves.                *)
(***************************************************************************)
EXTENDS MCAuthored, MCTranslated, Versions

\* Versions: words of a version are numbered by the alphabet, a = 1, rc = 3, w = 4.
Num(n) == [n |-> n, tail |-> <<>>]
WithTail(n, tail) == [n |-> n, tail |-> tail]
Word(v) == [d |-> FALSE, v |-> v]
Digits(v) == [d |-> TRUE, v |-> v]
Version(nums, pre) == [nums |-> nums, pre |-> pre]
PlainVersions == {Version(<<Num(1)>>, <<>>), Version(<<Num(1), Num(2)>>, <<>>), Version(<<Num(1), Num(10)>>, <<>>),
                  Version(<<Num(0), Num(4), Num(1)>>, <<>>), Version(<<Num(0), Num(5)>>, <<>>), Version(<<Num(2)>>, <<>>)}
OddVersions == {Version(<<Num(2)>>, <<Word(3), Digits(1)>>), Version(<<Num(2)>>, <<Word(3), Digits(10)>>),
                Version(<<Num(1), WithTail(2, <<Word(3), Digits(9)>>)>>, <<>>), Version(<<Num(1), WithTail(2, <<Word(4)>>)>>, <<>>),
                Version(<<Num(1), Num(2)>>, <<Digits(31)>>), Version(<<Num(1), WithTail(2, <<Word(1), Digits(1)>>)>>, <<>>)}
LateVersions == {Version(<<Num(1), Num(10)>>, <<>>), Version(<<Num(0), Num(4), Num(1)>>, <<>>)}
AllVersions == PlainVersions \cup OddVersions

\* Three releases of a source, with times on both sides of the minimum age, and one that may be yanked.
Item(v, t, y, p) == [version |-> v, time |-> t, yanked |-> y, v1 |-> p]
Three(t, y) == {{Item(v, t[1], FALSE, ""), Item(w, t[2], y, "v"), Item(x, t[3], FALSE, "v")} :
                   v \in AllVersions, w \in OddVersions, x \in LateVersions}
Ages == {<<1, 1, 1>>, <<2, 1, 1>>, <<1, 2, 2>>, <<2, 2, 0>>}
Items(from) ==
    CASE from \in {"releases", "git-tags"} ->
            {s \in UNION {Three(t, FALSE) : t \in Ages} : \A i, j \in s : i.version = j.version /\ i.v1 = j.v1 => i = j}
      [] from = "pypi" -> UNION {Three(t, TRUE) : t \in {<<2, 1, 1>>, <<1, 2, 2>>}}
      [] OTHER -> {s \in UNION {Three(t, from = "crates") : t \in Ages} : \A i, j \in s : i.version = j.version => i = j}
FeedItem(v, build, channel, looks, t) == [version |-> v, build |-> build, channel |-> channel, looks |-> looks, time |-> t]
MCSources ==
    UNION {{[from |-> f, items |-> s, declared |-> d, latest |-> Version(<<Num(1), Num(10)>>, <<>>), dated |-> d = "v"] :
               s \in Items(f), d \in IF f \in {"git-tags", "go"} THEN {"v", ""} ELSE {"v"}} :
           f \in {"releases", "npm", "crates", "go", "pypi", "git-tags"}}
    \cup {[from |-> f, items |-> {}, feed |-> <<FeedItem(v, n, c, ~c, 1), FeedItem(w, 2, FALSE, TRUE, 2)>>] :
             f \in {"sparkle", "page"}, v, w \in AllVersions, n \in {0, 1, 3}, c \in BOOLEAN}
RangeOf(ops, v) == [kind |-> "range", version |-> v, ops |-> ops]
MCWants ==
    {[kind |-> "newest", version |-> Version(<<Num(1)>>, <<>>), ops |-> <<>>]}
    \cup {[kind |-> "version", version |-> v, ops |-> <<>>] : v \in {Version(<<Num(1)>>, <<>>), Version(<<Num(2)>>, <<Word(3), Digits(1)>>)}}
    \cup {RangeOf(<<[op |-> o, part |-> v]>>, v) : o \in {"^", "~"}, v \in {Version(<<Num(1), Num(2)>>, <<>>), Version(<<Num(0), Num(4)>>, <<>>)}}
    \cup {RangeOf(<<[op |-> ">=", part |-> Version(<<Num(1)>>, <<>>)], [op |-> "<", part |-> Version(<<Num(2)>>, <<>>)]>>, Version(<<Num(1)>>, <<>>))}

-----------------------------------------------------------------------------
VARIABLE part

ManifestIdle == manifest = Absent /\ edited = MaxEdits
InferIdle == /\ release = Absent /\ asked = Absent /\ stage = "asked" /\ chosen = <<>> /\ at = 0
             /\ layouts = <<>> /\ anyOS = <<>> /\ hostDone = FALSE /\ inferred = Absent
VersionsIdle == source = Absent /\ wanted = Absent /\ picked = [release |-> NoneFits, waiting |-> NoneFits, asked |-> FALSE]

PackagesInit ==
    \/ part = "authored" /\ ManifestInit /\ InferIdle /\ RecipeInit /\ VersionsIdle
    \/ part = "inferred" /\ ManifestIdle /\ InferInit /\ RecipeInit /\ VersionsIdle
    \/ part = "translated" /\ ManifestIdle /\ InferIdle /\ RecipeInit /\ VersionsIdle
    \/ part = "versions" /\ ManifestIdle /\ InferIdle /\ RecipeInit /\ VersionsInit

PackagesNext ==
    /\ UNCHANGED part
    /\ \/ part = "authored" /\ ManifestNext /\ UNCHANGED <<inferVars, recipeVars, versionVars>>
       \/ part = "inferred" /\ InferNext /\ UNCHANGED <<manifestVars, recipeVars, versionVars>>
       \/ part = "translated" /\ RecipeNext /\ UNCHANGED <<manifestVars, inferVars, versionVars>>
       \/ part = "versions" /\ VersionsNext /\ UNCHANGED <<manifestVars, inferVars, recipeVars>>

PackagesSpec == PackagesInit /\ [][PackagesNext]_<<part, manifestVars, inferVars, recipeVars, versionVars>>

=============================================================================
