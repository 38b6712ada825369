----------------------------- MODULE Platforms -----------------------------
(***************************************************************************)
(* Platforms, the selectors of a `when`, and what `when`s become when      *)
(* lists are merged and manifests inferred: internal/platform.  An absent  *)
(* field of a selector is "".                                              *)
(***************************************************************************)
EXTENDS Naturals, Sequences, FiniteSets, SequencesExt

\* The platforms oku runs on, in the order of All.
All == <<[os |-> "darwin", arch |-> "amd64", libc |-> ""], [os |-> "darwin", arch |-> "arm64", libc |-> ""],
         [os |-> "linux", arch |-> "amd64", libc |-> "glibc"], [os |-> "linux", arch |-> "amd64", libc |-> "musl"],
         [os |-> "linux", arch |-> "arm64", libc |-> "glibc"], [os |-> "linux", arch |-> "arm64", libc |-> "musl"],
         [os |-> "windows", arch |-> "amd64", libc |-> ""], [os |-> "windows", arch |-> "arm64", libc |-> ""]>>
Platform == {All[i] : i \in DOMAIN All}

\* The selector with fields os, arch, libc and host.
Selector(os, arch, libc, host) == [os |-> os, arch |-> arch, libc |-> libc, host |-> host]

\* Selector.Matches: every field that is set equals the platform's.  A host is not the platform's.
Selects(s, p) == \A f \in {"os", "arch", "libc"} : s[f] \in {"", p[f]}

\* When.Matches: the empty When matches everywhere, and a host is ignored.
WhenMatches(w, p) == w = <<>> \/ \E i \in DOMAIN w : Selects(w[i], p)

\* When.Here, on a machine with a platform and a name.
Here(w, machine) ==
    w = <<>> \/ \E i \in DOMAIN w : Selects(w[i], machine.platform) /\ w[i].host \in {"", machine.name}

\* Two selectors agree when each field is equal or unset in one of them.
Agree(a, b) == \A f \in DOMAIN a : a[f] = b[f] \/ "" \in {a[f], b[f]}
Meet(a, b) == [f \in DOMAIN a |-> IF a[f] = "" THEN b[f] ELSE a[f]]

\* The selectors that And builds, for each of w with each of o in order.
Meets(w, o) ==
    FoldLeft(LAMBDA acc, a : acc \o [i \in DOMAIN SelectSeq(o, LAMBDA b : Agree(a, b)) |->
                                       Meet(a, SelectSeq(o, LAMBDA b : Agree(a, b))[i])], <<>>, w)

\* When.And, and whether any machine matches both.
And(w, o) == CASE w = <<>> -> o [] o = <<>> -> w [] OTHER -> Meets(w, o)
Applies(w, o) == w = <<>> \/ o = <<>> \/ Meets(w, o) # <<>>

\* either: the When that matches where a or b does.
Either(a, b) == IF <<>> \in {a, b} THEN <<>> ELSE a \o b

\* When.Of.
Of(w) == {p \in Platform : WhenMatches(w, p)}

\* Whether every platform that s matches is in set.
In(s, set) == \A p \in Platform : Selects(s, p) => p \in set

\* The selectors Cover tries for p, the widest first.
Widths(p) == <<Selector(p.os, "", "", ""), Selector(p.os, p.arch, "", ""), Selector(p.os, "", p.libc, ""),
               Selector(p.os, p.arch, p.libc, "")>>

\* One round of Cover's loop: the first selector that stays in set, unless the ones before match p.
CoverNext(set, w, p) ==
    IF p \notin set \/ (\E i \in DOMAIN w : Selects(w[i], p)) THEN w
    ELSE w \o SubSeq(SelectSeq(Widths(p), LAMBDA s : In(s, set)), 1, 1)

\* Cover: a When for exactly the platforms in set, empty when it holds all of them.
Cover(set) == IF set = Platform THEN <<>> ELSE FoldLeft(LAMBDA w, p : CoverNext(set, w, p), <<>>, All)

\* The values of a selector's fields that Check accepts.  Go has more of them that no platform of oku has.
Known == [os |-> {"darwin", "linux", "windows", "freebsd"}, arch |-> {"amd64", "arm64", "386", "arm", "riscv64"},
          libc |-> {"glibc", "musl"}]

\* parseWhen on a value of TOML: its kind is "nil", "other", or "tables" for a table or an array of
\* them, each a function of its keys.  Only a list's when (hosts) may name a host.
ParsesWhen(value, hosts) ==
    \/ value.kind = "nil"
    \/ /\ value.kind = "tables" /\ value.tables # <<>>
       /\ \A i \in DOMAIN value.tables : LET t == value.tables[i] IN
              /\ DOMAIN t \subseteq DOMAIN Known \cup (IF hosts THEN {"host"} ELSE {})
              /\ \A f \in DOMAIN t : t[f] # "other" /\ (f = "host" \/ t[f] \in Known[f] \cup {""})
ParseWhen(value) ==
    [i \in DOMAIN value.tables |->
        [f \in {"os", "arch", "libc", "host"} |-> IF f \in DOMAIN value.tables[i] THEN value.tables[i][f] ELSE ""]]

\* When.TOML: what a list's line holds for w, as ParseWhen reads it back.
TOML(w) == [kind |-> IF w = <<>> THEN "nil" ELSE "tables",
            tables |-> [i \in DOMAIN w |-> [f \in {g \in DOMAIN w[i] : w[i][g] # ""} |-> w[i][f]]]]

=============================================================================
