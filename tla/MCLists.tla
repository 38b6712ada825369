------------------------------ MODULE MCLists ------------------------------
(***************************************************************************)
(* The user's list: oku.toml with what it includes, the edits that oku     *)
(* makes of it, and the files and secrets that it places.  The three share *)
(* no state, so the run explores each on its own: part says which moves.   *)
(***************************************************************************)
EXTENDS Lists, ListFile, Files

CONSTANTS own, b, c, d, k1, k2

Linux == <<Selector("linux", "", "", "")>>
Windows == <<Selector("windows", "", "", "")>>
Work == <<Selector("", "", "", "work")>>
LinuxWork == <<Selector("linux", "amd64", "", ""), Selector("", "", "", "work")>>

-----------------------------------------------------------------------------
\* The machines: a Linux and a Windows one, and a Mac that is named for work.
Mac == [platform |-> All[2], name |-> "work"]
MCMachines == {[platform |-> All[3], name |-> "home"], Mac, [platform |-> All[8], name |-> "home"]}

EmptyList == [include |-> <<>>, pkg |-> Absent, file |-> Absent, tables |-> {}]
Inc(l, w) == [list |-> l, when |-> w, beside |-> FALSE, bad |-> FALSE]
Beside(l, w) == [Inc(l, w) EXCEPT !.beside = TRUE]
Pkg(s, w) == [set |-> s, when |-> w, beside |-> FALSE]
FileAt(w, outside) == [when |-> w, outside |-> outside]
Still(l) == [kind |-> "file", at |-> <<l>>]

\* Lists of the user that do not change: own includes b and c, and one of them includes d.
Nested(p, wb, wc, wd, under) ==
    [last |-> 1, project |-> FALSE, lockPlatforms |-> {All[2], All[3]}, machines |-> {Mac},
     lists |-> (own :> Still([EmptyList EXCEPT !.pkg = p[1], !.include = <<Inc(b, wb), Inc(c, wc)>>]))
            @@ (b :> Still([EmptyList EXCEPT !.pkg = p[2], !.include = IF under = b THEN <<Inc(d, wd)>> ELSE <<>>]))
            @@ (c :> Still([EmptyList EXCEPT !.pkg = p[3], !.include = IF under = c THEN <<Inc(d, wd)>> ELSE <<>>]))
            @@ (d :> Still([EmptyList EXCEPT !.pkg = p[4]]))]

\* Lists of a repo, b with c beside it, and one at a URL, d, that change twice.
Moving(project, wb, beside) ==
    [last |-> 3, project |-> project, lockPlatforms |-> {All[2]}, machines |-> Machines,
     lists |-> (own :> [kind |-> "file", at |-> [i \in 1..3 |->
                   [EmptyList EXCEPT !.include = <<Inc(b, wb), Inc(d, <<>>)>>, !.tables = {"env", "host"}]]])
            @@ (b :> [kind |-> "repo", at |->
                 <<[EmptyList EXCEPT !.include = <<Beside(c, Work)>>, !.tables = {"host"}],
                   [EmptyList EXCEPT !.include = <<Beside(c, <<>>)>>, !.pkg = Pkg("x", <<>>), !.file = FileAt(Linux, FALSE)],
                   [EmptyList EXCEPT !.include = <<Beside(c, <<>>), [Inc(d, <<>>) EXCEPT !.bad = project]>>,
                                     !.file = FileAt(Linux, beside)]>>])
            @@ (c :> [kind |-> "repo", at |->
                 <<[EmptyList EXCEPT !.pkg = [Pkg("x", <<>>) EXCEPT !.beside = beside]],
                   [EmptyList EXCEPT !.pkg = [Pkg("x", <<>>) EXCEPT !.beside = beside], !.file = FileAt(Linux, FALSE)],
                   [EmptyList EXCEPT !.tables = {"runtimes"}]>>])
            @@ (d :> [kind |-> "http", at |->
                 <<[EmptyList EXCEPT !.pkg = Pkg("x", Linux)], [EmptyList EXCEPT !.pkg = Pkg("x", <<>>)],
                   [EmptyList EXCEPT !.tables = {"secrets"}]>>])]

\* The package is in any of the four lists, as one of three entries.
MCPkgs == {p \in [1..4 -> {Absent, Pkg("x", <<>>), Pkg("x", Linux), Pkg("y", <<>>)}] : p[1] \in {Absent, Pkg("x", <<>>)}}
MCWorlds == {Nested(p, wb, wc, wd, under) : p \in MCPkgs, wb \in {<<>>, Linux, LinuxWork}, wc \in {<<>>, LinuxWork},
                                            wd \in {<<>>, Work}, under \in {b, c}}
            \cup {Moving(project, wb, beside) : project, beside \in BOOLEAN, wb \in {<<>>, Linux}}

-----------------------------------------------------------------------------
\* Entries with each key alone, with all of them, and with two.
AllSet == [Unset EXCEPT !.ref = "r", !.version = "1", !.asset = "a", !.bin = <<"b">>, !.from_source = "true",
                        !.service = "true", !.system = "true", !.run_as = "root", !.when = LinuxWork,
                        !.min_release_age = "1d", !.signing_key = "k", !.signer_workflow = "w"]
MCEntries == {[k \in EntryKeys |-> IF k \in {"ref"} \cup set THEN AllSet[k] ELSE Unset[k]] :
                 set \in {{k} : k \in EntryKeys} \cup {EntryKeys, {"version", "when"}}}

\* Texts of oku.toml: what is before [packages], in it and after it, with keys of the same name elsewhere,
\* tables of their own, and a text without [packages].
KeyLine(n) == Text("key", n, [short |-> TRUE, keys |-> [ref |-> "r"]])
FullLine(n) == Text("key", n, [short |-> FALSE, keys |-> [ref |-> "r", bin |-> <<"b">>]])
Misspelt(n) == Text("key", n, [short |-> FALSE, keys |-> [ref |-> "r", vers |-> "1"]])
SubTable(n) == Text("sub", n, [short |-> FALSE, keys |-> [ref |-> "r"]])
Plainly(kind) == Text(kind, "", NoValue)
Heads == {<<>>, <<Plainly("comment"), Plainly("table"), KeyLine("p")>>, <<SubTable("q"), Plainly("blank")>>}
Bodies == {<<>>, <<KeyLine("p")>>, <<Plainly("comment"), FullLine("p"), Plainly("blank")>>,
           <<KeyLine("q"), KeyLine("p"), Plainly("comment")>>, <<Plainly("blank"), Plainly("comment")>>, <<Misspelt("p")>>}
Tails == {<<>>, <<Plainly("table"), KeyLine("p")>>, <<SubTable("q")>>,
          <<Plainly("blank"), SubTable("p"), Plainly("table"), KeyLine("q")>>}
MCDocs == {h \o <<Plainly("packages")>> \o m \o t : h \in Heads, m \in Bodies, t \in Tails}
          \cup {h \o t : h \in {<<>>, <<Plainly("table"), KeyLine("p")>>}, t \in Tails}

\* Ages on both sides of what a duration holds.
MCAges == [n : -1..120, unit : {"", "h", "d", "w", "m"}, whole : BOOLEAN]

-----------------------------------------------------------------------------
\* Two entries of [files]: the first with a secret, a template or a link, the second at a target that a
\* variable may move to the first one's.
To(l, r) == [location |-> l, rest |-> r]
TextFile == [target |-> To("home", "a"), also |-> {}, keys |-> {"text"}, key |-> FALSE, mode |-> 0, when |-> <<>>, vars |-> {},
             names |-> {}, link |-> [pkg |-> "", path |-> "file"]]
MCFirsts ==
    {[TextFile EXCEPT !.keys = {"secret"}, !.key = TRUE, !.mode = m] : m \in {0, 420, 1023}}
    \cup {[TextFile EXCEPT !.names = {<<"secret", "s">>, <<"var", "v">>}, !.vars = v, !.mode = m] :
             v \in {{"v"}, {"home"}}, m \in {0, 384}}
    \cup {[TextFile EXCEPT !.keys = {"link"}, !.link = [pkg |-> p, path |-> q]] : p \in {"", "p"}, q \in {"file", "out"}}
    \cup {[TextFile EXCEPT !.keys = {"link", "render"}], [TextFile EXCEPT !.key = TRUE], [TextFile EXCEPT !.also = {To("home", "a")}]}
MCSeconds == {[TextFile EXCEPT !.target = t, !.also = o, !.when = w, !.names = {<<"pkg", "p">>}] :
                 t \in {To("home", "b"), To("home", "v"), To("appdata", "a")}, o \in {{}, {To("home", "v")}}, w \in {<<>>, Windows}}
On(p) == [platform |-> p, name |-> "m"]
MCSettings ==
    {[moves |-> FALSE, entries |-> <<e, f>>, machine |-> On(p), vars |-> [v |-> value], pkgs |-> {"p"}, secrets |-> {"s", "inline"},
      locations |-> IF p.os = "windows" THEN {"home", "appdata"} ELSE {"home"}] :
        e \in MCFirsts, f \in MCSeconds, p \in {All[3], All[8]}, value \in {"a", "c", ".."}}
    \cup {[moves |-> TRUE, entries |-> <<e, [TextFile EXCEPT !.target = To("home", "b"), !.names = {<<"pkg", "p">>}]>>, machine |-> On(All[3]),
           vars |-> [v |-> "c"], pkgs |-> {"p"}, secrets |-> {"s", "inline"}, locations |-> {"home"}] : e \in MCFirsts}

-----------------------------------------------------------------------------
VARIABLE part

ListsIdle == world = Absent /\ now = 1 /\ lock = <<>> /\ out = NotRead /\ taken = {}
FileIdle == doc = <<>> /\ want = [entries |-> {}, others |-> <<>>] /\ edits = Edits /\ age = NoAge
PlaceIdle == setting = Nil /\ cipher = Nil /\ files = Nil /\ held = Nil /\ tmp = Nil /\ step = "idle"

UserInit ==
    \/ part = "lists" /\ ListsInit /\ FileIdle /\ PlaceIdle
    \/ part = "file" /\ ListsIdle /\ FileInit /\ PlaceIdle
    \/ part = "place" /\ ListsIdle /\ FileIdle /\ PlaceInit

UserNext ==
    /\ UNCHANGED part
    /\ \/ part = "lists" /\ ListsNext /\ UNCHANGED <<fileVars, placeVars>>
       \/ part = "file" /\ FileNext /\ UNCHANGED <<listVars, placeVars>>
       \/ part = "place" /\ PlaceNext /\ UNCHANGED <<listVars, fileVars>>

UserSpec == UserInit /\ [][UserNext]_<<part, listVars, fileVars, placeVars>>

=============================================================================
