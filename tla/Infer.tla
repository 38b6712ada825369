------------------------------- MODULE Infer -------------------------------
(***************************************************************************)
(* A manifest for a repo that has none, from the assets of a release:      *)
(* internal/infer (infer.go, signatures.go).  oku picks an asset for each  *)
(* platform by the words of its name, opens the ones of the host and of    *)
(* the platforms that oku.lock pins to find their programs, looks for      *)
(* checksum files and signatures, and writes the manifest.                 *)
(*                                                                         *)
(* The name of an asset is a record: name (its place among names, the      *)
(* shorter first), prog (what it starts with), the oses, arches and libcs  *)
(* it has words of (a toolchain's gnu is glibc), fat (a word for every     *)
(* arch), android, desktop, extra (other words), form (its ending),        *)
(* versioned and size.  inside are the files that opening it gives, or     *)
(* Absent when it cannot be read.                                          *)
(***************************************************************************)
EXTENDS Manifests, TLC

CONSTANTS Releases,  \* records: assets, sums, signs, key, provenance, attested, github, digests and prefixed
          Asked,     \* records: host, pins (the platforms of [lock]), glob (the names --asset matches, or Absent) and bins
          Repo,      \* the repo's name, in lower case
          Bundles,   \* folders that are app bundles, with the name of each app
          Helpers    \* pairs of a program and one whose name starts with it and "-"

VARIABLES release, asked,
          stage,      \* "asked", "open", "failed" or "written"
          chosen, at, \* the choices, and the one that the loop is at
          layouts, anyOS, hostDone, inferred
inferVars == <<release, asked, stage, chosen, at, layouts, anyOS, hostDone, inferred>>

-----------------------------------------------------------------------------
(* The names of assets *)
InstallerOS(a) == CASE a.form \in {".dmg", ".pkg"} -> "darwin" [] a.form = ".msi" -> "windows"
                    [] a.form \in {".deb", ".appimage"} -> "linux" [] OTHER -> ""
Ending(a) == IF a.form \in {"", ".exe", ".appimage"} THEN "" ELSE a.form
ExeByFormat(a) == a.form = ".exe" /\ "windows" \notin a.oses
Rank(a) == CASE a.form = ".pkg" -> 4 [] a.form \in {".deb", ".msi", ".dmg"} -> 3 [] a.form = ".zip" -> 1
             [] Ending(a) # "" -> 0 [] OTHER -> 2

\* stem: what comes before the version or a word of a platform.
Stem(a) == IF a.versioned \/ a.fat \/ a.oses \cup a.arches \cup a.libcs # {} THEN a.prog ELSE ""
Sibling(a, pkg) == IF a.prog = pkg THEN 0 ELSE 1

\* targets, in the order of their artifacts.  A musl build has no libc in its match.
Target(os, arch, words, libc) == [sel |-> Selector(os, arch, libc, ""), words |-> words]
TargetsOf(arch) == <<Target("linux", arch, {"glibc"}, "glibc"), Target("linux", arch, {"musl"}, ""), Target("linux", arch, {}, ""),
                     Target("darwin", arch, {}, ""), Target("windows", arch, {}, "")>>
Targets == FlattenSeq([i \in 1..5 |-> TargetsOf(<<"amd64", "arm64", "386", "arm", "riscv64">>[i])])

\* fitsPlatform.
FitsPlatform(a, t) ==
    LET namesOS == t.sel.os \in a.oses
        formatOS == IF InstallerOS(a) = "" /\ ExeByFormat(a) /\ ~a.desktop THEN "windows" ELSE InstallerOS(a)
        universal == InstallerOS(a) # "" \/ (t.sel.os = "darwin" /\ namesOS)
    IN /\ a.form # "skipped" /\ ~a.android
       /\ namesOS \/ formatOS = t.sel.os
       /\ \/ t.sel.arch \in a.arches
          \/ a.fat /\ t.sel.os = "darwin" /\ t.sel.arch \in {"amd64", "arm64"}
          \/ a.arches = {} /\ (t.sel.arch = "amd64" \/ (universal /\ t.sel.arch = "arm64"))

Fat(a, t) == IF t.sel.arch \in a.arches THEN 0 ELSE 1
Gnu(a, t) == IF t.sel.os = "windows" /\ "glibc" \in a.libcs THEN 1 ELSE 0
Order(a, t, pkg) == <<Sibling(a, pkg), Fat(a, t), IF a.desktop THEN 1 ELSE 0, a.extra, Gnu(a, t), Rank(a), a.size, a.name>>
Before(x, y) == \E i \in DOMAIN x : x[i] < y[i] /\ \A j \in 1..(i - 1) : x[j] = y[j]

\* The libc that an asset is built for, which a name without one leaves open: it is the glibc build where a
\* musl one is beside it.
FitsLibcAny(a, t, musl) == t.sel.libc = "glibc" => "glibc" \in a.libcs \/ musl
FitsLibc(a, t, musl) ==
    CASE t.sel.libc = "glibc" -> "glibc" \in a.libcs \/ (a.libcs = {} /\ musl /\ InstallerOS(a) = "")
      [] t.words # {} -> a.libcs \cap t.words # {}
      [] t.sel.os = "linux" -> a.libcs = {}
      [] OTHER -> TRUE

\* pick: the assets that fit t, the best one first.
Pick(assets, pkg, t) ==
    LET fit == {a \in assets : FitsPlatform(a, t)}
        musl == \E a \in fit : "musl" \in a.libcs
    IN SetToSortSeq({a \in fit : FitsLibc(a, t, musl)}, LAMBDA a, b : Before(Order(a, t, pkg), Order(b, t, pkg)))

\* choose's loop: the best asset of each target, once for each selector.  The host's is the one --asset names.
Choice(sel, a, others) == [sel |-> sel, asset |-> a, others |-> others]
Chosen(assets, pkg, first, skip) ==
    FoldLeft(LAMBDA acc, t :
        LET fits == Pick(assets, pkg, t) IN
        IF fits = <<>> \/ Selects(t.sel, skip) \/ (\E i \in DOMAIN acc : i > Len(first) /\ acc[i].sel = t.sel) THEN acc
        ELSE Append(acc, Choice(t.sel, fits[1], {fits[i] : i \in {j \in 2..Len(fits) : Fat(fits[j], t) = Fat(fits[1], t)}})),
        first, Targets)

\* choose: when some platform has an asset of pkg, one with only another program's gets no artifact.
Own1(choices, pkg, kept) ==
    IF \E i \in DOMAIN choices : Sibling(choices[i].asset, pkg) = 0
    THEN SelectSeq(choices, LAMBDA c : Sibling(c.asset, pkg) = 0 \/ InstallerOS(c.asset) # "" \/ c.sel = kept)
    ELSE choices

NoPlatform == [os |-> "none", arch |-> "none", libc |-> "none"]
HostSelector(host) == Selector(host.os, host.arch, host.libc, "")

\* With --asset, one name is the host's asset, and several limit every platform to them.
Named(assets, pkg, q) ==
    LET named == {a \in assets : a.name \in q.glob}
        best == SelectSeq([i \in DOMAIN Targets |-> Pick(named, pkg, Targets[i])],
                          LAMBDA fits : fits # <<>> /\ \E t \in DOMAIN Targets : Selects(Targets[t].sel, q.host) /\ fits = Pick(named, pkg, Targets[t]))
    IN IF Cardinality(named) = 1 THEN named ELSE IF best = <<>> THEN {} ELSE {best[1][1]}
Choose(assets, pkg, q) ==
    IF q.glob = Absent THEN Own1(Chosen(assets, pkg, <<>>, NoPlatform), pkg, NoPlatform)
    ELSE LET named == Named(assets, pkg, q)
             a == CHOOSE a \in named : TRUE
             prog == IF Stem(a) = "" THEN pkg ELSE Stem(a)
             all == {b \in assets : b.name \in q.glob}
         IN IF named = {} THEN <<>>
            ELSE Own1(Chosen(IF Cardinality(all) > 1 THEN all ELSE assets, prog, <<Choice(HostSelector(q.host), a, {})>>, q.host),
                      prog, HostSelector(q.host))

-----------------------------------------------------------------------------
(* The files of an asset.  A file is a record: dir, base, low (base in     *)
(* lower case, without .exe), exe (it ends in .exe), x (executable), kind        *)
(* ("file", "lib", "man", "desktop", "plist"), runs (what a desktop entry  *)
(* or an Info.plist runs), gui and setup.                                  *)

NoLayout == [failed |-> TRUE, strip |-> 0, bins |-> <<>>, named |-> FALSE, app |-> {}, man |-> {}]

\* program: the name in lower case, without .exe.
Program(f) == f.low
Starts(f, name) == Program(f) = name \/ <<name, Program(f)>> \in Helpers

\* A folder at the top that holds every file is stripped, unless it is a bundle.
Strip(fs) == IF fs # <<>> /\ (\A i \in DOMAIN fs : fs[i].dir # <<>> /\ fs[i].dir[1] = fs[1].dir[1]) /\ fs[1].dir[1] \notin DOMAIN Bundles
             THEN 1 ELSE 0
BundleOf(f) == LET tops == {i \in 1..(Len(f.dir) - 1) : f.dir[i] \in DOMAIN Bundles /\ f.dir[i + 1] = "Contents"}
               IN IF tops = {} THEN <<>> ELSE SubSeq(f.dir, 1, Min(tops))
BundleProgram(f) == LET rest == SubSeq(f.dir, Len(BundleOf(f)) + 1, Len(f.dir))
                    IN rest = <<"Contents", "MacOS">> \/ (Len(rest) > 2 /\ rest[2] = "Resources" /\ Last(rest) = "bin")

\* The files by what they can be.
Groups(fs) ==
    LET out == SelectSeq(fs, LAMBDA f : BundleOf(f) = <<>> /\ f.kind # "man")
    IN [executables |-> SelectSeq(out, LAMBDA f : f.x /\ f.kind # "lib"), plain |-> SelectSeq(out, LAMBDA f : ~f.x \/ f.kind = "lib"),
        inBundle |-> SelectSeq(fs, LAMBDA f : BundleOf(f) # <<>> /\ f.x /\ BundleProgram(f)),
        man |-> {f \in ToSet(fs) : BundleOf(f) = <<>> /\ f.kind = "man"}, bundles |-> {BundleOf(f) : f \in ToSet(fs)} \ {<<>>}]

First(s) == IF s = <<>> THEN <<>> ELSE <<s[1]>>

\* find: a plain file counts when it is the only one of the name and the user named it, or nothing is executable.
Find(g, want, named) ==
    LET called(s) == SelectSeq(s, LAMBDA f : Program(f) = want)
        plain == IF Len(called(g.plain)) = 1 /\ (named \/ g.executables = <<>>) THEN called(g.plain) ELSE <<>>
    IN First(called(g.executables) \o plain \o (IF named THEN called(g.inBundle) ELSE <<>>))

\* commands: the programs of a bundle that start with the package's name, and not the one that opens the
\* app unless it has the package's name.
Opens(f, fs) ==
    LET lists == {p \in ToSet(fs) : p.kind = "plist" /\ BundleOf(p) = BundleOf(f) /\ p.runs # ""}
    IN IF lists = {} THEN Bundles[Last(BundleOf(f))] ELSE (CHOOSE p \in lists : TRUE).runs
Commands(bins, g, fs, name) ==
    FoldLeft(LAMBDA acc, f :
        LET same == {i \in DOMAIN acc : acc[i].base = f.base} IN
        IF ~Starts(f, name) \/ (f.base = Opens(f, fs) /\ f.base # name) THEN acc
        ELSE IF same = {} THEN Append(acc, f) ELSE [acc EXCEPT ![Min(same)] = f], bins, g.inBundle)

\* siblings: the programs beside main that start with its name.
Siblings(main, g) ==
    SelectSeq(g.executables, LAMBDA f : f # main /\ f.dir = main.dir /\ <<Program(main), Program(f)>> \in Helpers)
    \o SelectSeq(g.plain, LAMBDA f : f.dir = main.dir /\ f.exe /\ <<Program(main), Program(f)>> \in Helpers)

\* launched: a desktop entry that runs one of bins, and a program of bins for the GUI.
Launched(fs, bins) ==
    LET out == {f \in ToSet(fs) : BundleOf(f) = <<>>}
    IN When(\E f \in out, i \in DOMAIN bins : f.kind = "desktop" /\ f.runs = Program(bins[i]), "desktop")
       \cup When(\E i \in DOMAIN bins : bins[i] \in out /\ bins[i].gui, "gui")

\* findLayout.  file is what an archive names a program after itself, or "".
Single(fs, name, wants) ==
    IF (Len(fs) = 1 /\ fs[1].setup) \/ Len(wants) > 1 THEN NoLayout
    ELSE LET bin == IF wants = <<>> THEN name ELSE wants[1]
         IN [NoLayout EXCEPT !.failed = FALSE, !.bins = <<[fs[1] EXCEPT !.base = bin, !.low = bin]>>,
                             !.app = When(Len(fs) = 1 /\ fs[1].gui, "gui")]
FindLayout(files, name, file, wants, archive) ==
    LET strip == Strip(files)
        fs == [i \in DOMAIN files |-> [files[i] EXCEPT !.dir = SubSeq(@, strip + 1, Len(@))]]
        g == Groups(fs)
        finds == [i \in DOMAIN wants |-> Find(g, wants[i], TRUE)]
        own == Find(g, name, FALSE)
        after == IF own = <<>> /\ file # "" THEN Find(g, file, TRUE) ELSE <<>>
        only == IF Len(g.executables) = 1 THEN g.executables ELSE <<>>
        main == First(own \o after \o only)
        with(bins, named) == [failed |-> FALSE, strip |-> strip, bins |-> bins, named |-> named, man |-> g.man,
                              app |-> When(g.bundles # {}, "bundle") \cup Launched(fs, bins)]
    IN CASE ~archive -> Single(files, name, wants)
         [] wants # <<>> -> IF <<>> \in ToSet(finds) THEN NoLayout ELSE with(FlattenSeq(finds), FALSE)
         [] main # <<>> -> with(Commands(main \o Siblings(main[1], g), g, fs, name), after # <<>>)
         [] g.bundles # {} -> with(Commands(<<>>, g, fs, name), FALSE)
         [] OTHER -> NoLayout

\* layoutOf: oku looks for the names that the program may have in turn.
Versionless(a) == IF Ending(a) = "" \/ a.versioned THEN "" ELSE a.after
LayoutOf(a, names, wants) ==
    IF a.inside = Absent THEN NoLayout
    ELSE LET tried == [i \in DOMAIN names |-> FindLayout(a.inside, names[i], Versionless(a), wants, Ending(a) # "")]
             good == SelectSeq(tried, LAMBDA l : ~l.failed)
         IN IF good = <<>> THEN NoLayout ELSE good[1]

\* The names that Manifest looks for.  With --asset a program of the repo that the asset is named after;
\* without, the part of the repo's name or the one program that the assets are named after.
HostChoice(cs, host) == LET fit == {i \in DOMAIN cs : Selects(cs[i].sel, host)} IN IF fit = {} THEN 0 ELSE Min(fit)
SharedStem(cs) == LET stems == {Stem(c.asset) : c \in {d \in ToSet(cs) : InstallerOS(d.asset) = ""}}
                  IN IF Cardinality(stems) = 1 THEN CHOOSE s \in stems : TRUE ELSE ""
ProgramNames(cs, q) ==
    LET host == cs[HostChoice(cs, q.host)].asset
        picked == IF <<Repo, Stem(host)>> \in Helpers THEN Stem(host) ELSE Repo
        short == IF <<Stem(host), Repo>> \in Helpers THEN Stem(host) ELSE Repo
    IN <<IF q.glob # Absent THEN picked ELSE IF SharedStem(cs) # "" THEN SharedStem(cs) ELSE short, Repo>>

-----------------------------------------------------------------------------
(* Checksum files and signatures.  A checksum file is a record: name, own  *)
(* (the asset it is named after, or 0), oses, arches, and states, the      *)
(* assets whose digest it states.  signs gives the signature beside a      *)
(* file: its kind ("bundle", "pair" with a certificate, "sig") and by, the *)
(* workflow of this repo, "elsewhere" or "key".                            *)

\* wordsOf and platformScore.
WordsOf(words, assetWords) == IF words = {} THEN 0 ELSE IF words \cap assetWords # {} THEN 1 ELSE -1
PlatformScore(s, a) ==
    LET os == WordsOf(s.oses, a.oses)
        arch == WordsOf(s.arches, a.arches)
    IN IF -1 \in {os, arch} THEN 0 ELSE 1 + os + arch

\* checksumFile: the asset's own file, then the shared one that fits best; one that states another digest
\* than the host's is skipped.
ChecksumFile(r, a) ==
    LET score(s) == IF s.own = a.name THEN 4 ELSE IF s.own # 0 THEN 0 ELSE PlatformScore(s, a)
        files == SetToSortSeq({s \in r.sums : score(s) > 0},
                              LAMBDA s, t : score(s) > score(t) \/ (score(s) = score(t) /\ s.name < t.name))
        good == SelectSeq(files, LAMBDA s : r.digests => a.name \in s.states)
    IN IF good = <<>> THEN 0 ELSE good[1].name

\* cosignFiles and keyFile: a bare signature is no cosign file, and a pair has a signature for a key.
HasFile(r, file) == file # 0 /\ file \in DOMAIN r.signs
CosignKind(r, file) == IF HasFile(r, file) /\ r.signs[file].kind # "sig" THEN r.signs[file].kind ELSE "none"
KeyKind(r, file) == CASE ~HasFile(r, file) -> "none" [] r.signs[file].kind = "bundle" -> "bundle" [] OTHER -> "sig"

\* signaturesOf and keySignatures, of the host's asset and its checksum file.
Signing(r, a, sums) ==
    LET attested == IF r.digests THEN r.attested ELSE ""
        fits == {f \in {sums, a.name} : CosignKind(r, f) # "none" /\ r.signs[f].by \notin {"elsewhere", "key"}
                                        /\ attested \in {"", r.signs[f].by}}
        workflow == attested # "" \/ fits # {}
        byKey(f) == r.github /\ ~workflow /\ r.key /\ HasFile(r, f) /\ r.signs[f].by = "key"
    IN [workflow |-> r.github /\ workflow, attestations |-> r.github /\ attested # "", cosign |-> r.github /\ fits # {},
        keySums |-> byKey(sums), keyAsset |-> r.digests /\ byKey(a.name),
        provenance |-> r.github /\ a.name \in r.provenance]
Key(s) == s.keySums \/ s.keyAsset

-----------------------------------------------------------------------------
(* The text of the manifest *)
BinEntry(named) == [kind |-> IF named THEN "table" ELSE "path", other |-> FALSE, breaks |-> FALSE, named |-> TRUE,
                    run |-> Absent, path |-> TRUE]
AppEntry(app) == [kind |-> "path", path |-> TRUE, bundle |-> app = "bundle", titled |-> FALSE]

\* One artifact, with artifactTOML for the signatures and layout.toml for the outputs: a desktop entry is Linux's.
ArtifactTOML(r, sign, c, l) ==
    LET sums == ChecksumFile(r, c.asset)
        beside(file, kind) == \/ sign.cosign /\ CosignKind(r, file) = kind
                              \/ /\ KeyKind(r, file) = (IF kind = "bundle" THEN kind ELSE "sig")
                                 /\ IF file = sums THEN sign.keySums ELSE sign.keyAsset
        certificate(file) == sign.cosign /\ CosignKind(r, file) = "pair"
        apps == l.app \ (IF c.sel.os = "linux" THEN {} ELSE {"desktop"})
    IN [match |-> c.sel, url |-> {"tag"} \cup When(c.asset.versioned, "version"), sums |-> IF sums = 0 THEN Absent ELSE {"tag"},
        signs |-> {"tag"}, plain |-> FALSE, place |-> "release", sha |-> "none", integrity |-> "none", version |-> Absent,
        bundle |-> beside(c.asset.name, "bundle"), signature |-> beside(c.asset.name, "pair"), certificate |-> certificate(c.asset.name),
        sumsBundle |-> beside(sums, "bundle"), sumsSignature |-> beside(sums, "pair"), sumsCertificate |-> certificate(sums),
        provenance |-> sign.provenance /\ c.asset.name \in r.provenance,
        bin |-> [i \in DOMAIN l.bins |-> BinEntry(i = 1 /\ l.named)],
        app |-> SetToSeq({AppEntry(x) : x \in apps}),
        files |-> l.man # {}, completions |-> [kind |-> "nil", keys |-> {}, generate |-> Absent], data |-> FALSE, strip |-> l.strip]

\* The layout of a choice: that of an opened asset of its ending and OS, or the programs of one of its ending.
LayoutFor(c) ==
    LET kind == Ending(c.asset) IN
    CASE <<kind, c.sel.os>> \in DOMAIN layouts -> layouts[<<kind, c.sel.os>>]
      [] kind \in DOMAIN anyOS /\ anyOS[kind].bins # <<>> /\ ~ExeByFormat(c.asset) -> [anyOS[kind] EXCEPT !.app = {}]
      [] OTHER -> NoLayout
Written ==
    LET with == SelectSeq(chosen, LAMBDA c : ~LayoutFor(c).failed /\ ~(LayoutFor(c).named /\ Versionless(c.asset) = ""))
        host == chosen[HostChoice(chosen, asked.host)].asset
        sign == Signing(release, host, ChecksumFile(release, host))
    IN [package |-> [key |-> IF Key(sign) THEN "cosign" ELSE "none", workflow |-> IF sign.workflow THEN "good" ELSE "none",
                     attestations |-> sign.attestations, named |-> TRUE, env |-> "none", oldApp |-> FALSE, host |-> "none"],
        version |-> [NoVersion EXCEPT !.from = IF release.github THEN "github-releases" ELSE "gitea-releases",
                                      !.repo = IF release.github THEN "good" ELSE "host", !.strip = release.prefixed],
        artifacts |-> [i \in DOMAIN with |-> ArtifactTOML(release, sign, with[i], LayoutFor(with[i]))],
        build |-> Absent, deps |-> <<>>, services |-> <<>>]

-----------------------------------------------------------------------------
(* Manifest *)
InferInit ==
    /\ release \in Releases /\ asked \in Asked /\ stage = "asked" /\ chosen = <<>> /\ at = 0
    /\ layouts = <<>> /\ anyOS = <<>> /\ hostDone = FALSE /\ inferred = Absent

Pinned(c) == \E p \in asked.pins : Selects(c.sel, p)

\* choose, and the check that the host has an asset.
ChooseAssets ==
    /\ stage = "asked"
    /\ LET cs == Choose(release.assets, Repo, asked) IN
       IF HostChoice(cs, asked.host) = 0 THEN stage' = "failed" /\ UNCHANGED <<chosen, at>>
       ELSE stage' = "open" /\ chosen' = cs /\ at' = 1
    /\ UNCHANGED <<release, asked, layouts, anyOS, hostDone, inferred>>

\* One round of the loop over the choices.
OpenAsset ==
    /\ stage = "open" /\ at <= Len(chosen)
    /\ LET c == chosen[at]
           key == <<Ending(c.asset), c.sel.os>>
           isHost == Selects(c.sel, asked.host) /\ ~hostDone
           l == LayoutOf(c.asset, ProgramNames(chosen, asked), asked.bins)
       IN IF key \in DOMAIN layouts \/ (~isHost /\ ~Pinned(c)) THEN UNCHANGED <<stage, layouts, anyOS, hostDone>>
          ELSE IF l.failed THEN stage' = (IF isHost THEN "failed" ELSE stage) /\ UNCHANGED <<layouts, anyOS, hostDone>>
          ELSE /\ layouts' = (key :> l) @@ layouts
               /\ anyOS' = anyOS @@ (key[1] :> l)
               /\ hostDone' = (hostDone \/ isHost)
               /\ UNCHANGED stage
    /\ at' = at + 1
    /\ UNCHANGED <<release, asked, chosen, inferred>>

WriteManifest ==
    /\ stage = "open" /\ at > Len(chosen)
    /\ stage' = "written" /\ inferred' = Written
    /\ UNCHANGED <<release, asked, chosen, at, layouts, anyOS, hostDone>>

InferNext == ChooseAssets \/ OpenAsset \/ WriteManifest

-----------------------------------------------------------------------------
\* The artifact's asset: the choice with its selector.
AssetOf(i) == LET c == CHOOSE c \in ToSet(chosen) : c.sel = inferred.artifacts[i].match IN c.asset
Serves(p) == AssetOf(Select(inferred, p))

(* A platform gets a build whose name says no other: not another OS, not   *)
(* another arch, and never a glibc build where the machine has musl.  The  *)
(* asset that --asset alone names is the user's own choice for the host.   *)
InferredFits ==
    stage = "written" => \A p \in Platform :
        Select(inferred, p) # 0 /\ ~(asked.glob # Absent /\ p = asked.host) =>
            /\ Serves(p).oses = {} \/ p.os \in Serves(p).oses
            /\ Serves(p).arches = {} \/ p.arch \in Serves(p).arches
            /\ Serves(p).libcs = {"glibc"} => p.libc # "musl"
            /\ ~Serves(p).android

(* What inference writes, Parse and lint accept and an install can use,    *)
(* and the host gets the asset that oku told the user of, unless its       *)
(* programs are named after assets and it alone has the version in its     *)
(* name.                                                                   *)
InferredInstalls ==
    stage = "written" =>
        LET host == chosen[HostChoice(chosen, asked.host)] IN
        /\ Lint(inferred) = {} /\ Usable(inferred)
        /\ \/ Select(inferred, asked.host) # 0 /\ Serves(asked.host) = host.asset
           \/ LayoutFor(host).named /\ host.asset.versioned

\* What inference promises: InferredFits and InferredInstalls.
InferredServes == InferredFits /\ InferredInstalls

=============================================================================
