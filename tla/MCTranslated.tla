---------------------------- MODULE MCTranslated ----------------------------
(***************************************************************************)
(* Entries of other package managers and of registries, for MCPackages:    *)
(* what an aqua package, a cask, a tap, a Scoop app, a winget package, a   *)
(* registry's package and a download may hold, in the mixes that their     *)
(* translations tell apart.                                                *)
(***************************************************************************)
EXTENDS Recipes, MCReleased

-----------------------------------------------------------------------------
(* aqua *)
AquaFile(folders, versioned, shape) == [folders |-> folders, versioned |-> versioned, shape |-> shape]
AquaPackage ==
    [type |-> "github_release", asset |-> "u", raw |-> FALSE, files |-> <<AquaFile(1, FALSE, "path")>>, checksum |-> Absent,
     cosign |-> Absent, provenance |-> FALSE, attestations |-> Absent, envs |-> {}, overrides |-> <<>>, rosetta |-> FALSE,
     windowsArm |-> FALSE, noAsset |-> FALSE]
LeftOut == [f \in DOMAIN AquaPackage |-> IF f \in OwnKeys THEN AquaPackage[f] ELSE Absent]

\* Signatures by one of two workflows, or by one of two keys.
ByCI(workflow) == [enabled |-> TRUE, key |-> "", issuer |-> "github", ignoresLog |-> FALSE, repo |-> "own", identity |-> "pattern",
                   ref |-> TRUE, workflow |-> workflow, bundle |-> FALSE, signature |-> TRUE, certificate |-> TRUE]
WithKey(key) == [ByCI("") EXCEPT !.key = key, !.issuer = ""]
Cosigns == {Absent, ByCI("ci"), ByCI("release"), WithKey("k1"), WithKey("k2"), [ByCI("ci") EXCEPT !.bundle = TRUE],
            [ByCI("ci") EXCEPT !.enabled = FALSE]}
Checksums == {Absent, [sha256 |-> FALSE, cosign |-> ByCI("ci")]} \cup {[sha256 |-> TRUE, cosign |-> c] : c \in Cosigns}

OverrideOn(os, arch, p) == [os |-> os, arch |-> arch, package |-> p]
OverridesOf == {<<>>,
    <<OverrideOn("windows", "", [LeftOut EXCEPT !.cosign = ByCI("release")]),
      OverrideOn("", "arm64", [LeftOut EXCEPT !.files = <<AquaFile(0, FALSE, "name")>>])>>,
    <<OverrideOn("darwin", "", [LeftOut EXCEPT !.cosign = WithKey("k1"), !.raw = TRUE])>>,
    <<OverrideOn("linux", "", [LeftOut EXCEPT !.checksum = [sha256 |-> TRUE, cosign |-> WithKey("k2")]])>>}
AquaEntry(p) == [covers |-> TRUE, package |-> p, versions |-> <<>>, prefixed |-> FALSE, readable |-> TRUE]
MCAquas ==
    {[AquaEntry([AquaPackage EXCEPT !.cosign = c, !.checksum = s, !.overrides = o, !.attestations = a, !.provenance = pr]) EXCEPT !.readable = r] :
        c \in Cosigns, s \in Checksums, o \in OverridesOf, a \in {Absent, "ci"}, pr \in BOOLEAN, r \in BOOLEAN}
    \cup {AquaEntry([AquaPackage EXCEPT !.envs = e, !.rosetta = r, !.windowsArm = w, !.type = t, !.noAsset = n]) :
        e \in {{}, {<<"linux", "">>, <<"darwin", "amd64">>}, {<<"windows", "amd64">>}, {<<"plan9", "">>}}, r \in BOOLEAN, w \in BOOLEAN,
        t \in {"github_release", "http", "cargo"}, n \in BOOLEAN}
    \cup {[AquaEntry([AquaPackage EXCEPT !.cosign = ByCI("ci")]) EXCEPT !.covers = FALSE,
                !.versions = <<[covers |-> c, package |-> [LeftOut EXCEPT !.raw = TRUE]]>>] : c \in BOOLEAN}
    \cup {AquaEntry([AquaPackage EXCEPT !.files = <<AquaFile(f, v, "path"), AquaFile(1, FALSE, "name")>>]) : f \in 0..2, v \in BOOLEAN}

-----------------------------------------------------------------------------
(* Casks and taps *)
Tpl(gives, vars, tag) == [gives |-> gives, vars |-> vars, tag |-> tag, prefixed |-> FALSE, computes |-> FALSE]
TemplatesOf ==
    {<<>>, <<Tpl({"u", "i"}, {"version"}, "version")>>, <<Tpl({"u", "i"}, {"version_part2"}, "none")>>,
     <<Tpl({"u"}, {"version"}, "none"), Tpl({"i"}, {"version", "version_minor"}, "other")>>,
     <<[Tpl({"u"}, {"version"}, "none") EXCEPT !.computes = TRUE]>>}
Stanza(kind, path) == [kind |-> kind, path |-> path]
OneApp == <<Stanza("app", "plain")>>
StanzasOf ==
    {OneApp, <<Stanza("app", "versioned"), Stanza("binary", "plain"), Stanza("zap", "")>>,
     <<Stanza("pkg", "plain"), Stanza("binary", "absolute")>>, <<Stanza("pkg", "plain")>>, <<Stanza("installer", "")>>,
     <<Stanza("font", "plain"), Stanza("binary", "completion")>>}

\* Livechecks: each strategy with a regex, and the blocks of a strategy.
Live == [skip |-> FALSE, url |-> "feed", repo |-> "none", strategy |-> "", groups |-> Absent, block |-> Absent, short |-> FALSE,
         nice |-> FALSE, keys |-> 1]
Ref(field, n) == [field |-> field, n |-> n]
Block(refs, fields) == [one |-> FALSE, deep |-> FALSE, reads |-> TRUE, refs |-> refs, fields |-> fields, joins |-> FALSE, valueUnread |-> FALSE]
BlocksOf ==
    {Block(<<Ref("a", 0), Ref("b", 0)>>, [a |-> FALSE, b |-> FALSE]), Block(<<Ref("a", 1), Ref("a", 2)>>, [a |-> TRUE]),
     Block(<<Ref("a", 0), Ref("b", 1)>>, [a |-> FALSE, b |-> TRUE]), Block(<<Ref("a", 2), Ref("a", 1)>>, [a |-> TRUE]),
     [Block(<<>>, <<>>) EXCEPT !.reads = FALSE, !.valueUnread = TRUE], [Block(<<>>, <<>>) EXCEPT !.joins = TRUE, !.reads = FALSE],
     [Block(<<Ref("a", 0)>>, [a |-> FALSE]) EXCEPT !.one = TRUE, !.deep = TRUE]}
Strategies == {"", "page_match", "header_match", "sparkle", "json", "electron_builder", "github_latest", "extract_plist"}
Lives ==
    {[Live EXCEPT !.strategy = s, !.groups = g] : s \in Strategies, g \in {Absent, 0, 1, 2}}
    \cup {[Live EXCEPT !.strategy = "github_latest", !.url = u, !.repo = r] : u \in {"download", "feed", "none"}, r \in {"download", "other", "none"}}
    \cup {[Live EXCEPT !.strategy = "sparkle", !.short = s, !.nice = n] : s \in BOOLEAN, n \in BOOLEAN}
    \cup {[Live EXCEPT !.strategy = s, !.block = b, !.groups = g] : s \in {"json", "xml", "sparkle", ""}, g \in {0, 1, 2}, b \in BlocksOf}
Livechecks == {<<>>, <<Live, Live>>, <<[Live EXCEPT !.skip = TRUE]>>} \cup {<<l>> : l \in Lives}

Top(url, stanzas) == [sel |-> Selector("", "", "", ""), url |-> url, sha |-> TRUE, stanzas |-> stanzas]
Varies(key, url, stanzas) == [key |-> key, url |-> url, sha |-> Absent, stanzas |-> stanzas, same |-> TRUE, archs |-> {}]
VariationsOf ==
    {{}, {Varies("release", "i", Absent)}, {Varies("release", "i", Absent), [Varies("release", "j", Absent) EXCEPT !.same = FALSE]},
     {Varies("release", "i", <<Stanza("app", "versioned")>>), Varies("release", "i", OneApp)},
     {Varies("release", "i", Absent), Varies("release", "j", Absent)}, {Varies("x86_64_linux", "i", Absent)},
     {Varies("x86_64_linux", "i", <<Stanza("binary", "plain")>>), Varies("arm64_linux", "", <<Stanza("installer", "")>>)}}
Cask(top, variations, templates, checks, parts) ==
    [top |-> top, variations |-> variations, templates |-> templates, checks |-> checks, parts |-> parts, archs |-> {},
     disabled |-> FALSE, latest |-> FALSE, reads |-> TRUE]
MCCasks ==
    {Cask(Top("u", OneApp), v, t, c, n) : v \in VariationsOf, t \in TemplatesOf, c \in Livechecks, n \in 1..2}
    \cup {[Cask(Top("u", s), v, t, <<>>, 1) EXCEPT !.archs = a] : s \in StanzasOf, v \in VariationsOf, t \in TemplatesOf, a \in {{}, {"amd64"}, {"arm64"}}}
    \cup {[Cask(Top("u", OneApp), {}, <<>>, <<>>, 1) EXCEPT !.disabled = d, !.latest = TRUE] : d \in BOOLEAN}
OnArch(url, stanzas) == [url |-> url, sha |-> FALSE, stanzas |-> stanzas]
MCTaps ==
    {Cask(Top(u, s), {}, t, <<>>, 1) @@ [onArm |-> a, onIntel |-> i, same |-> same] :
        u \in {"", "u"}, s \in {<<>>, OneApp}, t \in TemplatesOf, a \in {OnArch("", <<>>), OnArch("u", OneApp)},
        i \in {OnArch("i", <<>>), OnArch("", <<Stanza("installer", "")>>), OnArch("i", <<Stanza("binary", "plain")>>)}, same \in BOOLEAN}

-----------------------------------------------------------------------------
(* Scoop *)
ScoopTop == [url |-> "u", sha |-> TRUE, folders |-> 0, bins |-> <<Bin("path", "plain")>>, shortcut |-> "none", pre |-> "sets",
             later |-> [Tpl({"u"}, {"version"}, "version") EXCEPT !.prefixed = TRUE]]
ScoopLeftOut == [f \in DOMAIN ScoopTop |-> Absent]
Check == [script |-> FALSE, github |-> "", groups |-> Absent, path |-> "", url |-> "read"]
Checkvers == {Absent, Check, [Check EXCEPT !.script = TRUE], [Check EXCEPT !.path = "key"], [Check EXCEPT !.url = "vars", !.groups = 1]}
             \cup {[Check EXCEPT !.github = g] : g \in {"download", "other", "none"}} \cup {[Check EXCEPT !.groups = g] : g \in 1..2}
ScoopTops ==
    {ScoopTop, [ScoopTop EXCEPT !.bins = Absent, !.shortcut = "new", !.sha = FALSE], [ScoopTop EXCEPT !.bins = Absent],
     [ScoopTop EXCEPT !.bins = <<Bin("run", "plain"), Bin("name", "versioned")>>, !.later = Tpl({"u"}, {"version"}, "none")],
     [ScoopTop EXCEPT !.later = Absent, !.folders = 1, !.shortcut = "listed"], [ScoopTop EXCEPT !.url = "several"],
     [ScoopTop EXCEPT !.pre = "unpacks"]}
ScoopArchs ==
    {<<>>,
     [amd64 |-> ScoopLeftOut] @@ ("386" :> [ScoopLeftOut EXCEPT !.url = "i", !.later = Tpl({"i"}, {"version"}, "other")]),
     [amd64 |-> [ScoopLeftOut EXCEPT !.later = Tpl({"u"}, {"version_minor", "version"}, "none")],
      arm64 |-> [ScoopLeftOut EXCEPT !.pre = "unpacks"]]}
ScoopApp(top, archs, checkver) == [top |-> top, archs |-> archs, checkver |-> checkver, installer |-> "none", pathDirs |-> FALSE,
                                   depends |-> <<"7zip", "git">>]
MCScoops == {ScoopApp(t, a, v) : t \in ScoopTops, a \in ScoopArchs, v \in Checkvers}
            \cup {[ScoopApp(t, a, Check) EXCEPT !.pathDirs = p, !.installer = i] :
                     t \in ScoopTops, a \in ScoopArchs, p \in BOOLEAN, i \in {"none", "sets", "file", "unpacks"}}

-----------------------------------------------------------------------------
(* winget *)
WingetFile(top, shape, path) == [top |-> top, shape |-> shape, path |-> path]
Installer(arch, type, nested, url) ==
    [arch |-> arch, type |-> type, nested |-> nested, machine |-> FALSE, foreign |-> FALSE, url |-> url, files |-> Absent,
     commands |-> Absent, path |-> "plain", template |-> Tpl({url}, {"version"}, "version")]
WingetTop == [Installer(Absent, "exe", Absent, Absent) EXCEPT !.files = <<WingetFile(TRUE, "name", "plain"), WingetFile(TRUE, "path", "plain")>>,
                                                              !.commands = 0, !.path = Absent, !.template = Absent]
Installers ==
    {Installer("amd64", "portable", Absent, "u"), [Installer("amd64", "portable", Absent, "i") EXCEPT !.path = "versioned"],
     Installer("arm64", "zip", "portable", "i"), [Installer("amd64", "msi", Absent, "u") EXCEPT !.machine = TRUE, !.commands = 2],
     [Installer("386", "msi", Absent, "j") EXCEPT !.template = Absent], Installer("", "zip", "exe", "u"), Installer("amd64", Absent, Absent, "j"),
     [Installer("arm64", "zip", "portable", "u") EXCEPT !.foreign = TRUE, !.files = <<WingetFile(FALSE, "path", "versioned")>>]}
MCWingets == {[installers |-> <<a, b, c>>, top |-> WingetTop] : a, b, c \in Installers}

-----------------------------------------------------------------------------
(* Registries and downloads *)
MCPackages == [kind : {"npm", "crates", "go", "pypi"}, published : BOOLEAN, programs : 0..2, dependencies : BOOLEAN, scripts : BOOLEAN, toolchain : {"tool"}]
              \cup [kind : {"npm", "crates", "go"}, published : BOOLEAN, programs : 0..2, dependencies : BOOLEAN, scripts : BOOLEAN, toolchain : {""}]
MCLinks == [named : BOOLEAN, page : BOOLEAN, inside : {ToolFiles, WinFiles, AfterFiles, AppFiles, DebFiles}, archive : {TRUE},
            file : {"", "tool_linux"}, bins : {<<>>, <<"tool-ctl">>}, host : {All[1], All[3], All[7]}]
           \cup [named : {TRUE}, page : {FALSE}, inside : {OneFile, GuiFile, SetupFile}, archive : {FALSE}, file : {""},
                 bins : {<<>>, <<"a", "b">>}, host : {All[3], All[7]}]
MCOpened == [u |-> [read |-> TRUE, linked |-> TRUE, programs |-> 2, path |-> "plain", apps |-> {"plain"}, parts |-> 1],
             i |-> [read |-> TRUE, linked |-> FALSE, programs |-> 0, path |-> "plain", apps |-> {}, parts |-> 2],
             j |-> [read |-> FALSE, linked |-> FALSE, programs |-> 0, path |-> "plain", apps |-> {}, parts |-> 1]]

=============================================================================
