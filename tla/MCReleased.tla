----------------------------- MODULE MCReleased -----------------------------
(***************************************************************************)
(* Releases of a repo without a manifest, for MCPackages: up to three of a *)
(* pool of assets, and a fixed one with checksum files and signatures in   *)
(* every mix.                                                              *)
(***************************************************************************)
EXTENDS Infer

FileIn(dir, base, low) == [dir |-> dir, base |-> base, low |-> low, exe |-> FALSE, x |-> TRUE, kind |-> "file", runs |-> "",
                           gui |-> FALSE, setup |-> FALSE]
Doc(f, kind) == [f EXCEPT !.kind = kind, !.x = FALSE]

\* An archive of tools, one for Windows, one with a program named after the asset, an app, and a package
\* with a launcher.
ToolFiles == <<FileIn(<<"d">>, "tool", "tool"), FileIn(<<"d">>, "tool-ctl", "tool-ctl"), Doc(FileIn(<<"d">>, "tool.1", "tool.1"), "man")>>
WinFiles == <<[FileIn(<<>>, "tool.exe", "tool") EXCEPT !.exe = TRUE, !.x = FALSE]>>
AfterFiles == <<FileIn(<<>>, "tool_linux", "tool_linux"), FileIn(<<>>, "other", "other")>>
AppFiles == <<FileIn(<<"Tool.app", "Contents", "MacOS">>, "Tool", "tool"),
              [Doc(FileIn(<<"Tool.app", "Contents">>, "Info.plist", "info.plist"), "plist") EXCEPT !.runs = "Tool"],
              FileIn(<<"Tool.app", "Contents", "MacOS">>, "tool-ctl", "tool-ctl")>>
DebFiles == <<FileIn(<<"usr", "bin">>, "tool", "tool"),
              [Doc(FileIn(<<"usr", "share">>, "t.desktop", "t.desktop"), "desktop") EXCEPT !.runs = "tool"]>>

\* A bare program, one with a window and an installer.
OneFile == <<FileIn(<<>>, "f", "f")>>
GuiFile == <<[FileIn(<<>>, "f", "f") EXCEPT !.gui = TRUE]>>
SetupFile == <<[FileIn(<<>>, "f", "f") EXCEPT !.setup = TRUE]>>

Asset(n, prog, oses, arches, libcs, form, inside) ==
    [name |-> n, prog |-> prog, oses |-> oses, arches |-> arches, libcs |-> libcs, fat |-> FALSE, android |-> FALSE,
     desktop |-> FALSE, extra |-> 0, form |-> form, versioned |-> FALSE, size |-> 0, inside |-> inside, after |-> "none"]
Lin == {"linux"}
Dar == {"darwin"}
Win == {"windows"}
X64 == {"amd64"}
Arm == {"arm64"}
Pool ==
    {Asset(1, "tool", Lin, X64, {"glibc"}, ".tar.gz", ToolFiles), Asset(2, "tool", Lin, X64, {"musl"}, ".tar.gz", ToolFiles),
     Asset(3, "tool", Lin, X64, {}, ".zip", ToolFiles), [Asset(4, "tool", Lin, Arm, {}, ".tar.gz", AfterFiles) EXCEPT !.after = "tool_linux"],
     Asset(5, "tool", Lin, {}, {}, ".deb", DebFiles), Asset(6, "tool", Dar, Arm, {}, ".zip", SubSeq(AppFiles, 1, 2)),
     [Asset(7, "tool", Dar, {}, {}, ".tar.gz", ToolFiles) EXCEPT !.fat = TRUE], Asset(8, "tool", {}, {}, {}, ".dmg", Absent),
     Asset(9, "tool", Win, X64, {"glibc"}, ".zip", WinFiles), Asset(10, "tool", {}, X64, {}, ".exe", SetupFile),
     [Asset(11, "tool-ctl", Win, X64, {}, ".zip", WinFiles) EXCEPT !.extra = 1], Asset(12, "tool", Lin, {"s390x"}, {}, ".tar.gz", ToolFiles),
     [Asset(13, "tool", Lin, Arm, {}, "", OneFile) EXCEPT !.android = TRUE], Asset(14, "tool-ctl", Lin, X64, {}, "", OneFile),
     Asset(15, "tool", Win, X64, {}, ".exe", GuiFile),
     [Asset(16, "tool", Lin, X64, {}, ".tar.gz", AfterFiles) EXCEPT !.versioned = TRUE, !.size = 1], Asset(17, "tool", Dar, Arm, {}, ".dmg", AppFiles)}

SumsPool == {[name |-> 101, own |-> 1, oses |-> {}, arches |-> {}, states |-> {1}],
             [name |-> 102, own |-> 0, oses |-> {}, arches |-> {}, states |-> 1..17],
             [name |-> 103, own |-> 0, oses |-> Lin, arches |-> {}, states |-> {}]}
SignPool == {<<>>, 1 :> [kind |-> "bundle", by |-> "ci"], 3 :> [kind |-> "pair", by |-> "key"],
             (1 :> [kind |-> "pair", by |-> "elsewhere"]) @@ (101 :> [kind |-> "pair", by |-> "ci"]),
             (102 :> [kind |-> "sig", by |-> "key"]) @@ (1 :> [kind |-> "bundle", by |-> "key"])}
Few == {as \in SUBSET Pool : Cardinality(as) \in 1..3}
MCReleases ==
    {[assets |-> as, sums |-> {}, signs |-> <<>>, key |-> FALSE, provenance |-> {}, attested |-> "", github |-> TRUE, digests |-> TRUE,
      prefixed |-> TRUE] : as \in Few}
    \cup [assets : {{a \in Pool : a.name \in {1, 3, 6}}}, sums : SUBSET SumsPool, signs : SignPool,
          key : BOOLEAN, provenance : {{}, {1}}, attested : {"", "ci"}, github : BOOLEAN, digests : BOOLEAN, prefixed : {FALSE}]

\* What the user asks for, on each OS, with and without pins, --asset and --bin.
Ask(h, pins, glob, bins) == [host |-> All[h], pins |-> {All[i] : i \in pins}, glob |-> glob, bins |-> bins]
MCAsked == {Ask(3, {}, Absent, <<>>), Ask(4, {2, 7}, Absent, <<>>), Ask(2, {5}, Absent, <<"tool-ctl">>), Ask(7, {}, Absent, <<>>),
            Ask(5, {3, 4}, Absent, <<>>), Ask(3, {}, {14}, <<>>), Ask(7, {3}, {10}, <<>>), Ask(3, {2}, {1, 2, 9, 6}, <<>>),
            Ask(7, {}, {11, 15}, <<>>)}
MCBundles == [f \in {"Tool.app"} |-> "Tool"]
MCHelpers == {<<"tool", "tool-ctl">>}

=============================================================================
