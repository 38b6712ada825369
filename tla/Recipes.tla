------------------------------ MODULE Recipes ------------------------------
(***************************************************************************)
(* Manifests that oku translates from the packages of other package        *)
(* managers: internal/infer (recipe.go, aqua.go, cask.go, livecheck.go,    *)
(* tap.go, scoop.go, winget.go), and the ones it writes for a registry's   *)
(* package or a download (npm.go, crates.go, goproxy.go, pypi.go, url.go). *)
(*                                                                         *)
(* A reader makes a recipe of an entry, and text writes the recipe: as a   *)
(* manifest that follows the vendor's versions when every download has a   *)
(* template and a source of versions, or as one that pins the version.  A  *)
(* template is Absent, or the version variables it names with the tag of   *)
(* the release it downloads from: "version", with or without a prefix,     *)
(* "other", or "none" when it is no release of GitHub's.  A path of an     *)
(* output is "plain", or "versioned" when it holds the version.            *)
(***************************************************************************)
EXTENDS Infer

CONSTANTS Aquas, Casks, Taps, Scoops, Wingets, Packages, Links,  \* the entries that each reader may find
          Opened      \* what opening a download of a recipe gives

VARIABLES entry,      \* the entry that was read, with its kind, or Absent
          recipe,     \* the recipe, or Absent for a reader without one
          outcome,    \* "none", "written", "failed" or "panicked"
          written     \* the manifest, or Absent
recipeVars == <<entry, recipe, outcome, written>>

-----------------------------------------------------------------------------
(* recipe.go *)

\* follow: the keys of a [version], and how many parts the versions it finds have.
Source(from, gives) == [from |-> from, strip |-> FALSE, regex |-> "none", join |-> "none", json |-> "none", gives |-> gives]
Read(from, gives) == [Source(from, gives) EXCEPT !.regex = "group", !.join = IF gives > 1 THEN "good" ELSE "none"]
FollowTOML(f) == [f2 \in DOMAIN NoVersion |-> IF f2 = "repo" THEN "good" ELSE IF f2 \in DOMAIN f THEN f[f2] ELSE NoVersion[f2]]

GithubFollow(t) == IF t = Absent \/ t.tag # "version" THEN Absent
                   ELSE [Source("github-releases", 1) EXCEPT !.strip = t.prefixed]

\* githubRepoFollow: repo is "download" for the repo of the template, "other", or "none" for no repo.
GithubRepoFollow(repo, t) ==
    CASE repo = "download" /\ GithubFollow(t) # Absent -> GithubFollow(t)
      [] repo = "none" -> Absent
      [] OTHER -> Source("github-releases", 1)

NoSigs == [sumsBundle |-> FALSE, sumsSignature |-> FALSE, sumsCertificate |-> FALSE, bundle |-> FALSE, signature |-> FALSE,
           certificate |-> FALSE]
NoArtifact == [sel |-> Selector("", "", "", ""), url |-> "", sha |-> FALSE, template |-> Absent, sums |-> Absent, sigs |-> NoSigs,
               signer |-> "", keyURL |-> "", provenance |-> FALSE, follow |-> Absent, strip |-> 0, bins |-> <<>>, apps |-> {},
               launchers |-> FALSE, files |-> {}]
Bin(shape, path) == [shape |-> shape, path |-> path]
Recipe(artifacts, parts) == [artifacts |-> artifacts, parts |-> parts, follow |-> Absent, deps |-> <<>>, signer |-> "",
                             attestations |-> FALSE, keyURL |-> "", key |-> FALSE]

\* sharedFollow.
Shared(r) ==
    LET follows == {r.artifacts[i].follow : i \in DOMAIN r.artifacts}
        f == CHOOSE f \in follows : TRUE
    IN IF Cardinality(follows) # 1 \/ f = Absent THEN r
       ELSE [r EXCEPT !.follow = f, !.artifacts = [i \in DOMAIN @ |-> [@[i] EXCEPT !.follow = Absent]]]

\* namedAfter looks for the whole version, which no path holds when it has several parts.
NamedAfter(a, parts) == parts = 1 /\ "versioned" \in a.apps \cup a.files \cup {a.bins[i].path : i \in DOMAIN a.bins}

Fixed(r) ==
    \E i \in DOMAIN r.artifacts : LET a == r.artifacts[i] IN
        a.template = Absent \/ NamedAfter(a, r.parts) \/ (r.follow = Absent /\ a.follow = Absent)

\* The artifact that text writes, with outputs for its programs and apps.
Entry(bin) == [BinEntry(FALSE) EXCEPT !.kind = IF bin.shape = "path" THEN "path" ELSE "table", !.path = bin.shape # "run",
                                      !.run = IF bin.shape = "run" THEN {"pkg"} ELSE Absent]
Written1(a, fixed, own) ==
    [match |-> a.sel, url |-> IF fixed THEN {} ELSE a.template.vars, sums |-> IF fixed THEN Absent ELSE a.sums, signs |-> {"tag"},
     plain |-> FALSE, place |-> IF ~fixed /\ a.template.tag # "none" THEN "release" ELSE "other",
     sha |-> IF fixed /\ a.sha THEN "good" ELSE "none", integrity |-> "none", version |-> IF fixed \/ ~own THEN Absent ELSE FollowTOML(a.follow),
     provenance |-> ~fixed /\ a.provenance, bin |-> [i \in DOMAIN a.bins |-> Entry(a.bins[i])],
     app |-> SetToSeq({AppEntry("app") : x \in a.apps} \cup
                      (IF a.launchers THEN {[kind |-> "table", path |-> TRUE, bundle |-> FALSE, titled |-> TRUE]} ELSE {})),
     files |-> a.files # {}, completions |-> [kind |-> "nil", keys |-> {}, generate |-> Absent], data |-> FALSE, strip |-> a.strip]
    @@ (IF fixed THEN NoSigs ELSE a.sigs)

NewPackage == [key |-> "none", workflow |-> "none", attestations |-> FALSE, named |-> TRUE, env |-> "none", oldApp |-> FALSE, host |-> "none"]
Dep(ref) == [ref |-> ref, other |-> FALSE, when |-> [kind |-> "nil", tables |-> <<>>]]

\* recipe.text.
Text(r) ==
    LET fixed == Fixed(r) IN
    [package |-> [NewPackage EXCEPT !.workflow = IF r.signer # "" /\ ~fixed THEN "good" ELSE "none",
                                    !.attestations = r.signer # "" /\ r.attestations /\ ~fixed,
                                    !.key = IF r.key /\ ~fixed THEN "cosign" ELSE "none"],
     version |-> CASE fixed -> [NoVersion EXCEPT !.value = "good"]
                   [] r.follow # Absent -> FollowTOML(r.follow)
                   [] OTHER -> NoVersion,
     artifacts |-> [i \in DOMAIN r.artifacts |-> Written1(r.artifacts[i], fixed, r.follow = Absent)],
     build |-> Absent, deps |-> [i \in DOMAIN r.deps |-> Dep(r.deps[i])], services |-> <<>>]

-----------------------------------------------------------------------------
(* aqua.go.  A package and each of its overrides are records in which      *)
(* Absent is what an override leaves out.                                  *)

\* over: an override keeps its own overrides, emulation and no_asset.
OwnKeys == {"overrides", "rosetta", "windowsArm", "noAsset"}
Over(o, p) == [f \in DOMAIN p |-> IF f \in OwnKeys \/ o[f] # Absent THEN o[f] ELSE p[f]]

\* current: the first rule that covers the newest releases.
Current(e) ==
    LET fits == SelectSeq(e.versions, LAMBDA o : o.covers)
    IN IF e.covers THEN e.package ELSE IF fits = <<>> THEN Absent ELSE Over(fits[1].package, e.package)

NoCheck == [workflow |-> "", key |-> "", bundle |-> FALSE, signature |-> FALSE, certificate |-> FALSE]
\* aquaCosign.check.
CosignCheck(c) ==
    IF c = Absent THEN NoCheck
    ELSE LET keyed == c.key # "" /\ c.issuer = "" /\ ~c.ignoresLog
             signed == c.signature /\ (keyed \/ c.certificate)
             identified == (c.identity = "pattern" /\ c.ref) \/ c.identity = "exact"
         IN IF ~c.enabled \/ (~keyed /\ (c.issuer # "github" \/ c.repo = "other" \/ ~identified)) \/ ~(c.bundle \/ signed) THEN NoCheck
            ELSE [workflow |-> IF keyed THEN "" ELSE c.workflow, key |-> IF keyed THEN c.key ELSE "", bundle |-> c.bundle,
                  signature |-> ~c.bundle, certificate |-> ~c.bundle /\ ~keyed]

\* supports: an env is an OS, an arch, both or neither for "all".
Supports(p, sel) == p.envs = {} \/ \E env \in p.envs : env[1] \in {"", sel.os} /\ env[2] \in {"", sel.arch}

\* aquaFiles: the folders at the top of a file that are named after the version become strip.
AquaBins(p, a) ==
    IF p.raw THEN [a EXCEPT !.bins = [i \in DOMAIN p.files |-> Bin("path", "plain")]]
    ELSE [a EXCEPT !.strip = p.files[Len(p.files)].folders, !.bins = [i \in DOMAIN p.files |-> Bin(p.files[i].shape, "plain")]]
AquaFails(p) == /\ ~p.raw
                /\ \E i \in DOMAIN p.files : \/ p.files[i].versioned
                                             \/ i > 1 /\ p.files[i - 1].folders \notin {0, p.files[i].folders}

\* artifact, for a platform: the build of its arch, or one that it emulates.
AquaBuild(cur, sel) ==
    LET emulates == sel.arch = "arm64" /\ ((sel.os = "darwin" /\ cur.rosetta) \/ (sel.os = "windows" /\ cur.windowsArm))
    IN IF emulates THEN [sel EXCEPT !.arch = "amd64"] ELSE sel
AquaOf(cur, sel) ==
    LET build == AquaBuild(cur, sel)
        fits == SelectSeq(cur.overrides, LAMBDA o : o.os \in {"", build.os} /\ o.arch \in {"", build.arch})
    IN IF fits = <<>> THEN cur ELSE Over(fits[1].package, cur)
AquaArtifact(cur, sel) ==
    LET p == AquaOf(cur, sel)
        sums == p.checksum # Absent /\ p.checksum.sha256
        sumsCheck == IF sums THEN CosignCheck(p.checksum.cosign) ELSE NoCheck
        fileCheck == LET c == CosignCheck(p.cosign) IN
                     IF sumsCheck = NoCheck \/ (c.workflow = sumsCheck.workflow /\ c.key = sumsCheck.key) THEN c ELSE NoCheck
        by == IF fileCheck # NoCheck THEN fileCheck ELSE sumsCheck
    IN AquaBins(p, [NoArtifact EXCEPT
        !.sel = sel, !.url = p.asset, !.template = [vars |-> {"tag"}, tag |-> IF p.type = "http" THEN "none" ELSE "version", prefixed |-> FALSE],
        !.sums = IF sums THEN {"tag"} ELSE Absent, !.provenance = p.provenance /\ p.type = "github_release",
        !.sigs = [sumsBundle |-> sumsCheck.bundle, sumsSignature |-> sumsCheck.signature, sumsCertificate |-> sumsCheck.certificate,
                  bundle |-> fileCheck.bundle, signature |-> fileCheck.signature, certificate |-> fileCheck.certificate],
        !.signer = by.workflow, !.keyURL = by.key])

AquaPlatforms == <<Selector("darwin", "arm64", "", ""), Selector("darwin", "amd64", "", ""), Selector("linux", "arm64", "", ""),
                   Selector("linux", "amd64", "", ""), Selector("windows", "arm64", "", ""), Selector("windows", "amd64", "", "")>>

FirstOf(values) == LET set == SelectSeq(values, LAMBDA v : v # "") IN IF set = <<>> THEN "" ELSE set[1]

\* The loops that give the manifest one signer, and signingKey, when the key cannot be read.
OneSignerNone(r, readable) == [r EXCEPT !.key = r.keyURL # "" /\ readable]
OneSigner(r, readable) ==
    [r EXCEPT !.key = r.keyURL # "" /\ readable,
              !.artifacts = [i \in DOMAIN @ |->
                  IF @[i].signer # r.signer \/ @[i].keyURL # r.keyURL \/ (r.keyURL # "" /\ ~readable)
                  THEN [@[i] EXCEPT !.sigs = NoSigs] ELSE @[i]]]
AquaRecipe(e) ==
    LET cur == Current(e)
        sels == SelectSeq(AquaPlatforms, LAMBDA s : Supports(cur, s) \/ Supports(cur, AquaBuild(cur, s)))
        as == [i \in DOMAIN sels |-> AquaArtifact(cur, sels[i])]
        signer == FirstOf(<<IF cur.attestations = Absent THEN "" ELSE cur.attestations>> \o [i \in DOMAIN as |-> as[i].signer])
    IN OneSigner([Recipe(as, 1) EXCEPT
            !.follow = [Source("github-releases", 1) EXCEPT !.strip = e.prefixed], !.signer = signer,
            !.attestations = cur.attestations # Absent,
            !.keyURL = IF signer = "" THEN FirstOf([i \in DOMAIN as |-> as[i].keyURL]) ELSE ""], e.readable)
AquaRefused(e) ==
    LET cur == Current(e) IN
    \/ cur = Absent
    \/ cur.noAsset \/ cur.type \notin {"github_release", "http"}
    \/ \E i \in DOMAIN AquaPlatforms : LET s == AquaPlatforms[i] IN
           (Supports(cur, s) \/ Supports(cur, AquaBuild(cur, s))) /\ (AquaOf(cur, s).asset = "bad" \/ AquaFails(AquaOf(cur, s)))
    \/ ~\E i \in DOMAIN AquaPlatforms : Supports(cur, AquaPlatforms[i]) \/ Supports(cur, AquaBuild(cur, AquaPlatforms[i]))

-----------------------------------------------------------------------------
(* cask.go and tap.go.  A build is a record with url, sha and stanzas, in  *)
(* which Absent is what a variation leaves to the top.                     *)
Variation(c, v, os, arch) ==
    [sel |-> Selector(os, arch, "", ""), url |-> IF v.url = "" THEN c.top.url ELSE v.url,
     sha |-> IF v.sha = Absent THEN c.top.sha ELSE v.sha, stanzas |-> IF v.stanzas = Absent THEN c.top.stanzas ELSE v.stanzas]

LinuxOf(c, key, arch) ==
    LET vs == {v \in c.variations : v.key = key /\ v.stanzas # Absent /\ v.same /\ v.archs \in {{}, {arch}}}
    IN [i \in 1..Cardinality(vs) |-> Variation(c, CHOOSE v \in vs : TRUE, "linux", arch)]

\* platforms: the lists it may return, since it reads the variations of a Go map in any order.
CaskPlatforms(c) ==
    LET arm == [c.top EXCEPT !.sel = Selector("darwin", IF c.archs = {"amd64"} THEN "amd64" ELSE "arm64", "", "")]
        intel == {Variation(c, v, "darwin", "amd64") : v \in {w \in c.variations : w.key = "release" /\ w.same}}
        urls == {p.url : p \in intel}
        macs == CASE Cardinality(c.archs) = 1 -> {<<arm>>}
                  [] urls \subseteq {arm.url} -> {<<[arm EXCEPT !.sel.arch = ""]>>}
                  [] Cardinality(urls) = 1 -> {<<arm, p>> : p \in intel}
                  [] OTHER -> {<<arm>>}
    IN {m \o LinuxOf(c, "arm64_linux", "arm64") \o LinuxOf(c, "x86_64_linux", "amd64") : m \in macs}

\* caskOutputs.  A stanza has a kind, and the path of what it places: "absolute" for a program that a package
\* installs, "outside" for one that is not in the download, "completion" for a file of a shell's, "kext".
Placed == {"app", "font", "manpage", "pkg", "suite", "binary", "app_image"}
Ignored == {"artifact", "uninstall", "zap", "preflight", "postflight"}
OfKind(stanzas, kinds) == SelectSeq(stanzas, LAMBDA s : s.kind \in kinds /\ s.path # "completion")
CaskFails(stanzas) ==
    LET has(kind, path) == \E i \in DOMAIN stanzas : stanzas[i].kind = kind /\ stanzas[i].path = path
    IN \/ \E i \in DOMAIN stanzas : stanzas[i].kind \notin Placed \cup Ignored
       \/ has("uninstall", "kext") \/ has("binary", "outside")
       \/ has("binary", "absolute") /\ OfKind(stanzas, {"pkg"}) = <<>>
       \/ OfKind(stanzas, Placed) = <<>>
CaskOutputs(a, stanzas) ==
    LET paths(kinds) == {s.path : s \in ToSet(OfKind(stanzas, kinds))}
        bins == SelectSeq(OfKind(stanzas, {"binary", "app_image"}), LAMBDA s : s.path # "absolute")
    IN [a EXCEPT !.apps = paths({"app"}), !.files = paths({"font", "manpage"}),
                 !.bins = [i \in DOMAIN bins |-> Bin("path", IF bins[i].kind = "binary" THEN bins[i].path ELSE "plain")]]

\* openCask: what a package or a suite holds, which the cask does not name.
Opens1(stanzas) == OfKind(stanzas, {"pkg", "suite"}) # <<>>
OpenCask(a, stanzas) ==
    LET o == Opened[a.url]
        pkg == OfKind(stanzas, {"pkg"}) # <<>>
        linked == OfKind(stanzas, {"binary"})
        absolute == SelectSeq(linked, LAMBDA s : s.path = "absolute")
        with == [a EXCEPT !.bins = @ \o [i \in DOMAIN absolute |-> Bin("name", o.path)], !.apps = @ \cup o.apps]
        nothing == pkg /\ with.apps = {} /\ with.bins = <<>>
    IN IF nothing THEN [with EXCEPT !.bins = [i \in 1..o.programs |-> Bin("path", o.path)]] ELSE with
OpenFails(a, stanzas) ==
    LET o == Opened[a.url]
        opened == OpenCask(a, stanzas)
    IN \/ ~o.read
       \/ ~o.linked /\ \E i \in DOMAIN stanzas : stanzas[i].path = "absolute"
       \/ opened.apps = {} /\ opened.bins = <<>> /\ opened.files = {}
       \/ o.parts > 1 /\ Len(opened.bins) > 1

\* fillTemplate: a Ruby template gives the URLs in gives, with the version variables in vars.  The version of
\* a cask with parts holds commas, which oku's version cannot give.
Fills(t, url, parts) ==
    /\ url \in t.gives /\ ~t.computes /\ t.vars # {}
    /\ parts > 1 => "version" \notin t.vars
    /\ Expand(t.vars, {"version"}, [numbers |-> 3, parts |-> parts]) = "done"
CaskTemplate(c, url) ==
    LET fit == SelectSeq(c.templates, LAMBDA t : Fills(t, url, c.parts))
    IN IF fit = <<>> THEN Absent ELSE fit[1]

\* liveFollow: the parts of the version are fields of the feed, or the groups of the regex in a field.
LiveFollow(refs, fields, groups) ==
    LET matched == SelectSeq(refs, LAMBDA r : r.n > 0)
        paths == SelectSeq(refs, LAMBDA r : r.n <= 1)
        before(i) == {j \in 1..(i - 1) : refs[j].field = refs[i].field}
        ordered == \A i \in DOMAIN refs : /\ refs[i].field \in DOMAIN fields
                                         /\ fields[refs[i].field] = (refs[i].n > 0)
                                         /\ refs[i].n > 0 => refs[i].n = Cardinality(before(i)) + 1
        lines == Cardinality({i \in DOMAIN paths : paths[i].n = 1})
    IN IF ~ordered \/ (matched # <<>> /\ groups # Len(matched)) THEN Absent
       ELSE [Source("page", (Len(refs) - Len(matched)) + lines * groups) EXCEPT
                !.json = "good", !.join = IF Len(paths) = 1 /\ matched = <<>> THEN "none" ELSE "good",
                !.regex = IF matched = <<>> THEN "none" ELSE "group"]

\* blockFollow, with liveValue.
BlockFollow(b, parts) ==
    CASE b.block.one /\ parts = 1 /\ b.strategy = "json" ->
            IF b.block.reads /\ b.block.deep THEN [Source("page", 1) EXCEPT !.json = "good"] ELSE Absent
      [] ~b.block.reads \/ Len(b.block.refs) # parts -> Absent
      [] OTHER -> LiveFollow(b.block.refs, b.block.fields, b.groups)

\* caskLivecheck, for the one livecheck that does not skip.
LiveBody(c) == LET live == SelectSeq(c.checks, LAMBDA b : ~b.skip) IN IF Len(live) = 1 THEN live[1] ELSE Absent
ByBlock(b, parts) ==
    IF b.strategy \in {"json", "xml"} /\ b.block # Absent /\ b.url # "download" THEN BlockFollow(b, parts) ELSE Absent
ByRegex(b, t, parts) ==
    LET fileName == b.groups = Absent /\ b.strategy = "header_match" /\ parts = 1 /\ "version" \in t.vars
        fits == IF parts > 1 THEN b.groups = parts ELSE b.groups \in {0, 1}
    IN IF (b.block # Absent /\ ~(b.block.joins /\ parts > 1)) \/ ~(fileName \/ fits) THEN Absent
       ELSE CASE b.strategy \in {"", "page_match"} -> Read("page", parts)
              [] b.strategy = "header_match" -> Read("redirect", parts)
              [] OTHER -> Absent
CaskLivecheck(c, t) ==
    LET b == LiveBody(c) IN
    CASE b = Absent \/ t = Absent -> Absent
      [] b.url \in {"none", "unread"} -> Absent
      [] ByBlock(b, c.parts) # Absent -> ByBlock(b, c.parts)
      [] c.parts > 1 /\ b.strategy = "sparkle" ->
            IF (b.block = Absent /\ ~b.short) \/ b.nice THEN [Source("sparkle", 2) EXCEPT !.join = "good"] ELSE Absent
      [] c.parts > 1 /\ b.strategy \notin {"", "page_match", "header_match"} -> Absent
      [] b.strategy \in {"github_latest", "github_releases"} ->
            IF b.url = "download" THEN GithubFollow(t) ELSE GithubRepoFollow(b.repo, t)
      [] b.url = "download" -> Absent
      [] b.strategy = "json" -> IF b.keys = 1 THEN Read("page", 1) ELSE Absent
      [] b.strategy = "sparkle" -> IF b.short THEN Source("sparkle", 1) ELSE Absent
      [] b.strategy = "electron_builder" -> Read("page", 1)
      [] OTHER -> ByRegex(b, t, c.parts)

\* caskJSON.recipe and FromCask for one list of platforms.  A build for Linux that oku cannot place is left out.
CaskArtifact(c, p) ==
    LET t == CaskTemplate(c, p.url)
        a == CaskOutputs([NoArtifact EXCEPT !.sel = p.sel, !.url = p.url, !.sha = p.sha, !.template = t,
                              !.follow = IF c.checks # <<>> THEN CaskLivecheck(c, t) ELSE GithubFollow(t)], p.stanzas)
    IN IF Opens1(p.stanzas) THEN OpenCask(a, p.stanzas) ELSE a
CaskKept(ps) == SelectSeq(ps, LAMBDA p : ~CaskFails(p.stanzas))
CaskRecipe(c, ps) == Shared(Recipe([i \in DOMAIN CaskKept(ps) |-> CaskArtifact(c, CaskKept(ps)[i])], c.parts))
CaskRefused(c, ps) ==
    \/ c.disabled \/ c.latest \/ ~c.reads
    \/ \E i \in DOMAIN ps : ps[i].sel.os = "darwin" /\ CaskFails(ps[i].stanzas)
    \/ \E i \in DOMAIN CaskKept(ps) : LET p == CaskKept(ps)[i] IN
           Opens1(p.stanzas) /\ OpenFails(CaskOutputs([NoArtifact EXCEPT !.url = p.url], p.stanzas), p.stanzas)

\* liveValue indexes the match of an XML value before it asks whether there is one.
Panics(c, ps) ==
    \E i \in DOMAIN ps : LET b == LiveBody(c) IN
        /\ ~CaskFails(ps[i].stanzas) /\ ~\E j \in 1..(i - 1) : ps[j].sel.os = "darwin" /\ CaskFails(ps[j].stanzas)
        /\ CaskTemplate(c, ps[i].url) # Absent
        /\ b # Absent /\ b.url \notin {"none", "unread", "download"} /\ b.strategy = "xml" /\ b.block # Absent /\ b.block.valueUnread

\* readCaskRuby, with caskBuild: a tap's own cask, whose values stand at the top or in a block for an arch.
TapBuild(top, own) == [url |-> IF own.url = "" THEN top.url ELSE own.url, sha |-> top.sha \/ own.sha, stanzas |-> top.stanzas \o own.stanzas]
ReadTap(c) ==
    LET arm == TapBuild(c.top, c.onArm)
        intel == TapBuild(c.top, c.onIntel)
    IN [c EXCEPT !.top = arm @@ [sel |-> c.top.sel], !.reads = @ /\ arm.url # "",
                 !.variations = {[key |-> "release", same |-> c.same, archs |-> {}, url |-> intel.url, sha |-> intel.sha,
                                  stanzas |-> IF intel.stanzas = <<>> THEN Absent ELSE intel.stanzas]}]

-----------------------------------------------------------------------------
(* scoop.go.  A part for an arch is a record in which Absent is what it    *)
(* leaves to the top; later is its URL in autoupdate.                      *)

\* over.
Filled(part, whole) == [f \in DOMAIN part |-> IF part[f] = Absent THEN whole[f] ELSE part[f]]

\* The parts that recipe reads: one for Windows, or one for each arch.  A part that a script unpacks is left out.
ScoopParts(s) ==
    LET archs == SelectSeq(<<"amd64", "arm64", "386">>, LAMBDA a : a \in DOMAIN s.archs)
        parts == IF archs = <<>> THEN <<[arch |-> "", part |-> s.top]>>
                 ELSE [i \in DOMAIN archs |-> [arch |-> archs[i], part |-> Filled(s.archs[archs[i]], s.top)]]
    IN SelectSeq(parts, LAMBDA p : p.part.pre # "unpacks")

\* scoopCheckver: "github" is the rule github with the homepage.
ScoopCheckver(c, t) ==
    CASE c = Absent \/ t = Absent -> Absent
      [] c.script -> Absent
      [] c.github # "" /\ c.groups = Absent /\ c.path = "" -> GithubRepoFollow(c.github, t)
      [] c.url # "read" -> Absent
      [] (c.path = "key" /\ c.groups = Absent) \/ c.groups \in {0, 1} -> Read("page", 1)
      [] OTHER -> Absent

\* scoopOutputs: the program of a shortcut is exposed too.
ScoopBins(part) ==
    (IF part.bins = Absent THEN <<>> ELSE part.bins) \o (IF part.shortcut = "new" THEN <<Bin("path", "plain")>> ELSE <<>>)
\* pathPrograms: the programs in the directories that a manifest puts on PATH.
PathBins(s, url) == IF s.pathDirs THEN [i \in 1..Opened[url].programs |-> Bin("path", Opened[url].path)] ELSE <<>>

ScoopArtifact(s, p) ==
    LET t == IF p.part.later = Absent \/ ~Fills(p.part.later, p.part.url, 1) THEN Absent ELSE p.part.later
    IN [NoArtifact EXCEPT !.sel = Selector("windows", p.arch, "", ""), !.url = p.part.url, !.sha = p.part.sha, !.template = t,
                          !.strip = p.part.folders, !.bins = ScoopBins(p.part) \o PathBins(s, p.part.url),
                          !.launchers = p.part.shortcut \in {"new", "listed"}, !.follow = ScoopCheckver(s.checkver, t)]
ScoopRecipe(s) ==
    LET ps == ScoopParts(s)
    IN Shared([Recipe([i \in DOMAIN ps |-> ScoopArtifact(s, ps[i])], 1) EXCEPT !.deps = SelectSeq(s.depends, LAMBDA d : d # "7zip")])
ScoopRefused(s) ==
    \/ s.installer \in {"inno", "file", "unpacks"}
    \/ \E i \in DOMAIN ScoopParts(s) : LET part == ScoopParts(s)[i].part IN
           \/ part.url = "several"
           \/ ScoopBins(part) = <<>> /\ ~s.pathDirs
           \/ s.pathDirs /\ (~Opened[part.url].read \/ ScoopBins(part) \o PathBins(s, part.url) = <<>>)

-----------------------------------------------------------------------------
(* winget.go *)
WingetPlaced(i) == (IF i.type = "zip" THEN i.nested ELSE i.type) \in {"portable", "msi"}
Portable(i) == i.type = "portable" \/ (i.type = "zip" /\ i.nested = "portable")

\* pickInstaller: the first of the best rank.
InstallerRank(i) == (IF WingetPlaced(i) THEN 0 ELSE 4) + (IF i.machine THEN 2 ELSE 0) + (IF i.foreign THEN 1 ELSE 0)
PickInstaller(w, arch) ==
    LET all == [i \in DOMAIN w.installers |-> Filled(w.installers[i], w.top)]
        fit == SelectSeq(all, LAMBDA i : i.arch = arch)
        best == {j \in DOMAIN fit : \A k \in DOMAIN fit : InstallerRank(fit[j]) <= InstallerRank(fit[k])}
    IN IF fit = <<>> THEN <<>> ELSE <<fit[Min(best)]>>

\* wingetArtifact: a folder at the top of a zip that is named after the version becomes strip.
WingetFails(i) == ~WingetPlaced(i) \/ (~Portable(i) /\ ~(Opened[i.url].read /\ Opened[i.url].linked))
WingetArtifact(i) ==
    [NoArtifact EXCEPT
        !.sel = Selector("windows", i.arch, "", ""), !.url = i.url, !.sha = TRUE, !.template = i.template, !.follow = GithubFollow(i.template),
        !.strip = IF i.type = "zip" /\ i.nested = "portable" /\ \E j \in DOMAIN i.files : i.files[j].top THEN 1 ELSE 0,
        !.bins = CASE i.type = "portable" -> <<Bin("path", i.path)>>
                   [] i.type = "zip" /\ i.nested = "portable" -> [j \in DOMAIN i.files |-> Bin(i.files[j].shape, i.files[j].path)]
                   [] OTHER -> [j \in 1..(IF i.commands = 0 THEN 1 ELSE i.commands) |-> Bin("path", Opened[i.url].path)]]
WingetRecipe(w) ==
    LET picks == FlattenSeq([a \in 1..4 |-> PickInstaller(w, <<"amd64", "arm64", "386", "">>[a])])
        placed == SelectSeq(picks, LAMBDA i : ~WingetFails(i))
    IN Shared(Recipe([i \in DOMAIN placed |-> WingetArtifact(placed[i])], 1))

-----------------------------------------------------------------------------
(* npm.go, crates.go, goproxy.go, pypi.go and url.go, which write their    *)
(* manifest without a recipe.                                              *)
NoCompletions == [kind |-> "nil", keys |-> {}, generate |-> Absent]
RegistryVersion(from) == [NoVersion EXCEPT !.from = from, !.repo = "good"]
NewManifest(version) == [package |-> NewPackage, version |-> version, artifacts |-> <<>>, build |-> Absent, deps |-> <<>>, services |-> <<>>]
RunBin(vars) == [BinEntry(FALSE) EXCEPT !.kind = "table", !.run = vars, !.path = FALSE]
NewStep(kind) == [kinds |-> {kind}, when |-> [kind |-> "nil", tables |-> <<>>], shell |-> "none", run |-> Absent, vendor |-> "none", package |-> "none",
                  scripts |-> "none", fetch |-> "none", file |-> FALSE, bin |-> <<>>, app |-> <<>>, completions |-> NoCompletions]
NewBuild(steps, deps, source) == [when |-> [kind |-> "nil", tables |-> <<>>], steps |-> steps, deps |-> deps, source |-> source, sourceSha |-> "none",
                                  sourceSums |-> Absent, plain |-> FALSE]
VendorStep(vendor, scripts) == [NewStep("vendor") EXCEPT !.vendor = vendor, !.package = "good", !.scripts = scripts]

\* FromNPM, with npmBuild.  The toolchain is the package that provides node, or "".
NPMArtifact(e, os, vars) ==
    [match |-> Selector(os, "", "", ""), url |-> {"version"}, sums |-> Absent, signs |-> {}, plain |-> FALSE, place |-> "registry", sha |-> "none",
     integrity |-> "none", version |-> Absent, provenance |-> FALSE, bin |-> [i \in 1..e.programs |-> RunBin(vars)], app |-> <<>>, files |-> FALSE,
     completions |-> NoCompletions, data |-> FALSE, strip |-> 1] @@ NoSigs
FromNPM(e) ==
    LET m == [NewManifest(RegistryVersion("npm")) EXCEPT !.deps = IF e.toolchain = "" THEN <<>> ELSE <<Dep(e.toolchain)>>]
        install == [NewStep("install") EXCEPT !.bin = [i \in 1..e.programs |-> RunBin({"dep"})]]
    IN CASE e.dependencies -> [m EXCEPT !.build = NewBuild(<<VendorStep("npm", IF e.scripts THEN "good" ELSE "none"), install>>, m.deps, "none")]
         [] e.toolchain = "" -> [m EXCEPT !.artifacts = <<NPMArtifact(e, "linux", {}), NPMArtifact(e, "darwin", {})>>]
         [] OTHER -> [m EXCEPT !.artifacts = <<NPMArtifact(e, "windows", {"dep"}), NPMArtifact(e, "", {"dep"})>>]

\* FromCrates, FromGo and FromPyPI: the step vendors the dependencies and installs the programs.
ToolchainDeps(e) == IF e.toolchain = "" THEN <<>> ELSE <<Dep(e.toolchain)>>
FromCrates(e) == [NewManifest(RegistryVersion("crates")) EXCEPT !.build = NewBuild(<<VendorStep("cargo", "none")>>, ToolchainDeps(e), "registry")]
FromGo(e) == [NewManifest(RegistryVersion("go")) EXCEPT !.build = NewBuild(<<VendorStep("go", "none")>>, ToolchainDeps(e), "none")]
FromPyPI(e) == [NewManifest(RegistryVersion("pypi")) EXCEPT
                    !.deps = ToolchainDeps(e), !.build = NewBuild(<<VendorStep("pip", "none")>>, Append(ToolchainDeps(e), Dep("uv")), "none")]
PackageRefused(e) ==
    \/ ~e.published
    \/ e.kind \in {"npm", "crates"} /\ e.programs = 0
    \/ e.kind = "npm" /\ e.dependencies /\ e.toolchain = ""

\* FromURL: the one artifact of a download, for the host.
LinkLayout(e) == FindLayout(e.inside, Repo, e.file, e.bins, e.archive)
FromURL(e) ==
    LET l == LinkLayout(e)
        apps == l.app \ (IF e.host.os = "linux" THEN {} ELSE {"desktop"})
    IN [NewManifest([NoVersion EXCEPT !.value = "good"]) EXCEPT !.artifacts =
          <<[match |-> Selector(e.host.os, e.host.arch, "", ""), url |-> {}, sums |-> Absent, signs |-> {}, plain |-> FALSE, place |-> "other",
             sha |-> "none", integrity |-> "none", version |-> Absent, provenance |-> FALSE,
             bin |-> [i \in DOMAIN l.bins |-> BinEntry(i = 1 /\ l.named)], app |-> SetToSeq({AppEntry(x) : x \in apps}), files |-> l.man # {},
             completions |-> NoCompletions, data |-> FALSE, strip |-> l.strip] @@ NoSigs>>]

-----------------------------------------------------------------------------
RecipeInit == entry = Absent /\ recipe = Absent /\ outcome = "none" /\ written = Absent

\* What the readers of a recipe share: text fails on one without artifacts.
Translate(e, refused, r) ==
    /\ entry' = e
    /\ IF refused \/ r.artifacts = <<>> THEN outcome' = "failed" /\ UNCHANGED <<recipe, written>>
       ELSE outcome' = "written" /\ recipe' = r /\ written' = Text(r)
Write(e, refused, m) ==
    /\ entry' = e /\ UNCHANGED recipe
    /\ IF refused THEN outcome' = "failed" /\ UNCHANGED written ELSE outcome' = "written" /\ written' = m

FromAqua == outcome = "none" /\ \E e \in Aquas : Translate(e, AquaRefused(e), AquaRecipe(e))

\* FromCask and FromTap, which share the translation.  It panics before it fails on what it opens.
ReadCask(c) ==
    \E ps \in CaskPlatforms(c) :
        IF c.reads /\ ~c.disabled /\ ~c.latest /\ Panics(c, ps)
        THEN entry' = c /\ outcome' = "panicked" /\ UNCHANGED <<recipe, written>>
        ELSE Translate(c, CaskRefused(c, ps), CaskRecipe(c, ps))
FromCask == outcome = "none" /\ \E c \in Casks : ReadCask(c)
FromTap == outcome = "none" /\ \E c \in Taps : ReadCask(ReadTap(c))

FromScoop == outcome = "none" /\ \E e \in Scoops : Translate(e, ScoopRefused(e), ScoopRecipe(e))
FromWinget == outcome = "none" /\ \E e \in Wingets : Translate(e, FALSE, WingetRecipe(e))

FromRegistry ==
    outcome = "none" /\ \E e \in Packages :
        Write(e, PackageRefused(e), CASE e.kind = "npm" -> FromNPM(e) [] e.kind = "crates" -> FromCrates(e)
                                     [] e.kind = "go" -> FromGo(e) [] OTHER -> FromPyPI(e))
FromLink == outcome = "none" /\ \E e \in Links : Write(e, ~e.named \/ e.page \/ LinkLayout(e).failed, FromURL(e))

RecipeNext == FromAqua \/ FromCask \/ FromTap \/ FromScoop \/ FromWinget \/ FromRegistry \/ FromLink

-----------------------------------------------------------------------------
(* What oku translates, Parse and lint accept and an install can use: no   *)
(* signature without its signer, no two signers, no source of versions     *)
(* that the resolver cannot read, for every mix of what an entry has.      *)
TranslatedInstalls == outcome = "written" => Lint(written) = {} /\ Usable(written)

(* A manifest that follows the vendor is right for its next version too:   *)
(* the source finds as many parts as each URL names, nothing of the        *)
(* entry's own version (a digest, a path) is left in it.  One that pins    *)
(* the version has the entry's downloads and digests and asks for no       *)
(* signature, which only the releases have.                                *)
TranslatedHolds ==
    outcome = "written" /\ recipe # Absent =>
        \A i \in DOMAIN recipe.artifacts :
            LET a == recipe.artifacts[i]
                w == written.artifacts[i]
                source == IF recipe.follow = Absent THEN a.follow ELSE recipe.follow
            IN IF written.version.value # "none"
               THEN w.url = {} /\ (w.sha = "good") = a.sha /\ ~Sigstore(w) /\ ~w.provenance
               ELSE /\ source # Absent
                    /\ Expand(w.url, ArtifactVars, [numbers |-> 3, parts |-> source.gives]) = "done"
                    /\ w.sha = "none"
                    /\ recipe.parts = 1 => "versioned" \notin a.apps \cup a.files \cup {a.bins[j].path : j \in DOMAIN a.bins}

\* What a translation promises: TranslatedInstalls and TranslatedHolds.
TranslatedServes == TranslatedInstalls /\ TranslatedHolds

=============================================================================
