----------------------------- MODULE Manifests -----------------------------
(***************************************************************************)
(* A package's manifest: what Parse accepts, what Lint reports, and what   *)
(* an install then does with it: internal/manifest, with the parts of      *)
(* internal/store and internal/resolve that read a manifest's keys.        *)
(*                                                                         *)
(* An author edits the keys of a manifest one at a time.  A key with text  *)
(* holds the template variables it names, or Absent; other keys hold the   *)
(* kinds of value that the checks tell apart, "none" for an absent one.    *)
(***************************************************************************)
EXTENDS Platforms

CONSTANTS Bases,     \* the manifests an author starts from
          PackageOf, VersionOf, ArtifactOf, StepOf, BuildOf, ServiceOf, DepsOf,  \* the values each key may take, by key
          Found,     \* the versions a source may find: how many numbers, and how many parts between "+"
          MaxEdits,  \* bound: edits of one manifest
          Absent     \* no text, no version, no build

VARIABLES manifest, edited
manifestVars == <<manifest, edited>>

-----------------------------------------------------------------------------
(* Template variables *)
Derived == {"version_minor", "version_part2"}
ArtifactVars == {"version", "tag", "os", "arch", "libc"}
WrapVars == {"prefix", "pkg"} \cup ArtifactVars
BuildVars == {"prefix", "src", "jobs"} \cup ArtifactVars
BuildWrapVars == {"pkg"} \cup BuildVars

Vars(text) == IF text = Absent THEN {} ELSE text

\* unknownVars: a dep's prefix is always known.
UnknownVars(text, known) ==
    Vars(text) \ (known \cup {"dep"} \cup (IF "version" \in known THEN Derived ELSE {}))

\* versionVar: whether the version has the number or the part.
HasVar(name, found) == CASE name = "version_minor" -> found.numbers >= 2
                         [] name = "version_part2" -> found.parts >= 2
                         [] OTHER -> TRUE

\* Expand with the variables of vars, for a version that was found: what fails.
Expand(text, vars, found) ==
    LET unknown == Vars(text) \ (vars \cup (IF "version" \in vars THEN Derived ELSE {}))
    IN IF unknown # {} THEN "unknown"
       ELSE IF \E name \in Vars(text) : ~HasVar(name, found) THEN "version" ELSE "done"

When(condition, error) == IF condition THEN {error} ELSE {}

-----------------------------------------------------------------------------
(* bin, app and completions, which an artifact and an install step share *)

\* splitBin on one entry: a path, or a table with a name and either run and args or a path.
BinErrors(e) ==
    When(e.kind = "other", "bin") \cup
    (IF e.kind # "table" THEN {} ELSE
        When(e.other, "bin key") \cup When(e.breaks, "line break") \cup
        When(~e.named \/ (e.run = Absent /\ ~e.path), "bin table") \cup
        When(e.path /\ e.run # Absent, "bin path"))

\* splitApp on one entry: a path or a table, and a bundle names itself.
AppErrors(e) == When(e.kind = "other" \/ ~e.path, "app") \cup When(e.bundle /\ e.titled, "app name")

\* parseCompletions: a directory, a table of shells, or a table with generate.
ShellKeys == {"fish", "zsh", "bash", "pwsh", "powershell"}
CompletionErrors(c, bins) ==
    CASE c.kind = "nil" -> {}
      [] c.kind = "dir" -> When(bins = 0, "directory without bin")
      [] c.kind = "table" ->
            LET shells == c.keys \cap ShellKeys
                generates == "generate" \in c.keys
            IN When({"pwsh", "powershell"} \subseteq c.keys, "one shell twice") \cup
               When(generates /\ shells # {}, "generate and paths") \cup
               When(~generates /\ "name" \in c.keys, "name without generate") \cup
               When(~generates /\ shells = {}, "nothing") \cup
               When(generates /\ bins = 0 /\ "name" \notin c.keys, "generate without bin")
      [] OTHER -> {"completions"}
Completes(c) == c.kind = "dir" \/ c.kind = "table"
Generates(c) == c.kind = "table" /\ "generate" \in c.keys

OutputErrors(o) ==
    UNION {BinErrors(o.bin[i]) : i \in DOMAIN o.bin} \cup UNION {AppErrors(o.app[i]) : i \in DOMAIN o.app}
    \cup CompletionErrors(o.completions, Len(o.bin))

-----------------------------------------------------------------------------
(* [version] and an artifact's own version *)
Forges == {"github-releases", "gitea-releases", "gitlab-releases"}
Scrapes == {"redirect", "page", "sparkle"}
Registries == {"npm", "pypi", "go", "crates"}
Froms == Forges \cup Scrapes \cup Registries \cup {"git-tags", "git-branch"}
ArtifactSources == Forges \cup Scrapes \cup {"git-tags"}

\* The value of an absent [version].
NoVersion == [value |-> "none", from |-> "none", repo |-> "none", strip |-> FALSE, tag |-> FALSE, latest |-> FALSE,
              branch |-> FALSE, regex |-> "none", join |-> "none", json |-> "none"]

\* Whether the repo of v has the form that its source reads.  A git URL has none.
RepoFits(v) == IF v.from \in {"git-tags", "git-branch"} THEN v.repo # "none"
               ELSE v.repo = "good" \/ (v.repo = "host" /\ v.from \in Forges)

\* scrapeErrors, with jsonPathErrors.
ScrapeErrors(v) ==
    When(v.repo # "good", "repo is no URL") \cup When(v.strip, "strip_prefix") \cup When(v.json = "bad", "json path") \cup
    When(v.from # "sparkle" /\ v.regex = "none" /\ v.json = "none", "regex is required") \cup
    When(v.from # "sparkle" /\ v.regex \in {"broken", "no group"}, "regex") \cup When(v.join = "bad", "join")

\* readErrors: regex, json and join fit the source.
ReadErrors(v) ==
    When(v.regex # "none" /\ v.from \notin {"redirect", "page"}, "regex needs redirect or page") \cup
    When(v.join # "none" /\ v.regex = "none" /\ v.json = "none" /\ v.from # "sparkle", "join needs parts") \cup
    When(v.json # "none" /\ v.from # "page", "json needs page")

\* The switch of validate on [version].  It reports the first of these.
VersionErrors(v) ==
    When(v.from = "none" /\ v.value = "none", "no version") \cup
    When(v.from # "none" /\ v.value # "none", "two versions") \cup When(v.value = "bad", "value") \cup
    When(v.from \in Froms \ Scrapes /\ ~RepoFits(v), "repo") \cup
    When(v.from \in Registries \cup {"git-branch"} /\ v.strip, "strip_prefix") \cup
    When(v.from = "git-branch" /\ ~v.branch, "no branch") \cup
    (IF v.from \in Scrapes THEN ScrapeErrors(v) ELSE {}) \cup When(v.from = "other", "from")

\* The switches on branch, tag and latest.
StreamErrors(v) ==
    When(v.branch /\ v.from # "git-branch", "branch") \cup
    When(v.tag /\ (v.from \notin Forges \/ v.strip), "tag") \cup
    When(v.latest /\ (v.from \notin Forges \/ v.tag), "latest")

\* perArtifactErrors, with releaseErrors.
PerArtifact(m) == \E i \in DOMAIN m.artifacts : m.artifacts[i].version # Absent
OwnVersionErrors(v) ==
    IF v = Absent THEN {"version is required"}
    ELSE When(v.from \notin ArtifactSources, "from") \cup
         When(v.value # "none" \/ v.tag \/ v.branch, "keys") \cup
         When(v.latest /\ v.from \notin Forges, "latest") \cup
         (IF v.from \in Scrapes THEN ScrapeErrors(v)
          ELSE When(~RepoFits(v), "repo") \cup When(v.regex # "none" \/ v.join # "none", "regex")) \cup ReadErrors(v)
PerArtifactErrors(m) ==
    When(m.version # NoVersion, "set [version] or one in each artifact") \cup When(m.build # Absent, "[build] needs [version]")
    \cup UNION {OwnVersionErrors(m.artifacts[i].version) : i \in DOMAIN m.artifacts}

-----------------------------------------------------------------------------
(* Artifacts *)
Keyed(m) == m.package.key = "cosign"
Sigstore(a) == a.bundle \/ a.sumsBundle \/ a.signature \/ a.sumsSignature

Exposes(a) == a.bin # <<>> \/ a.app # <<>> \/ a.files \/ Completes(a.completions)

\* The signatures that an artifact names, and who signs them.
SignedErrors(m, a) ==
    When(Sigstore(a) /\ m.package.workflow = "none" /\ ~Keyed(m), "no signer") \cup
    When((a.sumsBundle \/ a.sumsSignature) /\ a.sums = Absent, "signs no sha256_url") \cup
    When(a.provenance /\ ~(m.version.from = "github-releases" /\ m.version.repo = "good"), "provenance") \cup
    (IF Keyed(m) THEN When(a.certificate \/ a.sumsCertificate, "certificate")
     ELSE When(a.signature # a.certificate \/ a.sumsSignature # a.sumsCertificate, "no certificate"))

\* The loop of validate over the artifacts.
ArtifactErrors(m, a) ==
    OutputErrors(a) \cup SignedErrors(m, a) \cup
    When(a.url = Absent, "no url") \cup When(a.sha = "bad", "sha256") \cup When(a.integrity = "bad", "integrity") \cup
    When(a.sha # "none" /\ a.sums # Absent, "sha256 and sha256_url") \cup
    When(Exposes(a) = a.data, "outputs or data") \cup When(a.strip < 0, "strip") \cup
    When(a.match.host # "", "host") \cup
    When(\E f \in DOMAIN Known : a.match[f] \notin Known[f] \cup {""}, "match")

-----------------------------------------------------------------------------
(* [build] *)

VendorKinds == {"cargo", "go", "npm", "pip"}
VendorOf(s) == IF "vendor" \in s.kinds THEN s.vendor ELSE "none"

\* What package and scripts of a step need.
VendorErrors(s) ==
    When(s.package = "bad", "package") \cup
    When(s.package # "none" /\ VendorOf(s) \notin VendorKinds, "package needs vendor") \cup
    When(s.scripts # "none" /\ (s.package = "none" \/ VendorOf(s) \in {"cargo", "go", "pip"}), "scripts") \cup
    When(s.scripts = "bad", "script name")

StepErrors(s) ==
    When(Cardinality(s.kinds) # 1, "kinds") \cup When(~ParsesWhen(s.when, FALSE), "when") \cup
    (IF "install" \in s.kinds THEN OutputErrors(s) ELSE {}) \cup VendorErrors(s)

\* parseDeps: no platform may match two entries of one ref.
DepErrorsSame(deps) ==
    When(\E i, j \in DOMAIN deps : i < j /\ deps[i].ref = deps[j].ref /\ deps[i].when = deps[j].when, "twice")
DepErrors(deps) ==
    When(\E i \in DOMAIN deps : deps[i].ref = "" \/ deps[i].other \/ ~ParsesWhen(deps[i].when, FALSE), "dep") \cup
    When(\E i, j \in DOMAIN deps : i < j /\ deps[i].ref = deps[j].ref /\
             \E p \in Platform : WhenMatches(ParseWhen(deps[i].when), p) /\ WhenMatches(ParseWhen(deps[j].when), p), "twice")

BuildErrors(b) ==
    UNION {StepErrors(b.steps[i]) : i \in DOMAIN b.steps} \cup DepErrors(b.deps) \cup When(~ParsesWhen(b.when, FALSE), "when")

\* Schedule.Parse, and the switch on a service.
ScheduleErrors(s) ==
    When(s.schedule \in {"every and at", "empty", "every and weekdays", "no time", "a day twice"}, "schedule")
ServiceErrors(s) ==
    When(~s.named, "name") \cup When(~s.command, "command") \cup When(s.restart = "other", "restart") \cup
    When(s.schedule # "none" /\ (s.restart \in {"on-failure", "always"} \/ s.interactive), "schedule and restart") \cup
    ScheduleErrors(s) \cup When(~ParsesWhen(s.when, FALSE), "when")

\* validate: everything Parse refuses.
Validate(m) ==
    When(m.package.key = "bad", "signing_key") \cup When(m.package.workflow = "bad", "signer_workflow") \cup
    When(m.package.attestations /\ m.package.workflow = "none", "attestations") \cup
    When(~m.package.named, "name") \cup When(m.package.env = "reserved", "env") \cup When(m.package.oldApp, "[[app]]") \cup
    When(m.package.host = "bad", "[host]") \cup
    (IF m.build = Absent THEN {} ELSE BuildErrors(m.build)) \cup DepErrors(m.deps) \cup
    UNION {ServiceErrors(m.services[i]) : i \in DOMAIN m.services} \cup
    (IF PerArtifact(m) THEN PerArtifactErrors(m) ELSE VersionErrors(m.version)) \cup
    ReadErrors(m.version) \cup StreamErrors(m.version) \cup
    UNION {ArtifactErrors(m, m.artifacts[i]) : i \in DOMAIN m.artifacts}

-----------------------------------------------------------------------------
(* Lint *)

\* A signing key that signs this artifact: a cosign key signs only what the artifact names.
ByKey(m, a) == m.package.key # "none" /\ (Sigstore(a) \/ ~Keyed(m))

Texts(a) == {a.url, a.sums} \cup (IF Sigstore(a) \/ a.provenance THEN {a.signs} ELSE {})
Runs(o) == {o.bin[i].run : i \in {j \in DOMAIN o.bin : o.bin[j].kind = "table"}}

CompletionLint(c) ==
    When(c.kind = "table" /\ c.keys \ (ShellKeys \cup {"generate", "name"}) # {}, "unknown shell") \cup
    (IF Generates(c) THEN UnknownVars(c.generate, {"shell"}) ELSE {})

ArtifactLint(m, a) ==
    UNION {UnknownVars(t, ArtifactVars) : t \in Texts(a)} \cup UNION {UnknownVars(t, WrapVars) : t \in Runs(a)} \cup
    CompletionLint(a.completions) \cup
    When(a.plain /\ a.sha = "none" /\ ~ByKey(m, a), "http")

\* The warning that users trust the first download.
VersionFor(m, a) == IF a.version # Absent THEN a.version ELSE m.version
Warned(m, a) ==
    /\ ~(\/ a.sha # "none" \/ a.sums # Absent \/ a.integrity # "none" \/ a.bundle \/ a.signature \/ a.provenance
         \/ ByKey(m, a) \/ m.package.attestations \/ VersionFor(m, a).from = "npm")
    /\ VersionFor(m, a).from # "github-releases" \/ a.place # "release"

SourceWarned(m) ==
    /\ m.build.source # "none" /\ m.build.sourceSha = "none" /\ m.build.sourceSums = Absent
    /\ ~(m.version.from = "github-releases" /\ m.build.source = "release")
    /\ ~(m.version.from = "crates" /\ m.build.source = "registry")

\* lintStep, for the platforms that the step and the build match.
Reach(b, s) == Of(ParseWhen(s.when)) \cap Of(ParseWhen(b.when))
StepLint(b, s) ==
    LET on == \E p \in Reach(b, s) : p.os = "windows"
        off == \E p \in Reach(b, s) : p.os # "windows"
    IN (IF "run" \notin s.kinds THEN {} ELSE
            When(on /\ s.shell \in {"none", "sh", "bash"}, "shell on Windows") \cup When(off /\ s.shell = "cmd", "cmd")
            \cup UnknownVars(s.run, BuildVars)) \cup
       When("vendor" \in s.kinds /\ s.vendor \notin VendorKinds, "vendor") \cup
       When("fetch" \in s.kinds /\ s.fetch \notin {"sha", "url"}, "fetch") \cup
       When("patch" \in s.kinds /\ ~s.file, "patch") \cup
       (IF "install" \in s.kinds THEN UNION {UnknownVars(t, BuildWrapVars) : t \in Runs(s)} \cup CompletionLint(s.completions)
        ELSE {})

BuildLint(m) ==
    When(m.build.plain /\ m.build.source # "none" /\ m.build.sourceSha = "none", "http source") \cup
    When(m.build.sourceSha # "none" /\ m.build.sourceSums # Absent, "sha256 and sha256_url") \cup
    UnknownVars(m.build.sourceSums, ArtifactVars) \cup
    UNION {StepLint(m.build, m.build.steps[i]) : i \in DOMAIN m.build.steps}

Lint(m) ==
    Validate(m) \cup UNION {ArtifactLint(m, m.artifacts[i]) : i \in DOMAIN m.artifacts} \cup
    (IF m.build = Absent THEN {} ELSE BuildLint(m))

-----------------------------------------------------------------------------
(* What an install does with an accepted manifest *)

\* Resolver.list and what it calls: which sources it can read v from.
Resolves(v) ==
    \/ v.from = "none" /\ v.value = "good"
    \/ v.tag /\ v.from \in Forges /\ RepoFits(v)
    \/ /\ ~v.tag
       /\ \/ v.from \in Forges \cup Registries \cup {"git-tags"} /\ RepoFits(v)
          \/ v.from = "git-branch" /\ v.repo # "none" /\ v.branch
          \/ v.from = "sparkle" /\ v.repo = "good"
          \/ v.from \in {"redirect", "page"} /\ v.repo = "good" /\ v.regex # "broken" /\
                (v.regex = "group" \/ (v.from = "page" /\ v.json = "good"))
       /\ v.latest => v.from \in Forges

\* Select: the first artifact that matches p, or 0.
Matching(m, p) == {i \in DOMAIN m.artifacts : Selects(m.artifacts[i].match, p)}
Select(m, p) == IF Matching(m, p) = {} THEN 0 ELSE Min(Matching(m, p))
\* The texts that Select expands, with the version found for p.
Selected(m, p, found) ==
    LET a == m.artifacts[Select(m, p)]
        fails == {Expand(t, ArtifactVars, found) : t \in Texts(a)}
    IN IF "unknown" \in fails THEN "unknown" ELSE IF "version" \in fails THEN "version" ELSE "done"

\* artifactVerified: the check that oku.lock records for a first install.  The forge of a release reports the
\* digest of its files when it is GitHub, and npm publishes one for the registry's own download.
Published(m, a) ==
    \/ VersionFor(m, a).from = "github-releases" /\ a.place = "release"
    \/ VersionFor(m, a).from = "npm" /\ a.place = "registry"
Verified(m, a) ==
    CASE Keyed(m) /\ Sigstore(a) -> "cosign"
      [] m.package.attestations \/ Sigstore(a) \/ a.provenance -> "sigstore"
      [] m.package.key # "none" /\ ~Keyed(m) -> "minisign"
      [] a.sha # "none" \/ a.integrity # "none" -> "manifest"
      [] a.sums # Absent -> "checksum-file"
      [] Published(m, a) -> "published"
      [] OTHER -> "first-use"

\* verifySigned, of the file that a bundle or a signature covers: by the cosign key, or by the workflow,
\* with a certificate when it is a signature.
SignedBy(m, bare, certificate) ==
    IF Keyed(m) THEN "cosign" ELSE IF bare /\ ~certificate THEN "none" ELSE "sigstore"

\* signedSHA256 and vouched: the checks that Realize makes of the download.
Made(m, a) ==
    (IF a.sha = "none" /\ a.sums # Absent
     THEN {"checksum-file"} \cup (IF a.sumsBundle THEN {SignedBy(m, FALSE, FALSE)} ELSE {})
          \cup (IF a.sumsSignature THEN {SignedBy(m, TRUE, a.sumsCertificate)} ELSE {})
     ELSE {}) \cup
    When(a.sha # "none" \/ a.integrity # "none", "manifest") \cup When(Published(m, a), "published") \cup
    When(m.package.key # "none" /\ ~Keyed(m), "minisign") \cup
    (IF a.bundle THEN {SignedBy(m, FALSE, FALSE)} ELSE {}) \cup
    (IF a.signature THEN {SignedBy(m, TRUE, a.certificate)} ELSE {}) \cup
    When(a.provenance \/ m.package.attestations, "sigstore")

\* sourceRepo: the repo of the releases, or that of the workflow, which must then be there.
HasSourceRepo(m) ==
    (m.version.from = "github-releases" /\ m.version.repo = "good") \/ m.package.workflow # "none"
\* Whether a check asks sourceRepo.
AsksRepo(m, a) == m.package.attestations \/ a.provenance \/ (Sigstore(a) /\ ~Keyed(m))

\* runStep, runCommand and runVendor on p, once the step's when matches it.
Shells(p) == IF p.os = "windows" THEN {"pwsh", "cmd"} ELSE {"sh", "bash", "pwsh"}
StepRuns(s, p, found) ==
    CASE "run" \in s.kinds ->
            /\ IF s.shell = "none" THEN p.os # "windows" ELSE s.shell \in Shells(p)
            /\ Expand(s.run, BuildVars \cup {"dep"}, found) # "unknown"
      [] "install" \in s.kinds ->
            /\ \A t \in Runs(s) : Expand(t, BuildWrapVars \cup {"dep"}, found) # "unknown"
            /\ Generates(s.completions) => Expand(s.completions.generate, {"shell"}, found) # "unknown"
      [] "vendor" \in s.kinds -> s.vendor \in VendorKinds
      [] "fetch" \in s.kinds -> s.fetch \in {"sha", "url"}
      [] "patch" \in s.kinds -> s.file
      [] "copy" \in s.kinds \/ "extract" \in s.kinds -> TRUE
      [] OTHER -> FALSE

-----------------------------------------------------------------------------
(* The author *)
ManifestInit == manifest \in Bases /\ edited = 0

Edit(next) == edited < MaxEdits /\ next # manifest /\ manifest' = next /\ edited' = edited + 1

EditPackage == \E f \in DOMAIN PackageOf : \E x \in PackageOf[f] : Edit([manifest EXCEPT !.package[f] = x])

EditVersion == \E f \in DOMAIN VersionOf : \E x \in VersionOf[f] : Edit([manifest EXCEPT !.version[f] = x])

EditArtifact == \E i \in DOMAIN manifest.artifacts, f \in DOMAIN ArtifactOf : \E x \in ArtifactOf[f] :
                    Edit([manifest EXCEPT !.artifacts[i][f] = x])

EditBuild ==
    /\ manifest.build # Absent
    /\ \/ \E f \in DOMAIN BuildOf : \E x \in BuildOf[f] : Edit([manifest EXCEPT !.build[f] = x])
       \/ \E i \in DOMAIN manifest.build.steps, f \in DOMAIN StepOf : \E x \in StepOf[f] :
              Edit([manifest EXCEPT !.build.steps[i][f] = x])

EditRuntime ==
    \/ \E deps \in DepsOf : Edit([manifest EXCEPT !.deps = deps])
    \/ \E i \in DOMAIN manifest.services, f \in DOMAIN ServiceOf : \E x \in ServiceOf[f] :
          Edit([manifest EXCEPT !.services[i][f] = x])

ManifestNext == EditPackage \/ EditVersion \/ EditArtifact \/ EditBuild \/ EditRuntime

-----------------------------------------------------------------------------
Own(m) == {m.artifacts[Select(m, p)] : p \in {q \in Platform : Select(m, q) # 0}}

\* Whether an install can use m: the resolver reads its version, the check that oku.lock records for a
\* download is one the store made, a signature has a signer whose repo is known (sourceRepo indexes into
\* the workflow), and a platform takes one version of a dep.
Usable(m) ==
    /\ IF PerArtifact(m) THEN \A i \in DOMAIN m.artifacts : Resolves(m.artifacts[i].version) ELSE Resolves(m.version)
    /\ \A a \in Own(m) :
          /\ Verified(m, a) \in Made(m, a) \cup {"first-use"} /\ "none" \notin Made(m, a)
          /\ AsksRepo(m, a) => HasSourceRepo(m)
    /\ \A deps \in {m.deps} \cup (IF m.build = Absent THEN {} ELSE {m.build.deps}) :
          \A p \in Platform, r \in {deps[i].ref : i \in DOMAIN deps} :
              Cardinality({i \in DOMAIN deps : deps[i].ref = r /\ WhenMatches(ParseWhen(deps[i].when), p)}) <= 1

(* What Parse accepts, an install can use: no key that one of its readers  *)
(* (the resolver, the store, the lock) needs is missing or unreadable.     *)
AcceptedInstalls == manifest # Absent /\ Validate(manifest) = {} => Usable(manifest)

(* What lint passes, an install does not stumble over: on each platform    *)
(* the texts that lint reads expand, up to what the version lacks, and     *)
(* every step has a shell, a digest and a tool where it runs, unless it    *)
(* names a shell that oku does not know, which lint does not read.  A      *)
(* download is trusted on first use only where lint warned of it, or where *)
(* an npm package is not the registry's own download.                      *)
LintedInstalls ==
    manifest # Absent /\ Lint(manifest) = {} =>
        /\ \A p \in Platform, found \in Found :
              /\ Select(manifest, p) # 0 => Selected(manifest, p, found) # "unknown"
              /\ manifest.build # Absent => \A i \in DOMAIN manifest.build.steps :
                    p \in Reach(manifest.build, manifest.build.steps[i]) /\ manifest.build.steps[i].shell # "other"
                        => StepRuns(manifest.build.steps[i], p, found)
        /\ \A a \in Own(manifest) :
              /\ \A t \in Runs(a), found \in Found : Expand(t, WrapVars \cup {"dep"}, found) # "unknown"
              /\ Verified(manifest, a) = "first-use" => Warned(manifest, a) \/ (VersionFor(manifest, a).from = "npm" /\ a.place # "registry")

\* What Parse or lint passes, an install can use: AcceptedInstalls and LintedInstalls.
ManifestsInstall == AcceptedInstalls /\ LintedInstalls

=============================================================================
