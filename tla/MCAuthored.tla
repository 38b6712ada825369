----------------------------- MODULE MCAuthored -----------------------------
(***************************************************************************)
(* Manifests that an author starts from, and the values that each of their *)
(* keys may be edited to, for MCPackages.                                  *)
(***************************************************************************)
EXTENDS Manifests

AnyWhere == Selector("", "", "", "")
NilWhen == [kind |-> "nil", tables |-> <<>>]
WhenOf(tables) == [kind |-> "tables", tables |-> tables]
OnLinux == WhenOf(<<[os |-> "linux"]>>)
OnWindows == WhenOf(<<[os |-> "windows"], [arch |-> "arm64"]>>)
OnBeOS == WhenOf(<<[os |-> "beos"]>>)

BinPath == [kind |-> "path", other |-> FALSE, breaks |-> FALSE, named |-> TRUE, run |-> Absent, path |-> TRUE]
BinRun(vars) == [BinPath EXCEPT !.kind = "table", !.run = vars, !.path = FALSE]
NoComp == [kind |-> "nil", keys |-> {}, generate |-> Absent]
Comp(keys, vars) == [kind |-> "table", keys |-> keys, generate |-> vars]

ReleaseArtifact ==
    [match |-> AnyWhere, url |-> {"version"}, sums |-> Absent, signs |-> {"tag"}, plain |-> FALSE, place |-> "release", sha |-> "none",
     integrity |-> "none", bundle |-> FALSE, sumsBundle |-> FALSE, signature |-> FALSE, certificate |-> FALSE,
     sumsSignature |-> FALSE, sumsCertificate |-> FALSE, provenance |-> FALSE, version |-> Absent,
     bin |-> <<BinPath>>, app |-> <<>>, files |-> FALSE, completions |-> NoComp, data |-> FALSE, strip |-> 0]
RunStep == [kinds |-> {"run"}, when |-> OnLinux, shell |-> "none", run |-> {"prefix"}, vendor |-> "npm", package |-> "none",
            scripts |-> "none", fetch |-> "sha", file |-> TRUE, bin |-> <<BinRun({"pkg"})>>, app |-> <<>>, completions |-> NoComp]
OneStep == [when |-> NilWhen, steps |-> <<RunStep>>, deps |-> <<>>, source |-> "release", sourceSha |-> "none",
            sourceSums |-> Absent, plain |-> FALSE]
NamedPackage == [key |-> "none", workflow |-> "none", attestations |-> FALSE, named |-> TRUE, env |-> "none", oldApp |-> FALSE,
                 host |-> "none"]
GitHub == [NoVersion EXCEPT !.from = "github-releases", !.repo = "good"]
WebPage == [NoVersion EXCEPT !.from = "page", !.repo = "good", !.regex = "group"]
DepOn(ref, when) == [ref |-> ref, other |-> FALSE, when |-> when]
OneService == [named |-> TRUE, command |-> TRUE, restart |-> "none", schedule |-> "none", interactive |-> FALSE, when |-> NilWhen]

\* A release of GitHub's, versions per artifact, a build, signatures by a workflow (with a service) and by a
\* key, and a version that a page names.
Released == [package |-> NamedPackage, version |-> GitHub, artifacts |-> <<ReleaseArtifact>>, build |-> Absent, deps |-> <<>>,
             services |-> <<>>]
MCBases ==
    {Released,
     [Released EXCEPT !.version = NoVersion,
                      !.artifacts = <<[ReleaseArtifact EXCEPT !.version = WebPage, !.match = Selector("darwin", "", "", "")],
                                      [ReleaseArtifact EXCEPT !.version = GitHub]>>],
     [Released EXCEPT !.build = OneStep, !.artifacts = <<>>],
     [Released EXCEPT !.package.workflow = "good", !.services = <<OneService>>,
                      !.artifacts = <<[ReleaseArtifact EXCEPT !.signature = TRUE, !.certificate = TRUE]>>],
     [Released EXCEPT !.package.key = "cosign", !.artifacts = <<[ReleaseArtifact EXCEPT !.sumsBundle = TRUE, !.sums = {"tag"}]>>],
     [Released EXCEPT !.version = WebPage]}

MCPackageOf == [key |-> {"none", "minisign", "cosign", "bad"}, workflow |-> {"none", "good", "bad"}, attestations |-> BOOLEAN,
                named |-> {FALSE}, env |-> {"reserved"}, oldApp |-> {TRUE}, host |-> {"good", "bad"}]
MCVersionOf == [value |-> {"none", "good", "bad"}, from |-> Froms \cup {"none", "other"}, repo |-> {"none", "good", "host", "bad"},
                strip |-> BOOLEAN, tag |-> BOOLEAN, latest |-> BOOLEAN, branch |-> BOOLEAN,
                regex |-> {"none", "group", "no group", "broken"}, join |-> {"none", "good", "bad"}, json |-> {"none", "good", "bad"}]
MCArtifactOf ==
    [match |-> {AnyWhere, Selector("linux", "", "", ""), Selector("linux", "", "", "h"), Selector("beos", "", "", "")},
     url |-> {Absent, {"version", "os"}, {"version_minor"}, {"version_part2"}, {"typo"}}, sums |-> {Absent, {"tag"}, {"typo"}},
     signs |-> {{"typo"}}, plain |-> BOOLEAN, place |-> {"release", "registry", "other"}, sha |-> {"none", "good", "bad"},
     integrity |-> {"none", "good", "bad"}, bundle |-> BOOLEAN, sumsBundle |-> BOOLEAN, signature |-> BOOLEAN, certificate |-> BOOLEAN,
     sumsSignature |-> BOOLEAN, sumsCertificate |-> BOOLEAN, provenance |-> BOOLEAN,
     version |-> {Absent, GitHub, WebPage, [GitHub EXCEPT !.tag = TRUE], [WebPage EXCEPT !.latest = TRUE]},
     bin |-> {<<>>, <<BinPath, BinRun({"pkg", "dep"})>>, <<BinRun({"src"})>>, <<[BinRun({}) EXCEPT !.path = TRUE]>>,
              <<[BinRun({}) EXCEPT !.named = FALSE]>>},
     app |-> {<<>>, <<[kind |-> "path", path |-> TRUE, bundle |-> TRUE, titled |-> TRUE]>>}, files |-> BOOLEAN,
     completions |-> {NoComp, Comp({"fish", "pwsh", "powershell"}, Absent), Comp({"generate"}, {"shell"}), Comp({"generate"}, {"version"}),
                      Comp({"fish", "typo"}, Absent), [NoComp EXCEPT !.kind = "dir"]},
     data |-> BOOLEAN, strip |-> {-1, 1}]
MCStepOf ==
    [kinds |-> {{}, {"run"}, {"install"}, {"vendor"}, {"fetch"}, {"patch"}, {"copy"}, {"extract"}, {"run", "copy"}},
     when |-> {NilWhen, OnLinux, OnWindows, OnBeOS}, shell |-> {"none", "sh", "pwsh", "cmd", "other"},
     run |-> {{"prefix", "dep", "version_minor"}, {"pkg"}}, vendor |-> VendorKinds \cup {"other"}, package |-> {"none", "good", "bad"},
     scripts |-> {"none", "good", "bad"}, fetch |-> {"none", "sha", "url", "both"}, file |-> BOOLEAN,
     bin |-> {<<BinRun({"pkg"})>>, <<BinRun({"typo"})>>, <<>>}, completions |-> {Comp({"generate"}, {"shell"}), Comp({"generate"}, {"tag"})}]
MCDepsOf == {<<>>, <<DepOn("a", OnLinux), DepOn("a", OnWindows)>>, <<DepOn("a", NilWhen), DepOn("a", OnLinux)>>,
             <<DepOn("a", OnLinux), DepOn("a", WhenOf(<<[os |-> "darwin"]>>)), DepOn("b", NilWhen)>>}
MCBuildOf == [when |-> {NilWhen, OnWindows, OnLinux}, deps |-> MCDepsOf, source |-> {"none", "release", "registry", "other"},
              sourceSha |-> {"none", "good"}, sourceSums |-> {Absent, {"tag"}, {"typo"}}, plain |-> BOOLEAN]
MCServiceOf == [named |-> {FALSE}, command |-> {FALSE}, restart |-> {"always", "never", "other"},
                schedule |-> {"every", "at", "empty", "a day twice"}, interactive |-> BOOLEAN, when |-> {OnWindows, WhenOf(<<>>)}]
MCFound == {[numbers |-> 1, parts |-> 1], [numbers |-> 3, parts |-> 2]}

=============================================================================
