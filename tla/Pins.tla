-------------------------------- MODULE Pins --------------------------------
(***************************************************************************)
(* What oku.lock pins of a package, and how sync and update check what     *)
(* they download against it, on machines that share one list and one lock. *)
(*                                                                         *)
(*   src/internal/cli/install.go      install, pickRelease, installHere,   *)
(*                                    download, buildHere, lockOthers      *)
(*   src/internal/cli/verified.go     the checks and their order           *)
(*   src/internal/cli/reconcile.go    plan, --locked                       *)
(*   src/internal/store/              Realize, Pin, Build, PinBuild        *)
(*                                                                         *)
(* Each machine is of a platform of its own.  Upstream releases versions,  *)
(* uploads the file of a version again, and changes the manifest.  A file  *)
(* is its version and the number of the upload: its digest.  Its URL       *)
(* follows from the version, the platform and the strategy.                *)
(***************************************************************************)
EXTENDS Naturals, Sequences

CONSTANTS
    Hosts,      \* the machines, and their platforms
    Keys,       \* signing keys
    None,       \* no key, no file, no entry, no version, no lock
    MaxVersion, \* bound: the newest version that upstream releases
    MaxUpload,  \* bound: uploads of the file of one version
    Settings    \* the lists and the upstreams to look at

Versions == 1..MaxVersion

Files == Versions \X (1..MaxUpload)

Strategies == {"artifact", "build"}

(* What oku.lock says a file was checked against, and how much that is *)
Checks == {"minisign", "manifest", "checksum-file", "published", "first-use"}

Rank == [c \in Checks |-> CASE c = "minisign" -> 3
                            [] c = "manifest" -> 2
                            [] c \in {"checksum-file", "published"} -> 1
                            [] c = "first-use" -> 0]

(* A manifest.  states says what states the digest of the file of a        *)
(* platform: the manifest itself (sha), a checksum file beside the file,   *)
(* or neither.                                                             *)
Manifests ==
    [key : Keys \cup {None}, arts : SUBSET Hosts, builds : SUBSET Hosts,
     states : [Hosts -> {"digest", "file", "none"}], sha : Files \cup {None}]

Entries == [strategy : Strategies, file : Files, verified : Checks]

Locks == [manifest : Manifests, version : Versions, key : Keys \cup {None},
          platforms : [Hosts -> Entries \cup {None}]]

(* A store path: its name has all but the signer, and a build's has no     *)
(* file either.  signer is the key that its download was checked with.     *)
Stored == [manifest : Manifests, version : Versions, strategy : Strategies,
           file : Files, signer : Keys \cup {None}]

(* The flags of a command: --accept-weaker-check, --accept-key,            *)
(* --min-release-age 0 or --accept-unknown-age, --accept-unverified,       *)
(* --rebuild and --locked                                                  *)
Requests == [update : BOOLEAN, weaker : BOOLEAN, key : BOOLEAN, aged : BOOLEAN,
             trust : BOOLEAN, rebuild : BOOLEAN, frozen : BOOLEAN]

(* The manifests of the model support every host.  A digest that one       *)
(* states is there (validate), and a build has one source for every        *)
(* platform, with what states its digest.                                  *)
Whole(m) ==
    /\ m.arts \cup m.builds = Hosts
    /\ m.sha = None => \A p \in Hosts : m.states[p] # "digest"
    /\ \A p, q \in m.builds : m.states[p] = m.states[q]

ASSUME PinsAssumption ==
    /\ MaxVersion \in Nat \ {0} /\ MaxUpload \in Nat \ {0}
    /\ None \notin Keys /\ None \notin Checks /\ None \notin Versions
    /\ None \notin Files /\ None \notin Entries /\ None \notin Locks
    /\ \A s \in Settings :
        /\ s.platforms \in Seq(Hosts)
        /\ s.when \subseteq Hosts
        /\ {s.commits, s.fromSource, s.publishes, s.shared, s.refuses, s.dated} \subseteq BOOLEAN
        /\ s.manifests \subseteq {m \in Manifests : Whole(m)}
        /\ s.keys \subseteq Keys
        /\ s.constraints \subseteq Versions
        /\ s.changes \in Nat
        /\ s.requests \subseteq Requests

VARIABLES
    setting,    \* [lock] platforms, when and from_source, and what upstream is like
    up,         \* upstream: the manifest, the newest version and the files
    listKey,    \* signing_key of the entry in oku.toml
    listVersion,\* the version of the entry in oku.toml
    lock,       \* the entry of the package in oku.lock
    store       \* the store paths of the package on each machine

vars == <<setting, up, listKey, listVersion, lock, store>>

(* Every variable holds a value of its kind. *)
PinsTypeOK ==
    /\ setting \in Settings
    /\ up.manifest \in setting.manifests
    /\ up.newest \in Versions
    /\ up.young \in BOOLEAN
    /\ up.changes \in 0..setting.changes
    /\ up.upload \in [Versions -> 1..MaxUpload]
    /\ up.signer \in [Versions -> Keys \cup {None}]
    /\ listKey \in Keys \cup {None}
    /\ listVersion \in Versions \cup {None}
    /\ lock \in Locks \cup {None}
    /\ \A h \in Hosts : store[h] \subseteq Stored

-----------------------------------------------------------------------------
(* Checks.                                                                 *)

(* The file of version v that upstream serves now *)
Current(v) == <<v, up.upload[v]>>

Entry(l, p) == IF l = None THEN None ELSE l.platforms[p]

(* Weaker: a platform without an entry has no check to compare with *)
Weaker(now, was) == was # None /\ Rank[now] < Rank[was]

(* Two entries pin the same file: platforms share the source of a build, *)
(* and may share a download.                                             *)
SameFile(e, f) ==
    \/ e = f
    \/ /\ e.strategy = f.strategy
       /\ e.file = f.file
       /\ e.strategy = "build" \/ setting.shared

(* lockedCheck: the weakest check of the platforms that pin the same file *)
LockedCheck(l, p) ==
    LET at == Entry(l, p)
        same == {e \in {Entry(l, q) : q \in Hosts} \ {None} : SameFile(e, at)}
    IN  IF at = None THEN None
        ELSE (CHOOSE e \in same : \A f \in same : ~Weaker(f.verified, e.verified)).verified

(* checkVerified: without --accept-weaker-check, never weaker than before *)
CheckVerified(r, l, p, now) == r.weaker \/ ~Weaker(now, LockedCheck(l, p))

(* The digest that the manifest or the release states, without a request *)
Sha(m, rel, p) ==
    CASE m.states[p] = "digest" -> m.sha
      [] m.states[p] = "none" /\ rel.digests -> Current(rel.version)
      [] OTHER -> None

(* The digest that is stated somewhere, also in a checksum file *)
Stated(m, rel, p) == IF m.states[p] = "file" THEN Current(rel.version) ELSE Sha(m, rel, p)

(* verifiedBy: the strongest of what states a digest, or None *)
VerifiedBy(m, rel, p, key) ==
    CASE key # None -> "minisign"
      [] key = None /\ m.states[p] = "digest" -> "manifest"
      [] key = None /\ m.states[p] = "file" -> "checksum-file"
      [] key = None /\ m.states[p] = "none" -> IF rel.digests THEN "published" ELSE None

(* pinVerified: a digest that oku.lock pinned keeps its check *)
PinVerified(stated, pinned, at) ==
    CASE pinned -> at.verified
      [] ~pinned /\ stated # None -> stated
      [] OTHER -> "first-use"

(* trust: [lock] unverified, unless the user accepts *)
Trusts(r) == r.trust \/ ~setting.refuses

-----------------------------------------------------------------------------
(* The manifest and the release.                                           *)

Allowed(v) == listVersion \in {None, v}

(* An attempt of a request on a lock: update takes what is newest, sync    *)
(* what the lock pins, and so does the second attempt of an update whose   *)
(* download was not trusted.                                               *)
Keeps(mode, l) == mode # "update" /\ l # None

(* manifestData: at the commit that the lock pins, where there is one *)
Fetched(mode, l) == IF setting.commits /\ Keeps(mode, l) THEN l.manifest ELSE up.manifest

(* wantManifest *)
ManifestHolds(mode, l, m) ==
    Keeps(mode, l) /\ (mode = "locked" \/ Allowed(l.version)) => m = l.manifest

(* pinSigner: the key of the list applies to a manifest without one *)
KeyOf(m) == IF listKey # None THEN listKey ELSE m.key

(* KeyHolds that takes a manifest which has dropped its key *)
KeyHoldsIfAny(r, l, m) == TRUE

(* A key of the manifest is that of the list, or of the lock *)
KeyHolds(r, l, m) ==
    /\ listKey # None => m.key \in {None, listKey}
    /\ l # None /\ l.key # None /\ listKey = None => m.key = l.key \/ r.key

NoRelease == [version |-> None, digests |-> FALSE]

(* PickWaiting: the newest release that the list allows and that is old    *)
(* enough.  Only a release that oku asked for brings its digests.          *)
Newest(r) ==
    LET aged == r.aged \/ ~setting.dated \/ ~up.young
        v == IF listVersion # None THEN listVersion ELSE IF aged THEN up.newest ELSE up.newest - 1
    IN  IF v \in 1..up.newest THEN [version |-> v, digests |-> setting.publishes] ELSE NoRelease

LockedRelease(l) == [version |-> l.version, digests |-> FALSE]

(* pickRelease and gateAge: the locked version, the newest, or again the   *)
(* locked one when the newest is too young or of an unknown age.           *)
Picked(r, mode, l) ==
    LET new == Newest(r)
        can == l # None /\ Allowed(l.version)
        held == setting.dated /\ up.young /\ ~r.aged /\ listVersion = None
        unknown == /\ ~setting.dated /\ ~r.aged /\ listVersion = None
                   /\ l = None \/ new.version # l.version
    IN  CASE Keeps(mode, l) /\ can -> LockedRelease(l)
          [] ~(Keeps(mode, l) /\ can) /\ held /\ can
                /\ (new = NoRelease \/ l.version > new.version) -> LockedRelease(l)
          [] ~(Keeps(mode, l) /\ can) /\ unknown -> IF can THEN LockedRelease(l) ELSE NoRelease
          [] OTHER -> new

-----------------------------------------------------------------------------
(* The store.  Each of these returns the file, whether it was trusted on   *)
(* first use, the store after it, and the error.                           *)

Failed(s) == [file |-> None, first |-> FALSE, store |-> s, err |-> "failed"]

Got(f, first, s) == [file |-> f, first |-> first, store |-> s, err |-> "none"]

Has(s, m, v, f) ==
    \E e \in s : e.manifest = m /\ e.version = v /\ e.strategy = "artifact" /\ e.file = f

Path(m, v, strategy, f, key) ==
    [manifest |-> m, version |-> v, strategy |-> strategy, file |-> f, signer |-> key]

(* RealizeStated lets what upstream states win over the pin *)
RealizeStated(h, m, rel, key, pinned, s) ==
    LET v == rel.version
        got == Current(v)
        want == IF Stated(m, rel, h) # None THEN Stated(m, rel, h) ELSE pinned
    IN  CASE want # None /\ Has(s, m, v, want) -> Got(want, FALSE, s)
          [] want \notin {None, got} /\ ~Has(s, m, v, want) -> Failed(s)
          [] OTHER -> Got(got, want = None /\ key = None, s \cup {Path(m, v, "artifact", got, key)})

(* Realize: a download that oku.lock pins and the store has is used        *)
(* without a look at upstream; else what is stated and what is pinned must *)
(* agree, and the download must be that, signed by the key.                *)
Realize(h, m, rel, key, pinned, s) ==
    LET v == rel.version
        got == Current(v)
        stated == Stated(m, rel, h)
        want == IF stated # None THEN stated ELSE pinned
    IN  CASE pinned # None /\ Sha(m, rel, h) \in {None, pinned} /\ Has(s, m, v, pinned) ->
                Got(pinned, FALSE, s)
          [] OTHER ->
                IF stated # None /\ pinned \notin {None, stated} THEN Failed(s)
                ELSE IF want # None /\ Has(s, m, v, want) THEN Got(want, FALSE, s)
                ELSE IF want \notin {None, got} THEN Failed(s)
                ELSE IF Has(s, m, v, got) THEN Got(got, want = None, s)
                ELSE IF key # None /\ up.signer[v] # key THEN Failed(s)
                ELSE Got(got, want = None /\ key = None, s \cup {Path(m, v, "artifact", got, key)})

(* Pin: the digest of a download for another platform *)
Pin(p, m, rel, key) ==
    IF Stated(m, rel, p) # None THEN Got(Stated(m, rel, p), FALSE, {})
    ELSE IF key # None /\ up.signer[rel.version] # key THEN Failed({})
    ELSE Got(Current(rel.version), key = None, {})

Builds(s, m, v) == {e \in s : e.manifest = m /\ e.version = v /\ e.strategy = "build"}

(* Build: one that the store has reports the source it was made from.      *)
(* fetchSource makes what is stated and what is pinned agree.              *)
Build(h, m, rel, pinned, rebuild, s) ==
    LET v == rel.version
        got == Current(v)
        stated == Stated(m, rel, h)
        want == IF stated # None THEN stated ELSE pinned
        old == Builds(s, m, v)
    IN  IF old # {} /\ ~rebuild THEN Got((CHOOSE e \in old : TRUE).file, FALSE, s)
        ELSE IF stated # None /\ pinned \notin {None, stated} THEN Failed(s)
        ELSE IF want \notin {None, got} THEN Failed(s)
        ELSE Got(got, want = None, (s \ old) \cup {Path(m, v, "build", got, None)})

(* PinBuild: the digest of a source that is not built here *)
PinBuild(p, m, rel, pinned) ==
    IF Stated(m, rel, p) # None THEN Got(Stated(m, rel, p), FALSE, {})
    ELSE IF pinned # None THEN Got(pinned, FALSE, {})
    ELSE Got(Current(rel.version), TRUE, {})

-----------------------------------------------------------------------------
(* An install on machine h.  The result is the entry of h, the store and   *)
(* the error.                                                              *)

Ended(e, s, err) == [entry |-> e, store |-> s, err |-> err]

NewEntry(strategy, f, check) == [strategy |-> strategy, file |-> f, verified |-> check]

(* The strategy and the file that the lock pins of the same version *)
PinnedBy(l, p, v, strategy) ==
    LET at == Entry(l, p)
    IN  IF at # None /\ l.version = v /\ at.strategy = strategy THEN at.file ELSE None

(* hostStrategy: a platform that the lock builds is built again *)
IsBuild(h, m, rel, l) ==
    \/ setting.fromSource
    \/ PinnedBy(l, h, rel.version, "build") # None
    \/ h \notin m.arts

(* The checks before a download or a build, and its entry *)
Taken(r, l, h, strategy, pinned, check, s, got) ==
    IF ~CheckVerified(r, l, h, check) THEN Ended(None, s, "failed")
    ELSE IF check = "first-use" /\ pinned = None /\ ~Trusts(r) THEN Ended(None, s, "untrusted")
    ELSE IF got.err # "none" THEN Ended(None, got.store, got.err)
    ELSE Ended(NewEntry(strategy, got.file, check), got.store, "none")

(* download: update drops a pin whose digest something states anew *)
Download(h, r, mode, l, m, rel, s) ==
    LET key == KeyOf(m)
        pinned == IF mode = "update" /\ Stated(m, rel, h) # None THEN None
                  ELSE PinnedBy(l, h, rel.version, "artifact")
    IN  Taken(r, l, h, "artifact", pinned,
              PinVerified(VerifiedBy(m, rel, h, key), pinned # None, Entry(l, h)),
              s, Realize(h, m, rel, key, pinned, s))

(* A build: a signing key covers downloads only, and update drops the pin  *)
BuildHere(h, r, mode, l, m, rel, s) ==
    LET pinned == IF mode = "update" THEN None ELSE PinnedBy(l, h, rel.version, "build")
    IN  Taken(r, l, h, "build", pinned,
              PinVerified(VerifiedBy(m, rel, h, None), pinned # None, Entry(l, h)),
              s, Build(h, m, rel, pinned, r.rebuild, s))

(* installHere, up to the other platforms *)
InstallHere(h, r, mode, l, m, rel, s) ==
    LET build == IsBuild(h, m, rel, l)
    IN  IF build /\ h \notin m.builds THEN Ended(None, s, "failed")
        ELSE IF r.rebuild /\ ~build THEN Ended(None, s, "failed")
        ELSE IF build THEN BuildHere(h, r, mode, l, m, rel, s)
        ELSE Download(h, r, mode, l, m, rel, s)

(* The platforms that the list pins the package for, besides the host *)
Others(h) == {p \in setting.when \ {h} : \E i \in DOMAIN setting.platforms : setting.platforms[i] = p}

(* Kept that starts anew at every command *)
KeptNone(l, m, v) == [p \in Hosts |-> None]

(* keptPlatforms: the entries that still describe the manifest *)
Kept(l, m, v) ==
    IF l # None /\ l.manifest = m /\ l.version = v
    THEN l.platforms ELSE [p \in Hosts |-> None]

(* PinFor of a platform that has an entry keeps the entry as it is *)
PinForKept(p, r, mode, l, m, rel, kept, host) ==
    LET at == kept[p]
        key == KeyOf(m)
        got == Pin(p, m, rel, key)
        check == PinVerified(VerifiedBy(m, rel, p, key), FALSE, at)
    IN  IF at # None THEN Ended(at, {}, "none")
        ELSE IF got.err # "none" \/ ~CheckVerified(r, l, p, check) THEN Ended(None, {}, "failed")
        ELSE IF got.first /\ ~Trusts(r) THEN Ended(None, {}, "untrusted")
        ELSE Ended(NewEntry("artifact", got.file, check), {}, "none")

(* What pinFor got for a platform: its errors in order, and its entry *)
PinnedFor(p, r, l, relabel, strategy, check, builtHere, got) ==
    IF got.err # "none" \/ (~relabel /\ ~CheckVerified(r, l, p, check)) THEN Ended(None, {}, "failed")
    ELSE IF got.first /\ ~builtHere /\ ~Trusts(r) THEN Ended(None, {}, "untrusted")
    ELSE Ended(NewEntry(strategy, got.file, check), {}, "none")

(* lockOthers and pinFor for one platform: an entry that is complete       *)
(* stays, and update labels it again where something states its digest.    *)
PinFor(p, r, mode, l, m, rel, kept, host) ==
    LET relabel == kept[p] # None /\ mode = "update"
        download == kept[p] # None /\ kept[p].strategy = "artifact"
        at == IF download /\ setting.fromSource THEN None ELSE kept[p]
        isBuild == /\ setting.fromSource \/ p \notin m.arts \/ (at # None /\ at.strategy = "build")
                   /\ p \in m.builds
        stated == VerifiedBy(m, rel, p, IF isBuild THEN None ELSE KeyOf(m))
    IN  IF download /\ ~setting.fromSource /\ (relabel => stated = None)
        THEN Ended(at, {}, "none")
        ELSE IF setting.fromSource /\ p \notin m.builds THEN Ended(None, {}, "failed")
        ELSE IF isBuild
        THEN PinnedFor(p, r, l, relabel, "build", PinVerified(stated, at # None /\ ~relabel, at),
                       host # None /\ host.strategy = "build",
                       PinBuild(p, m, rel, IF at # None THEN at.file ELSE None))
        ELSE PinnedFor(p, r, l, relabel, "artifact", PinVerified(stated, FALSE, at), FALSE,
                       Pin(p, m, rel, KeyOf(m)))

(* The first error of the other platforms, in the order of the list *)
FirstError(h, pins) ==
    LET err(i) == IF setting.platforms[i] \in Others(h) THEN pins[setting.platforms[i]].err ELSE "none"
    IN  IF \A i \in DOMAIN setting.platforms : err(i) = "none" THEN "none"
        ELSE IF \E i \in DOMAIN setting.platforms :
                    err(i) = "untrusted" /\ \A j \in 1..(i - 1) : err(j) = "none"
        THEN "untrusted"
        ELSE "failed"

Outcome(l, s, err) == [lock |-> l, store |-> s, err |-> err]

(* lockEntry: the pins of all platforms, or the first error *)
LockEntry(h, l, m, rel, s, kept, pins) ==
    IF FirstError(h, pins) # "none" THEN Outcome(l, s, FirstError(h, pins))
    ELSE Outcome([manifest |-> m, version |-> rel.version, key |-> KeyOf(m),
                  platforms |-> [p \in Hosts |-> IF p \in Others(h) THEN pins[p].entry ELSE kept[p]]],
                 s, "none")

(* lockOthers, over the entries that are kept *)
LockOthers(h, r, mode, l, m, rel, host, s) ==
    LET kept == [Kept(l, m, rel.version) EXCEPT ![h] = IF host # None THEN host ELSE @]
    IN  LockEntry(h, l, m, rel, s, kept,
                  [p \in Hosts |-> PinFor(p, r, mode, l, m, rel, kept, host)])

(* The other platforms, after what was done on the host *)
ThenOthers(h, r, mode, l, m, rel, here) ==
    IF here.err # "none" THEN Outcome(l, here.store, here.err)
    ELSE LockOthers(h, r, mode, l, m, rel, here.entry, here.store)

(* installOnce: a package whose when leaves out the host is only pinned *)
AttemptAt(h, r, mode, l, s, m, rel) ==
    IF ~ManifestHolds(mode, l, m) \/ ~KeyHolds(r, l, m) \/ rel = NoRelease
    THEN Outcome(l, s, "failed")
    ELSE ThenOthers(h, r, mode, l, m, rel,
                    IF h \in setting.when THEN InstallHere(h, r, mode, l, m, rel, s)
                    ELSE Ended(None, s, "none"))

Attempt(h, r, mode, l, s) ==
    AttemptAt(h, r, mode, l, s, Fetched(mode, l), Picked(r, mode, l))

(* install: an update whose first download is not trusted keeps the        *)
(* locked version.                                                         *)
OrLocked(r, l, got, again) ==
    IF got.err = "untrusted" /\ l # None /\ r.update /\ again.err = "none" THEN again ELSE got

Retried(h, r, l, got) == OrLocked(r, l, got, Attempt(h, r, "locked", l, got.store))

Install(h, r, l, s) ==
    Retried(h, r, l, Attempt(h, r, IF r.update THEN "update" ELSE "sync", l, s))

(* needsLock, for a package that is not installed here *)
NeedsLock(h, r, l) ==
    /\ Others(h) # {}
    /\ \/ r.update \/ l = None
       \/ \E p \in Others(h) :
            LET at == Entry(l, p)
            IN  at = None \/ (setting.fromSource /\ at.strategy # "build")

(* sync --locked stops when the lock does not pin this machine, and when   *)
(* the lock would change.                                                  *)
PinsHost(h, l) == h \in setting.when => Entry(l, h) # None /\ Allowed(l.version)

(* A command that failed writes no lock *)
Settled(r, l, got) ==
    IF got.err # "none" \/ (r.frozen /\ got.lock # l) THEN Outcome(l, got.store, "failed") ELSE got

(* What a command does to the lock and to the store of the machine *)
Command(h, r, l, s) ==
    IF h \notin setting.when /\ ~NeedsLock(h, r, l) THEN Outcome(l, s, "none")
    ELSE IF r.frozen /\ ~PinsHost(h, l) THEN Outcome(l, s, "failed")
    ELSE Settled(r, l, Install(h, r, l, s))

Run(h, r) ==
    \E got \in {Command(h, r, lock, store[h])} :
        /\ lock' = got.lock
        /\ store' = [store EXCEPT ![h] = got.store]
        /\ UNCHANGED <<setting, up, listKey, listVersion>>

-----------------------------------------------------------------------------
(* What happens around oku.                                                *)

Release(k) ==
    /\ up.newest < MaxVersion
    /\ up' = [up EXCEPT !.newest = @ + 1, !.young = TRUE, !.signer[up.newest + 1] = k]
    /\ UNCHANGED <<setting, listKey, listVersion, lock, store>>

(* The minimum release age passes *)
Age ==
    /\ up.young
    /\ up' = [up EXCEPT !.young = FALSE]
    /\ UNCHANGED <<setting, listKey, listVersion, lock, store>>

Upload(v, k) ==
    /\ v <= up.newest /\ up.upload[v] < MaxUpload
    /\ up.changes < setting.changes
    /\ up' = [up EXCEPT !.upload[v] = @ + 1, !.signer[v] = k, !.changes = @ + 1]
    /\ UNCHANGED <<setting, listKey, listVersion, lock, store>>

ChangeManifest(m) ==
    /\ m # up.manifest /\ up.changes < setting.changes
    /\ up' = [up EXCEPT !.manifest = m, !.changes = @ + 1]
    /\ UNCHANGED <<setting, listKey, listVersion, lock, store>>

EditList(k, v) ==
    /\ <<k, v>> # <<listKey, listVersion>>
    /\ listKey' = k
    /\ listVersion' = v
    /\ UNCHANGED <<setting, up, lock, store>>

(* A machine that is new, or whose packages gc or verify --repair deleted *)
Clear(h) ==
    /\ store[h] # {}
    /\ store' = [store EXCEPT ![h] = {}]
    /\ UNCHANGED <<setting, up, listKey, listVersion, lock>>

SignersOf(s) == {None} \cup s.keys \cup ({m.key : m \in s.manifests})

Init ==
    /\ setting \in Settings
    /\ \E m \in setting.manifests, k \in SignersOf(setting) :
        up = [manifest |-> m, newest |-> 1, young |-> FALSE, changes |-> 0,
              upload |-> [v \in Versions |-> 1], signer |-> [v \in Versions |-> k]]
    /\ listKey = None
    /\ listVersion = None
    /\ lock = None
    /\ store = [h \in Hosts |-> {}]

Next ==
    \/ \E h \in Hosts, r \in setting.requests : Run(h, r)
    \/ \E k \in SignersOf(setting) : Release(k) \/ \E v \in Versions : Upload(v, k)
    \/ Age
    \/ \E m \in setting.manifests : ChangeManifest(m)
    \/ \E k \in setting.keys \cup {None}, v \in setting.constraints \cup {None} : EditList(k, v)
    \/ \E h \in Hosts : Clear(h)

Spec == Init /\ [][Next]_vars

-----------------------------------------------------------------------------
(* Properties.                                                             *)

Sync(r) == ~r.update

(* The lock pins machine h at a version that the list allows *)
Pinned(h) == lock # None /\ lock.platforms[h] # None /\ Allowed(lock.version)

(* The step leaves the version, the manifest and the pins of downloads,    *)
(* and there may be more.                                                  *)
PinsStay ==
    /\ lock'.version = lock.version
    /\ lock'.manifest = lock.manifest
    /\ \A p \in Hosts :
        lock.platforms[p] # None /\ lock.platforms[p].strategy = "artifact"
            => lock'.platforms[p] = lock.platforms[p]

(* A sync on a machine that oku.lock pins writes the same pin for every    *)
(* platform that downloads, whatever upstream did since (behaviours.md     *)
(* B496, lock.md: a machine installs from the lock without changing it).   *)
SyncKeepsLock ==
    [][\A h \in Hosts, r \in setting.requests :
        Sync(r) /\ Pinned(h) /\ ~PinsStay => ~Run(h, r)]_<<lock, store>>

(* What the step adds to the store of h *)
Added(h) == store'[h] \ store[h]

(* What sync adds to the store of a machine that oku.lock pins is the file *)
(* that it pins, also after upstream uploaded the file of the version      *)
(* again.                                                                  *)
LockedDownloads ==
    [][\A h \in Hosts, r \in setting.requests :
        /\ Sync(r) /\ Pinned(h)
        /\ \E e \in Added(h) : e.version # lock.version \/ e.file # lock.platforms[h].file
        => ~Run(h, r)]_<<lock, store>>

(* The step is an update that labels the entry of another platform again:  *)
(* the manifest and the version are those of oku.lock (B594).              *)
Relabels(h, r, p) ==
    /\ r.update /\ p # h
    /\ lock.platforms[p] # None
    /\ lock'.manifest = lock.manifest /\ lock'.version = lock.version

(* No command pins a platform with a weaker check than oku.lock records    *)
(* for it without --accept-weaker-check (B497), except where it labels an  *)
(* entry again.                                                            *)
ChecksHold ==
    [][\A h \in Hosts, r \in setting.requests :
        /\ ~r.weaker /\ lock # None
        /\ \E p \in Hosts : /\ lock'.platforms[p] # None /\ ~Relabels(h, r, p)
                            /\ Weaker(lock'.platforms[p].verified, LockedCheck(lock, p))
        => ~Run(h, r)]_<<lock, store>>

(* An entry that update labels again gets no weaker label (lockOthers: "A  *)
(* relabelled entry has the same manifest, version and file, so its new    *)
(* label weakens nothing").                                                *)
RelabelKeeps ==
    [][\A h \in Hosts, r \in setting.requests :
        /\ ~r.weaker /\ lock # None
        /\ \E p \in Hosts : /\ Relabels(h, r, p) /\ lock'.platforms[p] # None
                            /\ Weaker(lock'.platforms[p].verified, lock.platforms[p].verified)
        => ~Run(h, r)]_<<lock, store>>

(* With [lock] unverified = "refuse", no command pins a file that nothing  *)
(* states the digest of, for any platform, unless oku.lock has it (B499)   *)
(* or this machine has the build that was made from it.                    *)
FirstUseRefused ==
    [][\A h \in Hosts, r \in setting.requests :
        /\ ~Trusts(r) /\ lock' # None
        /\ \E p \in Hosts : LET now == lock'.platforms[p]
                                 was == Entry(lock, p)
                            IN  /\ now # None /\ now.verified = "first-use"
                                /\ was = None \/ was.file # now.file
                                /\ p = h /\ now.strategy = "build" =>
                                       \A e \in Builds(store[h], lock'.manifest, lock'.version) : e.file # now.file
        => ~Run(h, r)]_<<lock, store>>

(* Once oku.lock has a signing key, a machine downloads only what that key *)
(* signs, until the user accepts another key or the list names one.        *)
KeyGuards ==
    [][\A h \in Hosts, r \in setting.requests :
        /\ ~r.key /\ lock # None /\ lock.key # None /\ listKey \in {None, lock.key}
        /\ \E e \in Added(h) : e.strategy = "artifact" /\ up.signer[e.version] # lock.key
        => ~Run(h, r)]_<<lock, store>>

(* The command that had the outcome one has it again *)
Repeats(h, r, one) ==
    one.err = "none" =>
        \E two \in {Command(h, r, one.lock, one.store)} : two.err = "none" /\ two.lock = one.lock

(* A second update writes the same lock (B594).                            *)
UpdateRepeats ==
    \A h \in Hosts, r \in setting.requests :
        r.update => Repeats(h, r, Command(h, r, lock, store[h]))

Agree(one, two) == one.err = "none" /\ two.err = "none" => one.lock = two.lock

(* The lock that update writes for downloads does not depend on the        *)
(* machine that ran it (B594), while the manifest is the one in oku.lock   *)
(* and no check rests on a signature alone.                                *)
UpdateAgrees ==
    \A h, g \in setting.when, r \in setting.requests :
        (/\ r.update /\ setting.platforms # <<>> /\ up.manifest.builds = {}
         /\ lock # None /\ lock.manifest = up.manifest
         /\ KeyOf(up.manifest) # None => \A p \in Hosts : up.manifest.states[p] # "none")
        => Agree(Command(h, r, lock, store[h]), Command(g, r, lock, store[g]))

(* The store of h has no build from another source than the file f *)
BuiltFrom(h, m, f) == \A e \in Builds(store[h], m, f[1]) : e.file = f

(* sync --locked installs on every machine that oku.lock pins, from        *)
(* whichever machine its pin is, while upstream serves what is pinned.     *)
LockedSyncWorks ==
    \A h \in setting.when, r \in setting.requests :
        (/\ r.frozen /\ Sync(r) /\ ~r.rebuild
         /\ Pinned(h)
         /\ \A p \in Others(h) : lock.platforms[p] # None
         /\ \A p \in Hosts : lock.platforms[p] # None => lock.platforms[p].file = Current(lock.version)
         /\ BuiltFrom(h, lock.manifest, Current(lock.version))
         /\ setting.commits \/ up.manifest = lock.manifest
         /\ KeyOf(lock.manifest) = lock.key /\ lock.key \in {None, up.signer[lock.version]})
        => Command(h, r, lock, store[h]).err = "none"

(* Update is the same on every run and every machine: UpdateRepeats and    *)
(* UpdateAgrees, with every variable of its kind.                          *)
UpdateHolds == PinsTypeOK /\ UpdateRepeats /\ UpdateAgrees

(* Sync takes what the lock pins and leaves it: SyncKeepsLock and          *)
(* LockedDownloads.                                                        *)
SyncHolds == SyncKeepsLock /\ LockedDownloads

(* No command pins less than the lock and the user ask for: ChecksHold,    *)
(* FirstUseRefused and KeyGuards.                                          *)
GuardsHold == ChecksHold /\ FirstUseRefused /\ KeyGuards

=============================================================================
