----------------------------- MODULE PinsProofs ------------------------------
(***************************************************************************)
(* What oku.lock keeps, for any machines, platforms, manifests and         *)
(* requests: SyncHolds, GuardsHold and LockedSyncWorks.                    *)
(*                                                                         *)
(* PinsInv is about what lasts from one command to the next.  An entry of  *)
(* the lock fits the manifest that it is locked with: its strategy is one  *)
(* that the manifest has for the platform, and where the manifest states   *)
(* a digest the entry has that file.  Every platform of the setting that a *)
(* machine covers has an entry, and the key of the lock is that of its     *)
(* manifest.  A build in a store that a digest was stated for was made     *)
(* from that file: without that a sync could take a build of another file  *)
(* and write it over the pin.                                              *)
(*                                                                         *)
(* The rest follows a command inwards.  CommandGives says what the outcome *)
(* of any command is in terms of the lock and the store before it (Fits);  *)
(* it rests on InstallGives and AttemptGives, these on what the install on *)
(* this machine (InstallHereGives) and the pins of the other platforms     *)
(* (PinForGives) are, and these on the single checks.  LockedSyncWorks     *)
(* goes the same way once more, for a machine that upstream still serves.  *)
(***************************************************************************)
EXTENDS Pins, TLAPS

-----------------------------------------------------------------------------
(* The invariant.                                                          *)

\* Upstream, and the releases that Picked returns.
Ups == [manifest : Manifests, newest : Versions, young : BOOLEAN, changes : Nat,
        upload : [Versions -> 1..MaxUpload], signer : [Versions -> Keys \cup {None}]]
Rels == [version : Versions, digests : BOOLEAN]

World ==
    /\ setting \in Settings /\ up \in Ups
    /\ up.manifest \in setting.manifests /\ up.changes \in 0..setting.changes
    /\ listKey \in Keys \cup {None} /\ listVersion \in Versions \cup {None}

\* What an entry says of the manifest it is locked with.
EntryFits(m, p, e) ==
    /\ e \in Entries
    /\ e.strategy = "artifact" => ~setting.fromSource /\ p \in m.arts
    /\ e.strategy = "build" => p \in m.builds /\ (m.states[p] # "none" => e.verified # "first-use")
    /\ m.states[p] = "digest" => e.file = m.sha

Covered(p) == p \in setting.when /\ \E i \in DOMAIN setting.platforms : setting.platforms[i] = p

LockFits(l) ==
    l # None =>
        /\ l \in Locks /\ l.manifest \in setting.manifests
        /\ l.manifest.key \in {None, l.key}
        /\ \A p \in Hosts : /\ l.platforms[p] # None => EntryFits(l.manifest, p, l.platforms[p])
                            /\ Covered(p) => l.platforms[p] # None

StoreFits(h, s) ==
    /\ s \subseteq Stored
    /\ \A e \in s : e.strategy = "build" /\ e.manifest.states[h] = "digest" => e.file = e.manifest.sha

PinsInv ==
    /\ World
    /\ LockFits(lock) /\ lock \in Locks \cup {None}
    /\ DOMAIN store = Hosts /\ \A h \in Hosts : StoreFits(h, store[h])

-----------------------------------------------------------------------------
(* The parts of the state, and what a release or a manifest states.        *)

LEMMA SettingIs ==
    ASSUME setting \in Settings
    PROVE  /\ setting.platforms \in Seq(Hosts) /\ setting.when \subseteq Hosts
           /\ setting.commits \in BOOLEAN /\ setting.fromSource \in BOOLEAN /\ setting.publishes \in BOOLEAN
           /\ setting.shared \in BOOLEAN /\ setting.refuses \in BOOLEAN /\ setting.dated \in BOOLEAN
           /\ setting.keys \subseteq Keys /\ setting.constraints \subseteq Versions
           /\ setting.changes \in Nat /\ setting.requests \subseteq Requests
BY PinsAssumption

LEMMA ManifestIs ==
    ASSUME setting \in Settings, NEW m \in setting.manifests
    PROVE  /\ m \in Manifests /\ m.key \in Keys \cup {None}
           /\ m.arts \subseteq Hosts /\ m.builds \subseteq Hosts /\ m.arts \cup m.builds = Hosts
           /\ m.states \in [Hosts -> {"digest", "file", "none"}]
           /\ m.sha \in Files \cup {None}
           /\ \A p \in Hosts : m.states[p] = "digest" => m.sha \in Files
           /\ \A p, q \in m.builds : m.states[p] = m.states[q]
<1>1. m \in Manifests /\ Whole(m)
  BY PinsAssumption
<1>2. m.key \in Keys \cup {None} /\ m.arts \subseteq Hosts /\ m.builds \subseteq Hosts
      /\ m.states \in [Hosts -> {"digest", "file", "none"}] /\ m.sha \in Files \cup {None}
  BY <1>1 DEF Manifests
<1> QED BY <1>1, <1>2 DEF Whole

LEMMA NoneIs == /\ None \notin Keys /\ None \notin Checks /\ None \notin Versions
                /\ None \notin Files /\ None \notin Entries /\ None \notin Locks
BY PinsAssumption

LEMMA CurrentIs ==
    ASSUME World, NEW v \in Versions
    PROVE  Current(v) \in Files /\ Current(v) # None /\ up.signer[v] \in Keys \cup {None}
<1>1. up.upload \in [Versions -> 1..MaxUpload] /\ up.signer \in [Versions -> Keys \cup {None}]
  BY DEF World, Ups
<1>2. up.upload[v] \in 1..MaxUpload
  BY <1>1
<1>3. Current(v) \in Files
  BY <1>2 DEF Current, Files
<1> QED BY <1>1, <1>3, NoneIs

\* Labels that something states.
Labels == {"minisign", "manifest", "checksum-file", "published"}

LEMMA StatedIs ==
    ASSUME World, NEW m \in setting.manifests, NEW rel \in Rels, NEW p \in Hosts
    PROVE  /\ Sha(m, rel, p) \in Files \cup {None} /\ Stated(m, rel, p) \in Files \cup {None}
           /\ m.states[p] = "digest" => Sha(m, rel, p) = m.sha /\ Stated(m, rel, p) = m.sha /\ m.sha \in Files
           /\ Sha(m, rel, p) # None => Stated(m, rel, p) = Sha(m, rel, p)
           /\ Stated(m, rel, p) = None <=> m.states[p] = "none" /\ ~rel.digests
<1>1. rel.version \in Versions /\ rel.digests \in BOOLEAN
  BY DEF Rels
<1>2. Current(rel.version) \in Files /\ Current(rel.version) # None
  BY <1>1, CurrentIs
<1>3. m.states[p] \in {"digest", "file", "none"} /\ (m.states[p] = "digest" => m.sha \in Files)
  BY ManifestIs DEF World
<1> QED BY <1>1, <1>2, <1>3, NoneIs DEF Sha, Stated

LEMMA VerifiedByIs ==
    ASSUME World, NEW m \in setting.manifests, NEW rel \in Rels, NEW p \in Hosts, NEW key
    PROVE  /\ VerifiedBy(m, rel, p, key) \in Labels \cup {None}
           /\ key # None => VerifiedBy(m, rel, p, key) # None
           /\ key = None => (VerifiedBy(m, rel, p, key) = None <=> m.states[p] = "none" /\ ~rel.digests)
<1>1. rel.digests \in BOOLEAN
  BY DEF Rels
<1>2. m.states[p] \in {"digest", "file", "none"}
  BY ManifestIs DEF World
<1> QED BY <1>1, <1>2, NoneIs DEF VerifiedBy, Labels, Checks

LEMMA PinVerifiedIs ==
    ASSUME NEW stated \in Labels \cup {None}, NEW pinned \in BOOLEAN, NEW at, pinned => at.verified \in Checks
    PROVE  /\ PinVerified(stated, pinned, at) \in Checks
           /\ pinned => PinVerified(stated, pinned, at) = at.verified
           /\ ~pinned => (PinVerified(stated, pinned, at) = "first-use" <=> stated = None)
BY NoneIs DEF PinVerified, Labels, Checks

LEMMA RealizeGives ==
    ASSUME World, NEW h \in Hosts, NEW m \in setting.manifests, NEW rel \in Rels,
           NEW key \in Keys \cup {None}, NEW pinned \in Files \cup {None}, NEW s, s \subseteq Stored,
           NEW got, got = Realize(h, m, rel, key, pinned, s)
    PROVE  /\ got.err \in {"none", "failed"}
           /\ got.err = "none" => /\ got.file \in Files
                                  /\ pinned # None => got.file = pinned
                                  /\ m.states[h] = "digest" => got.file = m.sha
           /\ \/ got.store = s
              \/ /\ got.store = s \cup {Path(m, rel.version, "artifact", Current(rel.version), key)}
                 /\ pinned # None => Current(rel.version) = pinned
                 /\ key # None => up.signer[rel.version] = key
<1>1. rel.version \in Versions
  BY DEF Rels
<1>2. Current(rel.version) \in Files /\ Current(rel.version) # None
  BY <1>1, CurrentIs
<1> DEFINE v == rel.version
           cur == Current(v)
           sha == Sha(m, rel, h)
           stated == Stated(m, rel, h)
           want == IF stated # None THEN stated ELSE pinned
           new == s \cup {Path(m, v, "artifact", cur, key)}
<1>3. /\ sha \in Files \cup {None} /\ stated \in Files \cup {None}
      /\ m.states[h] = "digest" => sha = m.sha /\ stated = m.sha /\ m.sha \in Files
      /\ sha # None => stated = sha
  BY StatedIs
<1>4. \/ got = Failed(s)
      \/ /\ pinned # None /\ sha \in {None, pinned} /\ got = Got(pinned, FALSE, s)
      \/ /\ stated # None => pinned \in {None, stated}
         /\ want # None /\ got = Got(want, FALSE, s)
      \/ /\ stated # None => pinned \in {None, stated}
         /\ want \in {None, cur}
         /\ \/ \E b : got = Got(cur, b, s)
            \/ /\ key # None => up.signer[v] = key
               /\ \E b : got = Got(cur, b, new)
  BY DEF Realize
<1> HIDE DEF v, cur, sha, stated, new
<1>5. ASSUME got = Failed(s) PROVE got.err = "failed" /\ got.store = s
  BY <1>5 DEF Failed
<1>6. ASSUME NEW f, NEW b, NEW t, got = Got(f, b, t) PROVE got.err = "none" /\ got.file = f /\ got.store = t
  BY <1>6 DEF Got
<1>7. cur \in Files /\ cur # None
  BY <1>2 DEF cur, v
<1>8. CASE got = Failed(s)
  BY <1>5, <1>8
<1>9. CASE pinned # None /\ sha \in {None, pinned} /\ got = Got(pinned, FALSE, s)
  BY <1>6, <1>9, <1>3, NoneIs
<1>10. CASE /\ stated # None => pinned \in {None, stated}
            /\ want # None /\ got = Got(want, FALSE, s)
  BY <1>6, <1>10, <1>3, NoneIs
<1>11. CASE /\ stated # None => pinned \in {None, stated}
            /\ want \in {None, cur}
            /\ \/ \E b : got = Got(cur, b, s)
               \/ /\ key # None => up.signer[v] = key
                  /\ \E b : got = Got(cur, b, new)
  <2>1. got.err = "none" /\ got.file = cur
    BY <1>6, <1>11
  <2>2. \/ got.store = s
        \/ got.store = new /\ (key # None => up.signer[v] = key)
    BY <1>6, <1>11
  <2>3. pinned # None => cur = pinned
    BY <1>11, <1>3, <1>7
  <2>4. m.states[h] = "digest" => cur = m.sha
    BY <1>11, <1>3, <1>7, NoneIs
  <2> QED BY <2>1, <2>2, <2>3, <2>4, <1>7 DEF new, v, cur
<1> QED BY <1>4, <1>8, <1>9, <1>10, <1>11

-----------------------------------------------------------------------------
(* What one file gives: a download, a build, a pin.                        *)

LEMMA BuildGives ==
    ASSUME World, NEW h \in Hosts, NEW m \in setting.manifests, NEW rel \in Rels, NEW rebuild \in BOOLEAN,
           NEW pinned \in Files \cup {None}, NEW s, StoreFits(h, s),
           NEW got, got = Build(h, m, rel, pinned, rebuild, s)
    PROVE  /\ got.err \in {"none", "failed"}
           /\ got.err = "none" => /\ got.file \in Files
                                  /\ \/ pinned # None => got.file = pinned
                                     \/ ~rebuild /\ \E e \in Builds(s, m, rel.version) : e.file = got.file
                                  /\ m.states[h] = "digest" => got.file = m.sha
           /\ \/ got.store = s
              \/ /\ got.store = (s \ Builds(s, m, rel.version))
                                \cup {Path(m, rel.version, "build", Current(rel.version), None)}
                 /\ pinned # None => Current(rel.version) = pinned
                 /\ m.states[h] = "digest" => Current(rel.version) = m.sha
<1>1. rel.version \in Versions
  BY DEF Rels
<1>2. Current(rel.version) \in Files /\ Current(rel.version) # None
  BY <1>1, CurrentIs
<1> DEFINE v == rel.version
           cur == Current(v)
           stated == Stated(m, rel, h)
           want == IF stated # None THEN stated ELSE pinned
           old == Builds(s, m, v)
           new == (s \ old) \cup {Path(m, v, "build", cur, None)}
<1>3. /\ stated \in Files \cup {None}
      /\ m.states[h] = "digest" => stated = m.sha /\ m.sha \in Files
  BY StatedIs
<1>4. \/ got = Failed(s)
      \/ /\ old # {} /\ ~rebuild
         /\ got = Got((CHOOSE e \in old : TRUE).file, FALSE, s)
      \/ /\ stated # None => pinned \in {None, stated}
         /\ want \in {None, cur}
         /\ \E b : got = Got(cur, b, new)
  BY DEF Build
<1> HIDE DEF v, cur, stated, new, old
<1>5. ASSUME got = Failed(s) PROVE got.err = "failed" /\ got.store = s
  BY <1>5 DEF Failed
<1>6. ASSUME NEW f, NEW b, NEW t, got = Got(f, b, t) PROVE got.err = "none" /\ got.file = f /\ got.store = t
  BY <1>6 DEF Got
<1>7. cur \in Files /\ cur # None
  BY <1>2 DEF cur, v
<1>8. CASE got = Failed(s)
  BY <1>5, <1>8
<1>9. CASE /\ old # {} /\ ~rebuild
           /\ got = Got((CHOOSE e \in old : TRUE).file, FALSE, s)
  <2>1. PICK e \in old : got.file = e.file
    BY <1>6, <1>9
  <2>2. e \in s /\ e \in Stored /\ e.manifest = m /\ e.strategy = "build"
    BY DEF old, Builds, StoreFits
  <2>3. e.file \in Files
    BY <2>2 DEF Stored
  <2>4. m.states[h] = "digest" => e.file = m.sha
    BY <2>2 DEF StoreFits
  <2> QED BY <1>6, <1>9, <2>1, <2>3, <2>4 DEF old, v
<1>10. CASE /\ stated # None => pinned \in {None, stated}
            /\ want \in {None, cur}
            /\ \E b : got = Got(cur, b, new)
  <2>1. got.err = "none" /\ got.file = cur /\ got.store = new
    BY <1>6, <1>10
  <2>3. pinned # None => cur = pinned
    BY <1>10, <1>3, <1>7
  <2>4. m.states[h] = "digest" => cur = m.sha
    BY <1>10, <1>3, <1>7, NoneIs
  <2> QED BY <2>1, <2>3, <2>4, <1>7 DEF new, v, cur, old
<1> QED BY <1>4, <1>8, <1>9, <1>10

LEMMA PathIs ==
    ASSUME NEW m, NEW v, NEW strategy, NEW f, NEW key, NEW e, e = Path(m, v, strategy, f, key)
    PROVE  /\ e.manifest = m /\ e.version = v /\ e.strategy = strategy /\ e.file = f /\ e.signer = key
           /\ m \in Manifests /\ v \in Versions /\ strategy \in Strategies /\ f \in Files /\ key \in Keys \cup {None}
              => e \in Stored
BY DEF Path, Stored

LEMMA PinGives ==
    ASSUME World, NEW p \in Hosts, NEW m \in setting.manifests, NEW rel \in Rels, NEW key \in Keys \cup {None},
           NEW got, got = Pin(p, m, rel, key)
    PROVE  /\ got.err \in {"none", "failed"}
           /\ got.err = "none" => /\ got.file \in Files /\ got.first \in BOOLEAN
                                  /\ got.first <=> Stated(m, rel, p) = None /\ key = None
                                  /\ m.states[p] = "digest" => got.file = m.sha
<1>1. rel.version \in Versions
  BY DEF Rels
<1>2. Current(rel.version) \in Files
  BY <1>1, CurrentIs
<1>3. /\ Stated(m, rel, p) \in Files \cup {None}
      /\ m.states[p] = "digest" => Stated(m, rel, p) = m.sha /\ m.sha \in Files
  BY StatedIs
<1> QED BY <1>2, <1>3, NoneIs DEF Pin, Got, Failed

LEMMA PinBuildGives ==
    ASSUME World, NEW p \in Hosts, NEW m \in setting.manifests, NEW rel \in Rels, NEW pinned \in Files \cup {None},
           NEW got, got = PinBuild(p, m, rel, pinned)
    PROVE  /\ got.err = "none" /\ got.file \in Files /\ got.first \in BOOLEAN
           /\ got.first <=> Stated(m, rel, p) = None /\ pinned = None
           /\ Stated(m, rel, p) # None => got.file = Stated(m, rel, p)
           /\ Stated(m, rel, p) = None /\ pinned # None => got.file = pinned
           /\ m.states[p] = "digest" => got.file = m.sha
<1>1. rel.version \in Versions
  BY DEF Rels
<1>2. Current(rel.version) \in Files
  BY <1>1, CurrentIs
<1>3. /\ Stated(m, rel, p) \in Files \cup {None}
      /\ m.states[p] = "digest" => Stated(m, rel, p) = m.sha /\ m.sha \in Files
  BY StatedIs
<1> QED BY <1>2, <1>3, NoneIs DEF PinBuild, Got

LEMMA EndedIs ==
    ASSUME NEW e, NEW s, NEW err, NEW res, res = Ended(e, s, err)
    PROVE  res.entry = e /\ res.store = s /\ res.err = err
BY DEF Ended

LEMMA EntryIs ==
    ASSUME NEW strategy \in Strategies, NEW f \in Files, NEW check \in Checks, NEW e, e = NewEntry(strategy, f, check)
    PROVE  e \in Entries /\ e # None /\ e.strategy = strategy /\ e.file = f /\ e.verified = check
<1>1. e \in Entries /\ e.strategy = strategy /\ e.file = f /\ e.verified = check
  BY DEF NewEntry, Entries
<1> QED BY <1>1, NoneIs

LEMMA TakenGives ==
    ASSUME NEW r \in Requests, NEW l, NEW h, NEW strategy, NEW pinned, NEW check, NEW s, NEW got,
           got.err \in {"none", "failed"},
           NEW res, res = Taken(r, l, h, strategy, pinned, check, s, got)
    PROVE  /\ res.err \in {"none", "failed", "untrusted"}
           /\ res.err = "none" => /\ CheckVerified(r, l, h, check) /\ got.err = "none"
                                  /\ check = "first-use" /\ pinned = None => Trusts(r)
                                  /\ res.entry = NewEntry(strategy, got.file, check)
                                  /\ res.store = got.store
           /\ res.err = "untrusted" => check = "first-use" /\ pinned = None /\ ~Trusts(r) /\ res.store = s
           /\ \/ res.store = s
              \/ /\ res.store = got.store /\ res.err # "untrusted"
                 /\ check = "first-use" /\ pinned = None => Trusts(r)
BY DEF Taken, Ended

LEMMA KeyOfIs ==
    ASSUME World, NEW m \in setting.manifests
    PROVE  KeyOf(m) \in Keys \cup {None}
BY ManifestIs DEF World, KeyOf

LEMMA LockIs ==
    ASSUME NEW l \in Locks
    PROVE  /\ l # None /\ l.manifest \in Manifests /\ l.version \in Versions /\ l.key \in Keys \cup {None}
           /\ l.platforms \in [Hosts -> Entries \cup {None}]
BY NoneIs DEF Locks

LEMMA EntryType ==
    ASSUME NEW e \in Entries
    PROVE  e # None /\ e.strategy \in Strategies /\ e.file \in Files /\ e.verified \in Checks
BY NoneIs DEF Entries

LEMMA EntryOf ==
    ASSUME NEW l \in Locks \cup {None}, NEW p \in Hosts
    PROVE  /\ Entry(l, p) \in Entries \cup {None}
           /\ l = None => Entry(l, p) = None
           /\ l # None => Entry(l, p) = l.platforms[p]
BY LockIs DEF Entry

LEMMA PinnedByIs ==
    ASSUME NEW l \in Locks \cup {None}, NEW p \in Hosts, NEW v, NEW strategy
    PROVE  /\ PinnedBy(l, p, v, strategy) \in Files \cup {None}
           /\ PinnedBy(l, p, v, strategy) # None <=>
                Entry(l, p) # None /\ l.version = v /\ Entry(l, p).strategy = strategy
           /\ PinnedBy(l, p, v, strategy) # None =>
                PinnedBy(l, p, v, strategy) = Entry(l, p).file /\ Entry(l, p).verified \in Checks
<1>1. Entry(l, p) \in Entries \cup {None}
  BY EntryOf
<1>2. Entry(l, p) # None => Entry(l, p).file \in Files /\ Entry(l, p).verified \in Checks
  BY <1>1, EntryType
<1> QED BY <1>2, NoneIs DEF PinnedBy

\* While an attempt keeps the locked version, the manifest is that of the lock,
\* and the release comes without digests.
Sticks(mode, l, m, rel) ==
    mode # "update" /\ l # None /\ l.version = rel.version => m = l.manifest /\ ~rel.digests

Modes == {"sync", "update", "locked"}

\* The entry e of platform p is in oku.lock already, or the machine has the build of it.
Known(h, l, m, v, s, p, e) ==
    \/ Entry(l, p) # None /\ Entry(l, p).file = e.file
    \/ p = h /\ e.strategy = "build" /\ \E b \in Builds(s, m, v) : b.file = e.file

\* What an attempt adds to the store of h.
AddedFits(h, r, mode, l, m, rel, s, e) ==
    /\ e.manifest = m /\ e.version = rel.version
    /\ e.strategy = "artifact" /\ KeyOf(m) # None => up.signer[rel.version] = KeyOf(m)
    /\ e.strategy = "build" /\ ~Trusts(r) /\ mode = "update" => m.states[h] # "none" \/ rel.digests
    /\ mode # "update" /\ Entry(l, h) # None /\ l.version = rel.version => e.file = Entry(l, h).file

\* What happens on machine h itself.
HostFits(h, r, mode, l, m, rel, s, res) ==
    /\ res.err \in {"none", "failed", "untrusted"}
    /\ StoreFits(h, res.store)
    /\ \A e \in res.store \ s : AddedFits(h, r, mode, l, m, rel, s, e)
    /\ res.err = "untrusted" => ~rel.digests /\ ~Trusts(r)
    /\ res.err = "none" =>
        /\ EntryFits(m, h, res.entry)
        /\ CheckVerified(r, l, h, res.entry.verified)
        /\ ~Trusts(r) /\ res.entry.verified = "first-use" => Known(h, l, m, rel.version, s, h, res.entry)
        /\ ~Trusts(r) /\ res.entry.strategy = "build" /\ m.states[h] = "none" /\ ~rel.digests =>
             mode # "update" /\ Entry(l, h) # None /\ l.version = rel.version
        /\ mode # "update" /\ Entry(l, h) # None /\ l.version = rel.version /\ Entry(l, h).strategy = "artifact" =>
             res.entry = Entry(l, h)

LEMMA EntryAgain ==
    ASSUME NEW e \in Entries, NEW strategy, NEW f, NEW check,
           e.strategy = strategy, e.file = f, e.verified = check
    PROVE  NewEntry(strategy, f, check) = e
BY DEF NewEntry, Entries

LEMMA DownloadGives ==
    ASSUME World, NEW h \in Hosts, NEW r \in Requests, NEW mode \in Modes, NEW l \in Locks \cup {None},
           LockFits(l), NEW m \in setting.manifests, NEW rel \in Rels, NEW s, StoreFits(h, s),
           Sticks(mode, l, m, rel), ~IsBuild(h, m, rel, l)
    PROVE  HostFits(h, r, mode, l, m, rel, s, Download(h, r, mode, l, m, rel, s))
<1> DEFINE key == KeyOf(m)
           v == rel.version
           at == Entry(l, h)
           by == PinnedBy(l, h, v, "artifact")
           pinned == IF mode = "update" /\ Stated(m, rel, h) # None THEN None ELSE by
           stated == VerifiedBy(m, rel, h, key)
           check == PinVerified(stated, pinned # None, at)
           got == Realize(h, m, rel, key, pinned, s)
           res == Taken(r, l, h, "artifact", pinned, check, s, got)
<1>1. Download(h, r, mode, l, m, rel, s) = res
  BY DEF Download
<1>2. key \in Keys \cup {None}
  BY KeyOfIs
<1>3. v \in Versions
  BY DEF Rels
<1>4. Current(v) \in Files
  BY <1>3, CurrentIs
<1>5. /\ by \in Files \cup {None}
      /\ by # None <=> at # None /\ l.version = v /\ at.strategy = "artifact"
      /\ by # None => by = at.file /\ at.verified \in Checks
  BY PinnedByIs
<1>6. stated \in Labels \cup {None} /\ (key # None => stated # None)
      /\ (key = None => (stated = None <=> m.states[h] = "none" /\ ~rel.digests))
  BY <1>2, VerifiedByIs
<1>7. Stated(m, rel, h) = None <=> m.states[h] = "none" /\ ~rel.digests
  BY StatedIs
<1> HIDE DEF key, at, by, stated
<1>8. pinned \in Files \cup {None} /\ (pinned # None => pinned = by)
  BY <1>5
<1>9. (pinned # None) \in BOOLEAN
  OBVIOUS
<1>10. /\ check \in Checks
       /\ pinned # None => check = at.verified
       /\ pinned = None => (check = "first-use" <=> stated = None)
  BY <1>5, <1>6, <1>8, <1>9, PinVerifiedIs
<1>11. s \subseteq Stored
  BY DEF StoreFits
<1>12. /\ got.err \in {"none", "failed"}
       /\ got.err = "none" => /\ got.file \in Files
                              /\ pinned # None => got.file = pinned
                              /\ m.states[h] = "digest" => got.file = m.sha
       /\ \/ got.store = s
          \/ /\ got.store = s \cup {Path(m, v, "artifact", Current(v), key)}
             /\ pinned # None => Current(v) = pinned
             /\ key # None => up.signer[v] = key
  BY <1>2, <1>8, <1>11, RealizeGives
<1> HIDE DEF pinned, check, got
<1>13. /\ res.err \in {"none", "failed", "untrusted"}
       /\ res.err = "none" => /\ CheckVerified(r, l, h, check) /\ got.err = "none"
                              /\ check = "first-use" /\ pinned = None => Trusts(r)
                              /\ res.entry = NewEntry("artifact", got.file, check)
                              /\ res.store = got.store
       /\ res.err = "untrusted" => check = "first-use" /\ pinned = None /\ ~Trusts(r) /\ res.store = s
       /\ res.store = s \/ res.store = got.store
  BY <1>12, TakenGives
<1> HIDE DEF res
<1>14. mode # "update" => pinned = by
  BY DEF pinned
<1>15. m \in Manifests
  BY ManifestIs DEF World
<1>16. ~setting.fromSource /\ h \in m.arts /\ PinnedBy(l, h, v, "build") = None
  BY DEF IsBuild
<1>17. mode # "update" /\ at # None /\ l.version = v => pinned = at.file /\ at.strategy = "artifact"
  <2>1. PinnedBy(l, h, v, "build") # None <=> at # None /\ l.version = v /\ at.strategy = "build"
    BY PinnedByIs DEF at
  <2>2. at # None => at.strategy \in {"artifact", "build"}
    BY EntryOf, EntryType DEF at, Strategies
  <2> QED BY <2>1, <2>2, <1>16, <1>14, <1>5
<1>18. StoreFits(h, res.store)
  <2>1. ASSUME NEW e \in res.store
        PROVE  e \in Stored /\ (e.strategy = "build" /\ e.manifest.states[h] = "digest" => e.file = e.manifest.sha)
    <3>1. CASE e \in s
      BY <3>1 DEF StoreFits
    <3>2. CASE e = Path(m, v, "artifact", Current(v), key)
      <4>1. e.strategy = "artifact"
        BY <3>2, PathIs
      <4>2. e \in Stored
        BY <3>2, PathIs, <1>2, <1>3, <1>4, <1>15 DEF Strategies
      <4> QED BY <4>1, <4>2
    <3> QED BY <3>1, <3>2, <1>12, <1>13
  <2> QED BY <2>1 DEF StoreFits
<1>19. ASSUME NEW e \in res.store \ s
       PROVE  AddedFits(h, r, mode, l, m, rel, s, e)
  <2>1. /\ e = Path(m, v, "artifact", Current(v), key)
        /\ pinned # None => Current(v) = pinned
        /\ key # None => up.signer[v] = key
    BY <1>12, <1>13, <1>19
  <2>2. e.manifest = m /\ e.version = v /\ e.strategy = "artifact" /\ e.file = Current(v)
    BY <2>1, PathIs
  <2>3. mode # "update" /\ at # None /\ l.version = v => pinned # None
    <3>1. at # None => at.file # None
      BY EntryOf, EntryType, NoneIs DEF at
    <3> QED BY <3>1, <1>17
  <2> QED BY <2>1, <2>2, <2>3, <1>17 DEF AddedFits, key, v, at
<1>20. ASSUME res.err = "untrusted" PROVE ~rel.digests /\ ~Trusts(r)
  <2>1. key = None
    BY <1>6, <1>10, <1>13, <1>20
  <2> QED BY <2>1, <1>6, <1>10, <1>13, <1>20
<1>21. ASSUME res.err = "none"
       PROVE  /\ EntryFits(m, h, res.entry)
              /\ CheckVerified(r, l, h, res.entry.verified)
              /\ ~Trusts(r) /\ res.entry.verified = "first-use" => Known(h, l, m, rel.version, s, h, res.entry)
              /\ res.entry.strategy # "build"
              /\ mode # "update" /\ at # None /\ l.version = v /\ at.strategy = "artifact" => res.entry = at
  <2>1. /\ res.entry \in Entries /\ res.entry.strategy = "artifact" /\ res.entry.file = got.file
        /\ res.entry.verified = check
    BY <1>10, <1>12, <1>13, <1>21, EntryIs DEF Strategies
  <2>2. EntryFits(m, h, res.entry)
    BY <2>1, <1>16, <1>12, <1>13, <1>21 DEF EntryFits
  <2>3. ~Trusts(r) /\ check = "first-use" => at # None /\ at.file = got.file
    BY <1>13, <1>12, <1>21, <1>5, <1>8
  <2>4. ASSUME mode # "update", at # None, l.version = v, at.strategy = "artifact"
        PROVE  res.entry = at
    <3>1. at \in Entries
      BY <2>4, EntryOf DEF at
    <3>2. pinned = at.file /\ at.file # None
      BY <3>1, <2>4, <1>17, EntryType, NoneIs
    <3>3. at.file = got.file /\ at.verified = check
      BY <3>2, <1>12, <1>13, <1>21, <1>10
    <3> QED BY <3>1, <3>3, <2>4, <1>13, <1>21, EntryAgain
  <2> QED BY <2>1, <2>2, <2>3, <2>4, <1>13, <1>21 DEF Known, at
<1> QED BY <1>1, <1>13, <1>18, <1>19, <1>20, <1>21 DEF HostFits, at, v

-----------------------------------------------------------------------------
(* The install on this machine.                                            *)

LEMMA BuildHereGives ==
    ASSUME World, NEW h \in Hosts, NEW r \in Requests, NEW mode \in Modes, NEW l \in Locks \cup {None},
           LockFits(l), NEW m \in setting.manifests, NEW rel \in Rels, NEW s, StoreFits(h, s),
           Sticks(mode, l, m, rel), IsBuild(h, m, rel, l), h \in m.builds
    PROVE  HostFits(h, r, mode, l, m, rel, s, BuildHere(h, r, mode, l, m, rel, s))
<1> DEFINE v == rel.version
           at == Entry(l, h)
           by == PinnedBy(l, h, v, "build")
           pinned == IF mode = "update" THEN None ELSE by
           stated == VerifiedBy(m, rel, h, None)
           check == PinVerified(stated, pinned # None, at)
           got == Build(h, m, rel, pinned, r.rebuild, s)
           res == Taken(r, l, h, "build", pinned, check, s, got)
<1>1. BuildHere(h, r, mode, l, m, rel, s) = res
  BY DEF BuildHere
<1>2. r.rebuild \in BOOLEAN
  BY DEF Requests
<1>3. v \in Versions
  BY DEF Rels
<1>4. Current(v) \in Files
  BY <1>3, CurrentIs
<1>5. /\ by \in Files \cup {None}
      /\ by # None <=> at # None /\ l.version = v /\ at.strategy = "build"
      /\ by # None => by = at.file /\ at.verified \in Checks
  BY PinnedByIs
<1>6. stated \in Labels \cup {None} /\ (stated = None <=> m.states[h] = "none" /\ ~rel.digests)
  BY VerifiedByIs
<1> HIDE DEF at, by, stated
<1>8. pinned \in Files \cup {None} /\ (pinned # None => pinned = by /\ mode # "update") /\ (mode # "update" => pinned = by)
  BY <1>5
<1>9. (pinned # None) \in BOOLEAN
  OBVIOUS
<1>10. /\ check \in Checks
       /\ pinned # None => check = at.verified
       /\ pinned = None => (check = "first-use" <=> stated = None)
  BY <1>5, <1>6, <1>8, <1>9, PinVerifiedIs
<1>12. /\ got.err \in {"none", "failed"}
       /\ got.err = "none" => /\ got.file \in Files
                              /\ \/ pinned # None => got.file = pinned
                                 \/ \E e \in Builds(s, m, rel.version) : e.file = got.file
                              /\ m.states[h] = "digest" => got.file = m.sha
       /\ \/ got.store = s
          \/ /\ got.store = (s \ Builds(s, m, v)) \cup {Path(m, v, "build", Current(v), None)}
             /\ pinned # None => Current(v) = pinned
             /\ m.states[h] = "digest" => Current(v) = m.sha
  <2>1. got = Build(h, m, rel, pinned, r.rebuild, s)
    OBVIOUS
  <2> HIDE DEF got, pinned, check
  <2> QED BY <1>2, <1>8, <2>1, BuildGives
<1> HIDE DEF pinned, check, got
<1>13. /\ res.err \in {"none", "failed", "untrusted"}
       /\ res.err = "none" => /\ CheckVerified(r, l, h, check) /\ got.err = "none"
                              /\ check = "first-use" /\ pinned = None => Trusts(r)
                              /\ res.entry = NewEntry("build", got.file, check)
                              /\ res.store = got.store
       /\ res.err = "untrusted" => check = "first-use" /\ pinned = None /\ ~Trusts(r) /\ res.store = s
       /\ \/ res.store = s
          \/ /\ res.store = got.store /\ res.err # "untrusted"
             /\ check = "first-use" /\ pinned = None => Trusts(r)
  BY <1>12, TakenGives
<1> HIDE DEF res
<1>15. m \in Manifests
  BY ManifestIs DEF World
<1>16. mode # "update" /\ at # None /\ l.version = v => m = l.manifest /\ l # None /\ EntryFits(m, h, at)
  BY EntryOf DEF Sticks, LockFits, at, v
<1>17. mode # "update" /\ at # None /\ l.version = v => at.strategy = "build" /\ pinned = at.file /\ pinned # None
  <2>1. ASSUME mode # "update", at # None, l.version = v, at.strategy = "artifact" PROVE FALSE
    <3>1. ~setting.fromSource /\ h \in m.arts
      BY <2>1, <1>16 DEF EntryFits
    <3>2. by = None
      BY <2>1, <1>5
    <3> QED BY <3>1, <3>2 DEF IsBuild, by, v
  <2>2. at # None => at.strategy \in {"artifact", "build"} /\ at.file \in Files
    BY EntryOf, EntryType DEF at, Strategies
  <2> QED BY <2>1, <2>2, <1>5, <1>8, NoneIs
<1>18. StoreFits(h, res.store)
  <2>1. ASSUME NEW e \in res.store
        PROVE  e \in Stored /\ (e.strategy = "build" /\ e.manifest.states[h] = "digest" => e.file = e.manifest.sha)
    <3>1. CASE e \in s
      BY <3>1 DEF StoreFits
    <3>2. CASE /\ e = Path(m, v, "build", Current(v), None)
               /\ m.states[h] = "digest" => Current(v) = m.sha
      <4>1. e.manifest = m /\ e.file = Current(v)
        BY <3>2, PathIs
      <4>2. e \in Stored
        BY <3>2, PathIs, <1>3, <1>4, <1>15 DEF Strategies
      <4> QED BY <4>1, <4>2, <3>2
    <3> QED BY <3>1, <3>2, <1>12, <1>13
  <2> QED BY <2>1 DEF StoreFits
<1>19. ASSUME NEW e \in res.store \ s
       PROVE  AddedFits(h, r, mode, l, m, rel, s, e)
  <2>1. /\ e = Path(m, v, "build", Current(v), None)
        /\ pinned # None => Current(v) = pinned
        /\ check = "first-use" /\ pinned = None => Trusts(r)
    BY <1>12, <1>13, <1>19
  <2>2. e.manifest = m /\ e.version = v /\ e.strategy = "build" /\ e.file = Current(v)
    BY <2>1, PathIs
  <2>3. ~Trusts(r) /\ mode = "update" => m.states[h] # "none" \/ rel.digests
    BY <2>1, <1>10, <1>6, <1>8
  <2> QED BY <2>1, <2>2, <2>3, <1>17 DEF AddedFits, v, at
<1>20. ASSUME res.err = "untrusted" PROVE ~rel.digests /\ ~Trusts(r)
  BY <1>6, <1>10, <1>13, <1>20
<1>21. ASSUME res.err = "none"
       PROVE  /\ EntryFits(m, h, res.entry)
              /\ CheckVerified(r, l, h, res.entry.verified)
              /\ ~Trusts(r) /\ res.entry.verified = "first-use" => Known(h, l, m, rel.version, s, h, res.entry)
              /\ ~Trusts(r) /\ m.states[h] = "none" /\ ~rel.digests => mode # "update" /\ at # None /\ l.version = v
              /\ mode # "update" /\ at # None /\ l.version = v => at.strategy = "build"
  <2>1. /\ res.entry \in Entries /\ res.entry.strategy = "build" /\ res.entry.file = got.file
        /\ res.entry.verified = check
    BY <1>10, <1>12, <1>13, <1>21, EntryIs DEF Strategies
  <2>2. m.states[h] # "none" => check # "first-use"
    <3>1. CASE pinned = None
      BY <3>1, <1>10, <1>6
    <3>2. CASE pinned # None
      <4>1. mode # "update" /\ at # None /\ l.version = v /\ check = at.verified
        BY <3>2, <1>8, <1>5, <1>10
      <4> QED BY <4>1, <1>16, <1>17 DEF EntryFits
    <3> QED BY <3>1, <3>2
  <2>3. EntryFits(m, h, res.entry)
    BY <2>1, <2>2, <1>12, <1>13, <1>21 DEF EntryFits
  <2>4. ~Trusts(r) /\ check = "first-use" => Known(h, l, m, v, s, h, res.entry)
    <3>1. ASSUME ~Trusts(r), check = "first-use" PROVE pinned # None
      BY <3>1, <1>13, <1>21
    <3>2. ASSUME pinned # None, got.file = pinned PROVE at # None /\ at.file = got.file
      BY <3>2, <1>5, <1>8
    <3> QED BY <3>1, <3>2, <2>1, <1>12, <1>13, <1>21 DEF Known, at, v
  <2>5. ~Trusts(r) /\ m.states[h] = "none" /\ ~rel.digests => pinned # None
    BY <1>6, <1>10, <1>13, <1>21
  <2>6. CheckVerified(r, l, h, res.entry.verified)
    BY <2>1, <1>13, <1>21
  <2> QED BY <2>1, <2>3, <2>4, <2>5, <2>6, <1>17, <1>5, <1>8 DEF v
<1> QED BY <1>1, <1>13, <1>18, <1>19, <1>20, <1>21 DEF HostFits, at, v

LEMMA InstallHereGives ==
    ASSUME World, NEW h \in Hosts, NEW r \in Requests, NEW mode \in Modes, NEW l \in Locks \cup {None},
           LockFits(l), NEW m \in setting.manifests, NEW rel \in Rels, NEW s, StoreFits(h, s),
           Sticks(mode, l, m, rel)
    PROVE  HostFits(h, r, mode, l, m, rel, s, InstallHere(h, r, mode, l, m, rel, s))
<1>1. CASE \/ IsBuild(h, m, rel, l) /\ h \notin m.builds
           \/ r.rebuild /\ ~IsBuild(h, m, rel, l)
  <2> DEFINE res == Ended(None, s, "failed")
  <2>1. InstallHere(h, r, mode, l, m, rel, s) = res
    BY <1>1 DEF InstallHere
  <2>2. res.store = s /\ res.err = "failed"
    BY EndedIs
  <2> HIDE DEF res
  <2> QED BY <2>1, <2>2 DEF HostFits
<1>2. CASE IsBuild(h, m, rel, l) /\ h \in m.builds
  <2>1. InstallHere(h, r, mode, l, m, rel, s) = BuildHere(h, r, mode, l, m, rel, s)
    BY <1>2 DEF InstallHere
  <2> QED BY <2>1, <1>2, BuildHereGives
<1>3. CASE ~IsBuild(h, m, rel, l) /\ ~r.rebuild
  <2>1. InstallHere(h, r, mode, l, m, rel, s) = Download(h, r, mode, l, m, rel, s)
    BY <1>3 DEF InstallHere
  <2> QED BY <2>1, <1>3, DownloadGives
<1> QED BY <1>1, <1>2, <1>3

-----------------------------------------------------------------------------
(* The other platforms.                                                    *)

LEMMA LeastRank ==
    ASSUME NEW S \in SUBSET Entries, S # {}
    PROVE  \E e \in S : \A f \in S : ~Weaker(f.verified, e.verified)
<1>1. \A e \in S : e.verified \in Checks /\ Rank[e.verified] \in 0..3 /\ e.verified # None
  BY EntryType, NoneIs DEF Rank, Checks
<1>2. PICK e \in S : \A f \in S : Rank[f.verified] >= Rank[e.verified]
  <2>1. CASE \E e \in S : Rank[e.verified] = 0
    BY <2>1, <1>1
  <2>2. CASE (\E e \in S : Rank[e.verified] = 1) /\ ~(\E e \in S : Rank[e.verified] = 0)
    BY <2>2, <1>1
  <2>3. CASE (\E e \in S : Rank[e.verified] = 2) /\ ~(\E e \in S : Rank[e.verified] \in {0, 1})
    BY <2>3, <1>1
  <2>4. CASE ~\E e \in S : Rank[e.verified] \in {0, 1, 2}
    BY <2>4, <1>1
  <2> QED BY <2>1, <2>2, <2>3, <2>4
<1> QED BY <1>1, <1>2 DEF Weaker

LEMMA LockedCheckIs ==
    ASSUME World, NEW l \in Locks \cup {None}, NEW p \in Hosts, Entry(l, p) # None
    PROVE  ~Weaker(Entry(l, p).verified, LockedCheck(l, p))
<1> DEFINE at == Entry(l, p)
           same == {e \in {Entry(l, q) : q \in Hosts} \ {None} : SameFile(e, at)}
           least(e) == \A f \in same : ~Weaker(f.verified, e.verified)
<1>1. at \in same
  BY DEF SameFile
<1>2. same \in SUBSET Entries
  BY EntryOf
<1>3. \E e \in same : least(e)
  BY <1>1, <1>2, LeastRank
<1>4. least(CHOOSE e \in same : least(e))
  BY <1>3
<1>5. LockedCheck(l, p) = (CHOOSE e \in same : least(e)).verified
  BY DEF LockedCheck
<1> QED BY <1>1, <1>4, <1>5

\* What LockOthers starts from: an entry that is kept is that of the lock.
KeptFits(l, m, rel, p, at) ==
    /\ at \in Entries \cup {None}
    /\ at # None => /\ l # None /\ l.manifest = m /\ l.version = rel.version
                    /\ at = Entry(l, p) /\ EntryFits(m, p, at)
    /\ at = None /\ l # None /\ l.manifest = m /\ l.version = rel.version => Entry(l, p) = None

\* The entry of another platform p.
OtherFits(h, r, mode, l, m, rel, p, at, res) ==
    /\ res.err \in {"none", "failed", "untrusted"}
    /\ res.err = "untrusted" => ~rel.digests /\ ~Trusts(r)
    /\ res.err = "none" =>
        /\ EntryFits(m, p, res.entry)
        /\ r.weaker \/ ~Weaker(res.entry.verified, LockedCheck(l, p)) \/ (mode = "update" /\ at # None)
        /\ ~Trusts(r) /\ res.entry.verified = "first-use" => Entry(l, p) # None /\ Entry(l, p).file = res.entry.file
        /\ mode # "update" /\ at # None /\ at.strategy = "artifact" => res.entry = at

\* The entry of the machine itself, when there is one.
HostIs(h, r, mode, l, m, rel, host) ==
    host # None =>
        /\ EntryFits(m, h, host)
        /\ ~Trusts(r) /\ host.strategy = "build" /\ m.states[h] = "none" /\ ~rel.digests =>
             mode # "update" /\ Entry(l, h) # None /\ l.version = rel.version

LEMMA PinForGives ==
    ASSUME World, NEW h \in Hosts, NEW r \in Requests, NEW mode \in Modes, NEW l \in Locks \cup {None},
           LockFits(l), NEW m \in setting.manifests, NEW rel \in Rels, Sticks(mode, l, m, rel),
           NEW p \in Hosts, Covered(p), NEW kept, KeptFits(l, m, rel, p, kept[p]),
           NEW host, HostIs(h, r, mode, l, m, rel, host)
    PROVE  OtherFits(h, r, mode, l, m, rel, p, kept[p], PinFor(p, r, mode, l, m, rel, kept, host))
<1> DEFINE was == kept[p]
           relabel == was # None /\ mode = "update"
           download == was # None /\ was.strategy = "artifact"
           at == IF download /\ setting.fromSource THEN None ELSE was
           isBuild == /\ setting.fromSource \/ p \notin m.arts \/ (at # None /\ at.strategy = "build")
                      /\ p \in m.builds
           by == VerifiedBy(m, rel, p, IF isBuild THEN None ELSE KeyOf(m))
           stays == download /\ ~setting.fromSource /\ (relabel => by = None)
           pinned == at # None /\ ~relabel
           here == host # None /\ host.strategy = "build"
           from == IF at # None THEN at.file ELSE None
           building == PinnedFor(p, r, l, relabel, "build", PinVerified(by, pinned, at), here,
                                 PinBuild(p, m, rel, from))
           pinning == PinnedFor(p, r, l, relabel, "artifact", PinVerified(by, FALSE, at), FALSE,
                                Pin(p, m, rel, KeyOf(m)))
           res == PinFor(p, r, mode, l, m, rel, kept, host)
<1>1. /\ stays => res = Ended(at, {}, "none")
      /\ ~stays /\ setting.fromSource /\ p \notin m.builds => res = Ended(None, {}, "failed")
      /\ ~stays /\ ~(setting.fromSource /\ p \notin m.builds) /\ isBuild => res = building
      /\ ~stays /\ ~(setting.fromSource /\ p \notin m.builds) /\ ~isBuild => res = pinning
  BY DEF PinFor
<1>2. /\ was \in Entries \cup {None}
      /\ was # None => l # None /\ l.manifest = m /\ l.version = rel.version
                       /\ was = Entry(l, p) /\ EntryFits(m, p, was)
  BY DEF KeptFits
<1>3. at = was /\ (download => ~setting.fromSource)
  BY <1>2 DEF EntryFits
<1>4. setting.fromSource \in BOOLEAN /\ rel.digests \in BOOLEAN /\ KeyOf(m) \in Keys \cup {None}
  BY SettingIs, KeyOfIs DEF World, Rels
<1>5. at # None => at.file \in Files /\ at.verified \in Checks /\ at.strategy \in Strategies
  BY <1>2, <1>3, EntryType
<1>6. from \in Files \cup {None}
  BY <1>5
<1>7. at # None => ~Weaker(at.verified, LockedCheck(l, p))
  BY <1>2, <1>3, LockedCheckIs
<1>8. ASSUME NEW f \in Files, NEW check \in Checks, NEW strategy \in Strategies, NEW e, e = NewEntry(strategy, f, check)
      PROVE  e \in Entries /\ e.strategy = strategy /\ e.file = f /\ e.verified = check
  BY <1>8, EntryIs
<1>9. CASE stays
  <2>1. res.err = "none" /\ res.entry = at
    BY <1>1, <1>9, EndedIs
  <2>2. at # None
    BY <1>9, <1>3
  <2> HIDE DEF res, at, stays
  <2> QED BY <2>1, <2>2, <1>2, <1>3, <1>7 DEF OtherFits, res
<1>10. CASE ~stays /\ setting.fromSource /\ p \notin m.builds
  <2>1. res.err = "failed"
    BY <1>1, <1>10, EndedIs
  <2> HIDE DEF res
  <2> QED BY <2>1 DEF OtherFits, res
<1>11. CASE ~stays /\ ~(setting.fromSource /\ p \notin m.builds) /\ isBuild
  <2> DEFINE got == PinBuild(p, m, rel, from)
             check == PinVerified(by, pinned, at)
  <2>1. res = PinnedFor(p, r, l, relabel, "build", check, here, got)
    BY <1>1, <1>11
  <2>2. /\ got.err = "none" /\ got.file \in Files /\ got.first \in BOOLEAN
        /\ got.first <=> Stated(m, rel, p) = None /\ from = None
        /\ Stated(m, rel, p) = None /\ from # None => got.file = from
        /\ m.states[p] = "digest" => got.file = m.sha
    BY <1>6, PinBuildGives
  <2>3. by \in Labels \cup {None} /\ (by = None <=> m.states[p] = "none" /\ ~rel.digests)
    BY <1>11, VerifiedByIs
  <2>4. Stated(m, rel, p) = None <=> m.states[p] = "none" /\ ~rel.digests
    BY StatedIs
  <2>5. p \in m.builds /\ (download => mode = "update")
    BY <1>11, <1>3
  <2>6. pinned \in BOOLEAN /\ (pinned => at # None /\ mode # "update")
    OBVIOUS
  <2>7. /\ check \in Checks
        /\ pinned => check = at.verified
        /\ ~pinned => (check = "first-use" <=> by = None)
    BY <2>3, <2>6, <1>5, PinVerifiedIs
  <2>8. from = None <=> at = None
    BY <1>5, NoneIs
  <2>9. pinned => at = Entry(l, p) /\ ~rel.digests /\ EntryFits(m, p, at) /\ at.strategy = "build"
    <3>1. ASSUME pinned PROVE at = Entry(l, p) /\ ~rel.digests /\ EntryFits(m, p, at)
      BY <3>1, <1>2, <1>3 DEF Sticks
    <3>2. ASSUME pinned PROVE at.strategy = "build"
      BY <3>2, <2>5, <1>5, <1>3 DEF Strategies
    <3> QED BY <3>1, <3>2
  <2>10. /\ res.err \in {"none", "failed", "untrusted"}
         /\ res.err = "untrusted" => got.first /\ ~Trusts(r)
         /\ res.err = "none" => /\ relabel \/ CheckVerified(r, l, p, check)
                                /\ got.first => here \/ Trusts(r)
                                /\ res.entry = NewEntry("build", got.file, check)
    BY <2>1, <2>2 DEF PinnedFor, Ended
  <2>11. at # None => at = Entry(l, p)
    BY <1>2, <1>3
  <2>12. ASSUME at = None, here, ~Trusts(r), m.states[p] = "none", ~rel.digests
         PROVE  FALSE
    <3>1. h \in m.builds /\ EntryFits(m, h, host)
      BY <2>12 DEF HostIs, EntryFits
    <3>2. m.states[h] = m.states[p]
      BY <3>1, <2>5, ManifestIs DEF World
    <3>3. mode # "update" /\ l # None /\ l.version = rel.version
      BY <2>12, <3>2, EntryOf DEF HostIs
    <3>4. l.manifest = m
      BY <3>3 DEF Sticks
    <3>5. l.platforms[p] # None
      BY <3>3 DEF LockFits
    <3>6. Entry(l, p) # None
      BY <3>3, <3>5 DEF Entry
    <3> QED BY <3>3, <3>4, <3>6, <2>12, <1>3 DEF KeptFits
  <2> HIDE DEF res, got, check, by, at, pinned, from, here, isBuild, stays
  <2>13. ASSUME res.err = "none"
         PROVE  /\ EntryFits(m, p, res.entry)
                /\ r.weaker \/ ~Weaker(res.entry.verified, LockedCheck(l, p)) \/ (mode = "update" /\ was # None)
                /\ ~Trusts(r) /\ res.entry.verified = "first-use" =>
                     Entry(l, p) # None /\ Entry(l, p).file = res.entry.file
                /\ mode # "update" /\ was # None /\ was.strategy = "artifact" => res.entry = was
    <3>1. res.entry \in Entries /\ res.entry.strategy = "build" /\ res.entry.file = got.file /\ res.entry.verified = check
      BY <2>13, <2>10, <2>2, <2>7, <1>8 DEF Strategies
    <3>2. m.states[p] # "none" => check # "first-use"
      <4>1. CASE pinned
        BY <4>1, <2>7, <2>9 DEF EntryFits
      <4>2. CASE ~pinned
        BY <4>2, <2>7, <2>3
      <4> QED BY <4>1, <4>2
    <3>3. EntryFits(m, p, res.entry)
      BY <3>1, <3>2, <2>2, <2>5 DEF EntryFits
    <3>4. r.weaker \/ ~Weaker(check, LockedCheck(l, p)) \/ (mode = "update" /\ was # None)
      BY <2>10, <2>13 DEF CheckVerified
    <3>5. ASSUME ~Trusts(r), check = "first-use" PROVE Entry(l, p) # None /\ Entry(l, p).file = got.file
      <4>1. m.states[p] = "none" /\ ~rel.digests
        BY <3>5, <3>2, <2>7, <2>9, <2>3
      <4>2. Stated(m, rel, p) = None
        BY <4>1, <2>4
      <4>3. at # None
        BY <4>1, <4>2, <2>2, <2>8, <2>10, <2>12, <2>13, <3>5
      <4>4. from # None /\ got.file = from
        BY <4>2, <4>3, <2>2, <2>8
      <4>5. from = at.file
        BY <4>3 DEF from
      <4> QED BY <4>3, <4>4, <4>5, <2>11
    <3> QED BY <3>1, <3>3, <3>4, <3>5, <2>5
  <2>14. res.err = "untrusted" => ~rel.digests /\ ~Trusts(r)
    BY <2>10, <2>2, <2>4
  <2> QED BY <2>10, <2>13, <2>14 DEF OtherFits, res
<1>12. CASE ~stays /\ ~(setting.fromSource /\ p \notin m.builds) /\ ~isBuild
  <2> DEFINE got == Pin(p, m, rel, KeyOf(m))
             check == PinVerified(by, FALSE, at)
  <2>1. res = PinnedFor(p, r, l, relabel, "artifact", check, FALSE, got)
    BY <1>1, <1>12
  <2>2. /\ got.err \in {"none", "failed"}
        /\ got.err = "none" => /\ got.file \in Files /\ got.first \in BOOLEAN
                               /\ got.first <=> Stated(m, rel, p) = None /\ KeyOf(m) = None
                               /\ m.states[p] = "digest" => got.file = m.sha
    BY <1>4, PinGives
  <2>3. by \in Labels \cup {None} /\ (by = None => KeyOf(m) = None /\ m.states[p] = "none" /\ ~rel.digests)
    BY <1>12, <1>4, VerifiedByIs
  <2>4. Stated(m, rel, p) = None <=> m.states[p] = "none" /\ ~rel.digests
    BY StatedIs
  <2>5. ~setting.fromSource /\ p \in m.arts
    BY <1>12, ManifestIs DEF World
  <2>6. check \in Checks /\ (check = "first-use" <=> by = None)
    BY <2>3, PinVerifiedIs
  <2>7. /\ res.err \in {"none", "failed", "untrusted"}
        /\ res.err = "untrusted" => got.first /\ got.err = "none" /\ ~Trusts(r)
        /\ res.err = "none" => /\ relabel \/ CheckVerified(r, l, p, check)
                               /\ got.first => Trusts(r)
                               /\ got.err = "none"
                               /\ res.entry = NewEntry("artifact", got.file, check)
    <3>1. CASE got.err # "none" \/ (~relabel /\ ~CheckVerified(r, l, p, check))
      <4>1. res = Ended(None, {}, "failed")
        BY <2>1, <3>1 DEF PinnedFor
      <4> QED BY <4>1 DEF Ended
    <3>2. CASE got.err = "none" /\ (relabel \/ CheckVerified(r, l, p, check)) /\ got.first /\ ~Trusts(r)
      <4>1. res = Ended(None, {}, "untrusted")
        BY <2>1, <3>2 DEF PinnedFor
      <4> QED BY <3>2, <4>1 DEF Ended
    <3>3. CASE got.err = "none" /\ (relabel \/ CheckVerified(r, l, p, check)) /\ ~(got.first /\ ~Trusts(r))
      <4>1. res = Ended(NewEntry("artifact", got.file, check), {}, "none")
        BY <2>1, <3>3 DEF PinnedFor
      <4>2. res.err = "none" /\ res.entry = NewEntry("artifact", got.file, check)
        BY <4>1 DEF Ended
      <4> HIDE DEF res, got, check, relabel
      <4> QED BY <3>3, <4>2
    <3> QED BY <2>2, <3>1, <3>2, <3>3
  <2>8. download => mode = "update"
    BY <1>12, <1>3
  <2> HIDE DEF res, got, check, by, at, isBuild, stays
  <2>9. ASSUME res.err = "none"
        PROVE  /\ EntryFits(m, p, res.entry)
               /\ r.weaker \/ ~Weaker(res.entry.verified, LockedCheck(l, p)) \/ (mode = "update" /\ was # None)
               /\ ~Trusts(r) => res.entry.verified # "first-use"
               /\ mode # "update" /\ was # None => was.strategy # "artifact"
    <3>1. res.entry \in Entries /\ res.entry.strategy = "artifact" /\ res.entry.file = got.file /\ res.entry.verified = check
      BY <2>9, <2>7, <2>2, <2>6, <1>8 DEF Strategies
    <3>2. EntryFits(m, p, res.entry)
      BY <3>1, <2>2, <2>5, <2>7, <2>9 DEF EntryFits
    <3>3. r.weaker \/ ~Weaker(check, LockedCheck(l, p)) \/ (mode = "update" /\ was # None)
      BY <2>7, <2>9 DEF CheckVerified
    <3>4. ~Trusts(r) => check # "first-use"
      BY <2>9, <2>2, <2>3, <2>4, <2>6, <2>7
    <3> QED BY <3>1, <3>2, <3>3, <3>4, <2>8
  <2>10. res.err = "untrusted" => ~rel.digests /\ ~Trusts(r)
    BY <2>7, <2>2, <2>4
  <2> QED BY <2>7, <2>9, <2>10 DEF OtherFits, res
<1> QED BY <1>9, <1>10, <1>11, <1>12

-----------------------------------------------------------------------------
(* The lock that comes of them.                                            *)

LEMMA FirstErrorIs ==
    ASSUME NEW h \in Hosts, setting \in Settings, NEW pins,
           \A p \in Others(h) : pins[p].err \in {"none", "failed", "untrusted"}
    PROVE  /\ FirstError(h, pins) \in {"none", "failed", "untrusted"}
           /\ FirstError(h, pins) = "none" <=> \A p \in Others(h) : pins[p].err = "none"
           /\ FirstError(h, pins) = "untrusted" => \E p \in Others(h) : pins[p].err = "untrusted"
<1> DEFINE err(i) == IF setting.platforms[i] \in Others(h) THEN pins[setting.platforms[i]].err ELSE "none"
           all == \A i \in DOMAIN setting.platforms : err(i) = "none"
           some == \E i \in DOMAIN setting.platforms :
                       err(i) = "untrusted" /\ \A j \in 1..(i - 1) : err(j) = "none"
<1>1. FirstError(h, pins) = IF all THEN "none" ELSE IF some THEN "untrusted" ELSE "failed"
  BY DEF FirstError
<1>2. all <=> \A p \in Others(h) : pins[p].err = "none"
  BY DEF Others
<1>3. some => \E p \in Others(h) : pins[p].err = "untrusted"
  OBVIOUS
<1> QED BY <1>1, <1>2, <1>3

LEMMA KeptIs ==
    ASSUME NEW l \in Locks \cup {None}, LockFits(l), NEW m, NEW rel, NEW p \in Hosts
    PROVE  /\ KeptFits(l, m, rel, p, Kept(l, m, rel.version)[p])
           /\ DOMAIN Kept(l, m, rel.version) = Hosts
           /\ l # None /\ l.manifest = m /\ l.version = rel.version => Kept(l, m, rel.version)[p] = Entry(l, p)
<1>1. CASE l # None /\ l.manifest = m /\ l.version = rel.version
  <2>1. Kept(l, m, rel.version) = l.platforms /\ l.platforms \in [Hosts -> Entries \cup {None}]
    BY <1>1, LockIs DEF Kept
  <2>2. Entry(l, p) = l.platforms[p] /\ (l.platforms[p] # None => EntryFits(m, p, l.platforms[p]))
    BY <1>1, EntryOf DEF LockFits
  <2>3. Kept(l, m, rel.version)[p] = Entry(l, p) /\ Entry(l, p) \in Entries \cup {None}
    BY <2>1, <2>2
  <2> QED BY <2>1, <2>2, <2>3, <1>1 DEF KeptFits
<1>2. CASE ~(l # None /\ l.manifest = m /\ l.version = rel.version)
  <2>1. Kept(l, m, rel.version) = [q \in Hosts |-> None]
    BY <1>2 DEF Kept
  <2>2. Kept(l, m, rel.version)[p] = None /\ DOMAIN Kept(l, m, rel.version) = Hosts
    BY <2>1
  <2> QED BY <2>2, <1>2 DEF KeptFits
<1> QED BY <1>1, <1>2

LEMMA KeptSame ==
    ASSUME NEW l \in Locks, NEW p, NEW v, l.version = v
    PROVE  Kept(l, l.manifest, v)[p] = Entry(l, p)
<1>1. l # None
  BY LockIs
<1> QED BY <1>1 DEF Kept, Entry

\* The outcome of an attempt with manifest m and release rel.
AttemptFits(h, r, mode, l, m, rel, s, out) ==
    /\ out.err \in {"none", "failed", "untrusted"}
    /\ StoreFits(h, out.store)
    /\ \A e \in out.store \ s : AddedFits(h, r, mode, l, m, rel, s, e) /\ KeyHolds(r, l, m)
    /\ out.err = "untrusted" => ~rel.digests /\ ~Trusts(r)
    /\ out.err # "none" => out.lock = l
    /\ out.err = "none" =>
        /\ out.lock \in Locks /\ LockFits(out.lock)
        /\ out.lock.manifest = m /\ out.lock.version = rel.version
        /\ \A p \in Hosts : out.lock.platforms[p] # None =>
            /\ \/ r.weaker \/ ~Weaker(out.lock.platforms[p].verified, LockedCheck(l, p))
               \/ /\ mode = "update" /\ p # h /\ Entry(l, p) # None
                  /\ l.manifest = m /\ l.version = rel.version
            /\ ~Trusts(r) /\ out.lock.platforms[p].verified = "first-use" =>
                 Known(h, l, m, rel.version, s, p, out.lock.platforms[p])
        /\ mode # "update" /\ l # None /\ l.version = rel.version =>
             \A p \in Hosts : Entry(l, p) # None /\ Entry(l, p).strategy = "artifact" =>
                                  out.lock.platforms[p] = Entry(l, p)

LEMMA OutcomeIs ==
    ASSUME NEW l, NEW s, NEW err, NEW out, out = Outcome(l, s, err)
    PROVE  out.lock = l /\ out.store = s /\ out.err = err
BY DEF Outcome

LEMMA ThenOthersGives ==
    ASSUME World, NEW h \in Hosts, NEW r \in Requests, NEW mode \in Modes, NEW l \in Locks \cup {None},
           LockFits(l), NEW m \in setting.manifests, NEW rel \in Rels, Sticks(mode, l, m, rel), KeyHolds(r, l, m),
           NEW s, StoreFits(h, s), NEW here,
           \/ h \in setting.when /\ HostFits(h, r, mode, l, m, rel, s, here)
           \/ h \notin setting.when /\ here = Ended(None, s, "none")
    PROVE  AttemptFits(h, r, mode, l, m, rel, s, ThenOthers(h, r, mode, l, m, rel, here))
<1> DEFINE out == ThenOthers(h, r, mode, l, m, rel, here)
<1>1. /\ here.err \in {"none", "failed", "untrusted"}
      /\ StoreFits(h, here.store)
      /\ \A e \in here.store \ s : AddedFits(h, r, mode, l, m, rel, s, e)
      /\ here.err = "untrusted" => ~rel.digests /\ ~Trusts(r)
      /\ h \notin setting.when => here.err = "none" /\ here.entry = None
  <2>1. CASE h \in setting.when
    BY <2>1 DEF HostFits
  <2>2. CASE h \notin setting.when
    <3>1. here = Ended(None, s, "none")
      BY <2>2
    <3>2. here.store = s /\ here.err = "none" /\ here.entry = None
      BY <3>1, EndedIs
    <3> QED BY <3>2, <2>2
  <2> QED BY <2>1, <2>2
<1>2. CASE here.err # "none"
  <2>1. out = Outcome(l, here.store, here.err)
    BY <1>2 DEF ThenOthers
  <2>2. out.lock = l /\ out.store = here.store /\ out.err = here.err
    BY <2>1, OutcomeIs
  <2> HIDE DEF out
  <2> QED BY <2>2, <1>1, <1>2 DEF AttemptFits, out
<1>3. CASE here.err = "none"
  <2> DEFINE v == rel.version
             host == here.entry
             was == Kept(l, m, v)
             kept == [was EXCEPT ![h] = IF host # None THEN host ELSE @]
             pins == [p \in Hosts |-> PinFor(p, r, mode, l, m, rel, kept, host)]
             err == FirstError(h, pins)
             new == [manifest |-> m, version |-> v, key |-> KeyOf(m),
                     platforms |-> [p \in Hosts |-> IF p \in Others(h) THEN pins[p].entry ELSE kept[p]]]
  <2>1. out = IF err # "none" THEN Outcome(l, here.store, err) ELSE Outcome(new, here.store, "none")
    BY <1>3 DEF ThenOthers, LockOthers, LockEntry
  <2>2. h \in setting.when => host \in Entries /\ host # None /\ HostFits(h, r, mode, l, m, rel, s, here)
    <3>1. h \in setting.when => HostFits(h, r, mode, l, m, rel, s, here) /\ EntryFits(m, h, host)
      BY <1>3 DEF HostFits
    <3> QED BY <3>1, EntryType DEF EntryFits
  <2>3. HostIs(h, r, mode, l, m, rel, host)
    BY <1>1, <1>3, <2>2 DEF HostFits, HostIs
  <2>0. \A p \in Hosts : /\ p # h \/ host = None => kept[p] = was[p]
                         /\ host # None => kept[h] = host
    <3>1. DOMAIN was = Hosts
      BY KeptIs
    <3> HIDE DEF was, host
    <3> QED BY <3>1
  <2>4. ASSUME NEW p \in Hosts, p # h \/ host = None
        PROVE  /\ kept[p] = was[p] /\ KeptFits(l, m, rel, p, kept[p])
               /\ l # None /\ l.manifest = m /\ l.version = v => kept[p] = Entry(l, p)
    <3>1. kept[p] = was[p]
      BY <2>0, <2>4
    <3>2. KeptFits(l, m, rel, p, was[p]) /\ (l # None /\ l.manifest = m /\ l.version = v => was[p] = Entry(l, p))
      <4>1. KeptFits(l, m, rel, p, was[p])
        BY KeptIs
      <4>2. ASSUME l # None, l.manifest = m, l.version = rel.version PROVE was[p] = Entry(l, p)
        <5>1. l \in Locks
          BY <4>2
        <5>2. Kept(l, m, v)[p] = Entry(l, p)
          BY <4>2, <5>1, KeptSame
        <5> QED BY <5>2
      <4> HIDE DEF was
      <4> QED BY <4>1, <4>2
    <3> HIDE DEF kept, was
    <3> QED BY <3>1, <3>2
  <2>5. host # None => kept[h] = host
    BY <2>0
  <2>6. \A p \in Others(h) : p \in Hosts /\ p # h /\ Covered(p)
    BY SettingIs DEF Others, Covered, World
  <2> HIDE DEF was, kept
  <2>7. ASSUME NEW p \in Others(h)
        PROVE  OtherFits(h, r, mode, l, m, rel, p, kept[p], pins[p])
    <3>1. p \in Hosts /\ Covered(p) /\ KeptFits(l, m, rel, p, kept[p]) /\ pins[p] = PinFor(p, r, mode, l, m, rel, kept, host)
      BY <2>4, <2>6
    <3> HIDE DEF pins, host
    <3> QED BY <3>1, <2>3, PinForGives
  <2> HIDE DEF pins
  <2>8. \A p \in Others(h) : pins[p].err \in {"none", "failed", "untrusted"}
    BY <2>7 DEF OtherFits
  <2>9. /\ err \in {"none", "failed", "untrusted"}
        /\ err = "none" <=> \A p \in Others(h) : pins[p].err = "none"
        /\ err = "untrusted" => \E p \in Others(h) : pins[p].err = "untrusted"
    BY <2>8, FirstErrorIs DEF World
  <2>10. err = "untrusted" => ~rel.digests /\ ~Trusts(r)
    BY <2>7, <2>9 DEF OtherFits
  <2> HIDE DEF err, new, out, v
  <2>11. CASE err # "none"
    <3>1. out.lock = l /\ out.store = here.store /\ out.err = err
      BY <2>1, <2>11, OutcomeIs
    <3> QED BY <3>1, <1>1, <2>9, <2>10, <2>11 DEF AttemptFits, out
  <2>12. CASE err = "none"
    <3>1. out.lock = new /\ out.store = here.store /\ out.err = "none"
      BY <2>1, <2>12, OutcomeIs
    <3> DEFINE at(p) == new.platforms[p]
    <3>2. \A p \in Hosts : at(p) = IF p \in Others(h) THEN pins[p].entry ELSE kept[p]
      BY DEF new
    <3>3. new.manifest = m /\ new.version = v /\ new.key = KeyOf(m) /\ new = [manifest |-> new.manifest,
              version |-> new.version, key |-> new.key, platforms |-> new.platforms]
          /\ new.platforms = [p \in Hosts |-> at(p)]
      BY DEF new
    <3> HIDE DEF at
    <3>4. ASSUME NEW p \in Hosts
          PROVE  /\ at(p) \in Entries \cup {None}
                 /\ at(p) # None => EntryFits(m, p, at(p))
                 /\ Covered(p) => at(p) # None
                 /\ at(p) # None =>
                      /\ \/ r.weaker \/ ~Weaker(at(p).verified, LockedCheck(l, p))
                         \/ /\ mode = "update" /\ p # h /\ Entry(l, p) # None
                            /\ l.manifest = m /\ l.version = v
                      /\ ~Trusts(r) /\ at(p).verified = "first-use" => Known(h, l, m, v, s, p, at(p))
                 /\ mode # "update" /\ l # None /\ l.version = v =>
                      (Entry(l, p) # None /\ Entry(l, p).strategy = "artifact" => at(p) = Entry(l, p))
      <4>0. mode # "update" /\ l # None /\ l.version = v => l.manifest = m
        BY DEF Sticks, v
      <4>1. CASE p \in Others(h)
        <5>1. at(p) = pins[p].entry /\ pins[p].err = "none" /\ p # h
          BY <4>1, <3>2, <2>9, <2>12, <2>6
        <5>2. /\ EntryFits(m, p, at(p))
              /\ r.weaker \/ ~Weaker(at(p).verified, LockedCheck(l, p)) \/ (mode = "update" /\ kept[p] # None)
              /\ ~Trusts(r) /\ at(p).verified = "first-use" => Entry(l, p) # None /\ Entry(l, p).file = at(p).file
              /\ mode # "update" /\ kept[p] # None /\ kept[p].strategy = "artifact" => at(p) = kept[p]
          BY <4>1, <5>1, <2>7 DEF OtherFits
        <5>3. KeptFits(l, m, rel, p, kept[p]) /\ (l # None /\ l.manifest = m /\ l.version = v => kept[p] = Entry(l, p))
          BY <5>1, <2>4
        <5>4. kept[p] # None => Entry(l, p) # None /\ l.manifest = m /\ l.version = v
          BY <5>3 DEF KeptFits, v
        <5>5. at(p) \in Entries /\ at(p) # None
          BY <5>2, EntryType DEF EntryFits
        <5> QED BY <4>0, <5>1, <5>2, <5>3, <5>4, <5>5 DEF Known
      <4>2. CASE p \notin Others(h) /\ p = h /\ host # None
        <5>1. at(p) = host /\ h \in setting.when
          BY <4>2, <3>2, <2>5, <1>1
        <5>2. /\ EntryFits(m, h, host)
              /\ CheckVerified(r, l, h, host.verified)
              /\ ~Trusts(r) /\ host.verified = "first-use" => Known(h, l, m, v, s, h, host)
              /\ mode # "update" /\ Entry(l, h) # None /\ l.version = v /\ Entry(l, h).strategy = "artifact" =>
                   host = Entry(l, h)
          BY <5>1, <2>2, <1>3 DEF HostFits, v
        <5> HIDE DEF host
        <5> QED BY <5>1, <5>2, <4>2, EntryType DEF CheckVerified, EntryFits
      <4>3. CASE p \notin Others(h) /\ (p # h \/ host = None)
        <5>1. at(p) = kept[p]
          BY <4>3, <3>2
        <5>2. KeptFits(l, m, rel, p, kept[p]) /\ (l # None /\ l.manifest = m /\ l.version = v => kept[p] = Entry(l, p))
          BY <4>3, <2>4
        <5>3. ~Covered(p)
          <6>1. p # h => ~Covered(p)
            BY <4>3 DEF Others, Covered
          <6>2. p = h => p \notin setting.when
            BY <4>3, <2>2
          <6> QED BY <6>1, <6>2 DEF Covered
        <5>4. Entry(l, p) # None => ~Weaker(Entry(l, p).verified, LockedCheck(l, p))
          BY LockedCheckIs
        <5> QED BY <4>0, <5>1, <5>2, <5>3, <5>4 DEF KeptFits, Known
      <4> QED BY <4>1, <4>2, <4>3
    <3>5. new \in Locks
      <4>1. m \in Manifests /\ v \in Versions /\ KeyOf(m) \in Keys \cup {None}
        BY ManifestIs, KeyOfIs DEF World, Rels, v
      <4>2. new.platforms \in [Hosts -> Entries \cup {None}]
        BY <3>3, <3>4
      <4> QED BY <4>1, <4>2, <3>3 DEF Locks
    <3>6. LockFits(new)
      <4>1. m.key \in {None, KeyOf(m)}
        BY DEF KeyHolds, KeyOf
      <4> QED BY <4>1, <3>3, <3>4, <3>5, LockIs DEF LockFits, at
    <3> QED BY <3>1, <3>3, <3>4, <3>5, <3>6, <1>1 DEF AttemptFits, out, at, v
  <2> QED BY <2>11, <2>12
<1> QED BY <1>1, <1>2, <1>3

LEMMA FetchedIs ==
    ASSUME World, NEW mode \in Modes, NEW l \in Locks \cup {None}, LockFits(l)
    PROVE  Fetched(mode, l) \in setting.manifests
BY DEF World, Fetched, Keeps, LockFits

LEMMA PickedIs ==
    ASSUME World, NEW r \in Requests, NEW mode \in Modes, NEW l \in Locks \cup {None},
           NEW rel, rel = Picked(r, mode, l), rel # NoRelease
    PROVE  /\ rel \in Rels
           /\ mode # "update" /\ l # None /\ Allowed(l.version) => rel.version = l.version /\ ~rel.digests
           /\ mode # "update" /\ l # None /\ l.version = rel.version => Allowed(l.version) /\ ~rel.digests
<1>1. up.newest \in Versions /\ setting.publishes \in BOOLEAN
  BY SettingIs DEF World, Ups
<1>2. l # None => l.version \in Versions
  BY LockIs
<1>3. 1..up.newest \subseteq Versions
  BY <1>1, PinsAssumption DEF Versions
<1>4. Newest(r) # NoRelease => /\ Newest(r) \in Rels
                               /\ listVersion # None => Newest(r).version = listVersion
  BY <1>1, <1>3 DEF Newest, Rels
<1>5. l # None => LockedRelease(l) \in Rels /\ LockedRelease(l).version = l.version /\ ~LockedRelease(l).digests
  BY <1>2 DEF LockedRelease, Rels
<1> DEFINE can == l # None /\ Allowed(l.version)
<1>6. \/ can /\ rel = LockedRelease(l)
      \/ rel = Newest(r) /\ ~(Keeps(mode, l) /\ can)
  BY DEF Picked
<1>7. CASE can /\ rel = LockedRelease(l)
  BY <1>5, <1>7
<1>8. CASE rel = Newest(r) /\ ~(Keeps(mode, l) /\ can)
  <2>1. mode # "update" /\ l # None => ~Allowed(l.version)
    BY <1>8 DEF Keeps
  <2>2. ASSUME l # None, ~Allowed(l.version) PROVE listVersion # None /\ listVersion # l.version
    BY <2>2 DEF Allowed
  <2> QED BY <1>4, <1>8, <2>1, <2>2
<1> QED BY <1>6, <1>7, <1>8

\* The manifest and the release of an attempt.
Tried(mode, l, m, rel) ==
    /\ m \in setting.manifests /\ rel \in Rels
    /\ mode # "update" /\ l # None /\ Allowed(l.version) => m = l.manifest /\ rel.version = l.version

LEMMA AttemptGives ==
    ASSUME World, NEW h \in Hosts, NEW r \in Requests, NEW mode \in Modes, NEW l \in Locks \cup {None},
           LockFits(l), NEW s, StoreFits(h, s), NEW out, out = Attempt(h, r, mode, l, s)
    PROVE  \/ out.lock = l /\ out.store = s /\ out.err = "failed"
           \/ \E m, rel : Tried(mode, l, m, rel) /\ AttemptFits(h, r, mode, l, m, rel, s, out)
<1> DEFINE m == Fetched(mode, l)
           rel == Picked(r, mode, l)
           here == IF h \in setting.when THEN InstallHere(h, r, mode, l, m, rel, s) ELSE Ended(None, s, "none")
<1>1. m \in setting.manifests
  BY FetchedIs
<1>2. CASE ~ManifestHolds(mode, l, m) \/ ~KeyHolds(r, l, m) \/ rel = NoRelease
  <2>1. out = Outcome(l, s, "failed")
    BY <1>2 DEF Attempt, AttemptAt
  <2> QED BY <2>1, OutcomeIs
<1>3. CASE ManifestHolds(mode, l, m) /\ KeyHolds(r, l, m) /\ rel # NoRelease
  <2>1. out = ThenOthers(h, r, mode, l, m, rel, here)
    BY <1>3 DEF Attempt, AttemptAt
  <2>2. /\ rel \in Rels
        /\ mode # "update" /\ l # None /\ Allowed(l.version) => rel.version = l.version /\ ~rel.digests
        /\ mode # "update" /\ l # None /\ l.version = rel.version => Allowed(l.version) /\ ~rel.digests
    BY <1>3, PickedIs
  <2>3. mode # "update" /\ l # None /\ Allowed(l.version) => m = l.manifest
    BY <1>3 DEF ManifestHolds, Keeps
  <2> HIDE DEF m, rel
  <2>4. Sticks(mode, l, m, rel) /\ Tried(mode, l, m, rel)
    BY <1>1, <2>2, <2>3 DEF Sticks, Tried
  <2>5. \/ h \in setting.when /\ HostFits(h, r, mode, l, m, rel, s, here)
        \/ h \notin setting.when /\ here = Ended(None, s, "none")
    <3>1. CASE h \in setting.when
      BY <3>1, <1>1, <2>2, <2>4, InstallHereGives
    <3>2. CASE h \notin setting.when
      BY <3>2
    <3> QED BY <3>1, <3>2
  <2> HIDE DEF here
  <2>6. AttemptFits(h, r, mode, l, m, rel, s, ThenOthers(h, r, mode, l, m, rel, here))
    BY <1>1, <1>3, <2>2, <2>4, <2>5, ThenOthersGives
  <2> QED BY <2>1, <2>4, <2>6
<1> QED BY <1>2, <1>3

\* What a command does, in terms of the lock l and the store s that it found.
CommandFits(h, r, l, s, out) ==
    /\ out.lock \in Locks \cup {None} /\ LockFits(out.lock) /\ StoreFits(h, out.store)
    /\ l # None => out.lock # None
    /\ out.lock # None => \A p \in Hosts : out.lock.platforms[p] # None =>
        /\ \/ r.weaker \/ ~Weaker(out.lock.platforms[p].verified, LockedCheck(l, p))
           \/ /\ r.update /\ p # h /\ Entry(l, p) # None
              /\ out.lock.manifest = l.manifest /\ out.lock.version = l.version
        /\ ~Trusts(r) /\ out.lock.platforms[p].verified = "first-use" =>
             Known(h, l, out.lock.manifest, out.lock.version, s, p, out.lock.platforms[p])
    /\ \A e \in out.store \ s : e.strategy = "artifact" =>
         \E m : /\ KeyHolds(r, l, m)
                /\ KeyOf(m) # None => up.signer[e.version] = KeyOf(m)
    /\ ~r.update /\ l # None /\ Allowed(l.version) =>
        /\ out.lock # None /\ out.lock.version = l.version /\ out.lock.manifest = l.manifest
        /\ \A p \in Hosts : Entry(l, p) # None /\ Entry(l, p).strategy = "artifact" =>
                                out.lock.platforms[p] = Entry(l, p)
        /\ Entry(l, h) # None => \A e \in out.store \ s : e.version = l.version /\ e.file = Entry(l, h).file

LEMMA LockStays ==
    ASSUME World, NEW h \in Hosts, NEW r \in Requests, NEW l \in Locks \cup {None}, LockFits(l), NEW s, NEW out,
           out.lock = l, StoreFits(h, out.store),
           \A e \in out.store \ s : e.strategy = "artifact" =>
             \E m : KeyHolds(r, l, m) /\ (KeyOf(m) # None => up.signer[e.version] = KeyOf(m)),
           ~r.update /\ l # None /\ Allowed(l.version) /\ Entry(l, h) # None =>
             \A e \in out.store \ s : e.version = l.version /\ e.file = Entry(l, h).file
    PROVE  CommandFits(h, r, l, s, out)
<1>1. ASSUME l # None, NEW p \in Hosts, l.platforms[p] # None
      PROVE  /\ ~Weaker(l.platforms[p].verified, LockedCheck(l, p))
             /\ Known(h, l, l.manifest, l.version, s, p, l.platforms[p])
  <2>1. Entry(l, p) = l.platforms[p]
    BY <1>1 DEF Entry
  <2> QED BY <1>1, <2>1, LockedCheckIs DEF Known
<1>2. l # None => \A p \in Hosts : Entry(l, p) = l.platforms[p]
  BY DEF Entry
<1> QED BY <1>1, <1>2 DEF CommandFits

-----------------------------------------------------------------------------
(* A command.                                                              *)

\* What an install has done to the store when the first of its attempts ended.
AddedTried(h, r, l, s, t) ==
    \A e \in t \ s :
        /\ e.strategy = "artifact" =>
             \E m : KeyHolds(r, l, m) /\ (KeyOf(m) # None => up.signer[e.version] = KeyOf(m))
        /\ ~r.update /\ l # None /\ Allowed(l.version) /\ Entry(l, h) # None =>
             e.version = l.version /\ e.file = Entry(l, h).file

LEMMA AttemptAdds ==
    ASSUME World, NEW h \in Hosts, NEW r \in Requests, NEW mode \in Modes, NEW l \in Locks \cup {None},
           LockFits(l), NEW s, StoreFits(h, s), NEW out, out = Attempt(h, r, mode, l, s),
           ~r.update => mode # "update"
    PROVE  /\ StoreFits(h, out.store) /\ AddedTried(h, r, l, s, out.store)
           /\ out.err \in {"none", "failed", "untrusted"} /\ (out.err # "none" => out.lock = l)
<1>1. CASE out.lock = l /\ out.store = s /\ out.err = "failed"
  BY <1>1 DEF AddedTried
<1>2. ASSUME NEW m, NEW rel, Tried(mode, l, m, rel), AttemptFits(h, r, mode, l, m, rel, s, out)
      PROVE  /\ StoreFits(h, out.store) /\ AddedTried(h, r, l, s, out.store)
             /\ out.err \in {"none", "failed", "untrusted"} /\ (out.err # "none" => out.lock = l)
  <2>1. ASSUME NEW e \in out.store \ s
        PROVE  /\ e.strategy = "artifact" =>
                    \E k : KeyHolds(r, l, k) /\ (KeyOf(k) # None => up.signer[e.version] = KeyOf(k))
               /\ ~r.update /\ l # None /\ Allowed(l.version) /\ Entry(l, h) # None =>
                    e.version = l.version /\ e.file = Entry(l, h).file
    <3>1. AddedFits(h, r, mode, l, m, rel, s, e) /\ KeyHolds(r, l, m)
      BY <1>2, <2>1 DEF AttemptFits
    <3>2. ~r.update /\ l # None /\ Allowed(l.version) => rel.version = l.version
      BY <1>2 DEF Tried
    <3> QED BY <3>1, <3>2 DEF AddedFits
  <2>2. AddedTried(h, r, l, s, out.store)
    BY <2>1 DEF AddedTried
  <2> QED BY <1>2, <2>2 DEF AttemptFits
<1> QED BY <1>1, <1>2, AttemptGives

LEMMA InstallGives ==
    ASSUME World, NEW h \in Hosts, NEW r \in Requests, NEW l \in Locks \cup {None},
           LockFits(l), NEW s, StoreFits(h, s), NEW got, got = Install(h, r, l, s)
    PROVE  /\ StoreFits(h, got.store) /\ AddedTried(h, r, l, s, got.store)
           /\ got.err = "none" => CommandFits(h, r, l, s, got)
<1> DEFINE mode == IF r.update THEN "update" ELSE "sync"
           one == Attempt(h, r, mode, l, s)
           two == Attempt(h, r, "locked", l, one.store)
<1>1. mode \in Modes /\ (~r.update => mode # "update") /\ (mode = "update" <=> r.update)
  BY DEF Modes, Requests
<1> HIDE DEF mode
<1>2. /\ StoreFits(h, one.store) /\ AddedTried(h, r, l, s, one.store)
      /\ one.err \in {"none", "failed", "untrusted"} /\ (one.err # "none" => one.lock = l)
  BY <1>1, AttemptAdds
<1>3. \/ got = one
      \/ one.err = "untrusted" /\ l # None /\ r.update /\ two.err = "none" /\ got = two
  BY DEF Install, Retried, OrLocked, mode
<1>4. CASE got = one
  <2>1. ASSUME one.err = "none" PROVE CommandFits(h, r, l, s, one)
    <3>1. \E m, rel : Tried(mode, l, m, rel) /\ AttemptFits(h, r, mode, l, m, rel, s, one)
      BY <1>1, <2>1, AttemptGives
    <3>2. PICK m, rel : Tried(mode, l, m, rel) /\ AttemptFits(h, r, mode, l, m, rel, s, one)
      BY <3>1
    <3> HIDE DEF one
    <3>3. /\ one.lock \in Locks /\ LockFits(one.lock) /\ StoreFits(h, one.store)
          /\ one.lock.manifest = m /\ one.lock.version = rel.version
          /\ \A p \in Hosts : one.lock.platforms[p] # None =>
              /\ \/ r.weaker \/ ~Weaker(one.lock.platforms[p].verified, LockedCheck(l, p))
                 \/ /\ mode = "update" /\ p # h /\ Entry(l, p) # None
                    /\ l.manifest = m /\ l.version = rel.version
              /\ ~Trusts(r) /\ one.lock.platforms[p].verified = "first-use" =>
                   Known(h, l, m, rel.version, s, p, one.lock.platforms[p])
          /\ mode # "update" /\ l # None /\ l.version = rel.version =>
               \A p \in Hosts : Entry(l, p) # None /\ Entry(l, p).strategy = "artifact" =>
                                    one.lock.platforms[p] = Entry(l, p)
      BY <2>1, <3>2 DEF AttemptFits
    <3>4. ~r.update /\ l # None /\ Allowed(l.version) => m = l.manifest /\ rel.version = l.version /\ mode # "update"
      BY <1>1, <3>2 DEF Tried
    <3>5. one.lock # None
      BY <3>3, LockIs
    <3>6. \A p \in Hosts : one.lock.platforms[p] # None =>
              /\ \/ r.weaker \/ ~Weaker(one.lock.platforms[p].verified, LockedCheck(l, p))
                 \/ /\ r.update /\ p # h /\ Entry(l, p) # None
                    /\ one.lock.manifest = l.manifest /\ one.lock.version = l.version
              /\ ~Trusts(r) /\ one.lock.platforms[p].verified = "first-use" =>
                   Known(h, l, one.lock.manifest, one.lock.version, s, p, one.lock.platforms[p])
      BY <3>3, <1>1
    <3>7. \A e \in one.store \ s : e.strategy = "artifact" =>
             \E k : KeyHolds(r, l, k) /\ (KeyOf(k) # None => up.signer[e.version] = KeyOf(k))
      BY <1>2 DEF AddedTried, one
    <3>8. ~r.update /\ l # None /\ Allowed(l.version) =>
            /\ one.lock # None /\ one.lock.version = l.version /\ one.lock.manifest = l.manifest
            /\ \A p \in Hosts : Entry(l, p) # None /\ Entry(l, p).strategy = "artifact" =>
                                    one.lock.platforms[p] = Entry(l, p)
            /\ Entry(l, h) # None => \A e \in one.store \ s : e.version = l.version /\ e.file = Entry(l, h).file
      <4>1. AddedTried(h, r, l, s, one.store)
        BY <1>2 DEF one
      <4>2. ~r.update /\ l # None /\ Allowed(l.version) /\ Entry(l, h) # None =>
               \A e \in one.store \ s : e.version = l.version /\ e.file = Entry(l, h).file
        BY <4>1 DEF AddedTried
      <4>3. ASSUME ~r.update, l # None, Allowed(l.version)
            PROVE  /\ one.lock.version = l.version /\ one.lock.manifest = l.manifest
                   /\ \A p \in Hosts : Entry(l, p) # None /\ Entry(l, p).strategy = "artifact" =>
                                           one.lock.platforms[p] = Entry(l, p)
        <5>1. m = l.manifest /\ rel.version = l.version /\ mode # "update"
          BY <4>3, <3>4
        <5>2. \A p \in Hosts : Entry(l, p) # None /\ Entry(l, p).strategy = "artifact" =>
                                    one.lock.platforms[p] = Entry(l, p)
          BY <5>1, <4>3, <3>3
        <5>3. one.lock.version = l.version /\ one.lock.manifest = l.manifest
          BY <5>1, <3>3
        <5> QED BY <5>2, <5>3
      <4> QED BY <4>2, <4>3, <3>5
    <3>9. /\ one.lock \in Locks \cup {None} /\ LockFits(one.lock) /\ StoreFits(h, one.store)
          /\ l # None => one.lock # None
      BY <3>3, <3>5
    <3> QED BY <3>6, <3>7, <3>8, <3>9 DEF CommandFits
  <2> HIDE DEF one
  <2> QED BY <1>2, <1>4, <2>1 DEF one
<1>5. CASE one.err = "untrusted" /\ l # None /\ r.update /\ two.err = "none" /\ got = two
  <2>1. PICK m, rel : Tried(mode, l, m, rel) /\ AttemptFits(h, r, mode, l, m, rel, s, one)
    BY <1>1, <1>5, AttemptGives
  <2>2. PICK m2, rel2 : /\ Tried("locked", l, m2, rel2)
                        /\ AttemptFits(h, r, "locked", l, m2, rel2, one.store, two)
    <3>1. StoreFits(h, one.store) /\ "locked" \in Modes
      BY <1>2 DEF Modes
    <3> HIDE DEF one
    <3> QED BY <3>1, <1>5, AttemptGives
  <2>3. StoreFits(h, two.store) /\ AddedTried(h, r, l, one.store, two.store)
    <3>1. StoreFits(h, one.store) /\ "locked" \in Modes
      BY <1>2 DEF Modes
    <3> HIDE DEF one
    <3> QED BY <3>1, <1>5, AttemptAdds
  <2> HIDE DEF one, two
  <2>4. AddedTried(h, r, l, s, two.store)
    <3>1. ASSUME NEW e \in two.store \ s
          PROVE  e \in two.store \ one.store \/ e \in one.store \ s
      BY <3>1
    <3> QED BY <3>1, <2>3, <1>2 DEF AddedTried, one
  <2>5. /\ two.lock \in Locks /\ LockFits(two.lock)
        /\ two.lock.manifest = m2 /\ two.lock.version = rel2.version
        /\ \A p \in Hosts : two.lock.platforms[p] # None =>
            /\ r.weaker \/ ~Weaker(two.lock.platforms[p].verified, LockedCheck(l, p))
            /\ ~Trusts(r) /\ two.lock.platforms[p].verified = "first-use" =>
                 Known(h, l, m2, rel2.version, one.store, p, two.lock.platforms[p])
    BY <1>5, <2>2 DEF AttemptFits
  <2>6. ~rel.digests
    BY <1>5, <2>1 DEF AttemptFits
  <2>7. two.lock # None
    BY <2>5, LockIs
  <2>8. ASSUME NEW p \in Hosts, two.lock.platforms[p] # None, ~Trusts(r),
               two.lock.platforms[p].verified = "first-use"
        PROVE  Known(h, l, m2, rel2.version, s, p, two.lock.platforms[p])
    <3> DEFINE e == two.lock.platforms[p]
    <3>1. EntryFits(m2, p, e)
      BY <2>5, <2>7, <2>8 DEF LockFits
    <3>2. CASE Entry(l, p) # None /\ Entry(l, p).file = e.file
      BY <3>2 DEF Known
    <3>3. ASSUME p = h, e.strategy = "build", NEW b \in Builds(one.store, m2, rel2.version), b.file = e.file
          PROVE  b \in s
      <4>1. b \in one.store /\ b.manifest = m2 /\ b.strategy = "build"
        BY DEF Builds
      <4>2. ASSUME b \notin s PROVE FALSE
        <5>1. AddedFits(h, r, mode, l, m, rel, s, b)
          BY <4>1, <4>2, <2>1 DEF AttemptFits
        <5>2. m2 = m /\ m.states[h] # "none"
          BY <5>1, <4>1, <2>6, <2>8, <1>1, <1>5 DEF AddedFits
        <5> QED BY <5>2, <3>1, <3>3, <2>8 DEF EntryFits
      <4> QED BY <4>2
    <3>4. CASE p = h /\ e.strategy = "build" /\ \E b \in Builds(one.store, m2, rel2.version) : b.file = e.file
      <4>1. PICK b \in Builds(one.store, m2, rel2.version) : b.file = e.file
        BY <3>4
      <4>2. b \in Builds(s, m2, rel2.version)
        BY <4>1, <3>3, <3>4 DEF Builds
      <4> QED BY <4>1, <4>2, <3>4 DEF Known
    <3> QED BY <2>5, <2>8, <3>2, <3>4 DEF Known
  <2>9. CommandFits(h, r, l, s, two)
    <3>1. \A e \in two.store \ s : e.strategy = "artifact" =>
             \E k : KeyHolds(r, l, k) /\ (KeyOf(k) # None => up.signer[e.version] = KeyOf(k))
      BY <2>4 DEF AddedTried
    <3> QED BY <1>5, <2>3, <2>5, <2>7, <2>8, <3>1 DEF CommandFits
  <2> QED BY <1>5, <2>3, <2>4, <2>9
<1> QED BY <1>3, <1>4, <1>5

LEMMA CommandGives ==
    ASSUME World, NEW h \in Hosts, NEW r \in Requests, NEW l \in Locks \cup {None},
           LockFits(l), NEW s, StoreFits(h, s), NEW out, out = Command(h, r, l, s)
    PROVE  CommandFits(h, r, l, s, out)
<1>1. ASSUME NEW t, NEW err, out = Outcome(l, t, err), StoreFits(h, t), AddedTried(h, r, l, s, t)
      PROVE  CommandFits(h, r, l, s, out)
  <2>1. out.lock = l /\ out.store = t
    BY <1>1, OutcomeIs
  <2>2. /\ \A e \in out.store \ s : e.strategy = "artifact" =>
             \E m : KeyHolds(r, l, m) /\ (KeyOf(m) # None => up.signer[e.version] = KeyOf(m))
        /\ ~r.update /\ l # None /\ Allowed(l.version) /\ Entry(l, h) # None =>
             \A e \in out.store \ s : e.version = l.version /\ e.file = Entry(l, h).file
    BY <1>1, <2>1 DEF AddedTried
  <2> QED BY <1>1, <2>1, <2>2, LockStays
<1>2. AddedTried(h, r, l, s, s)
  BY DEF AddedTried
<1> DEFINE got == Install(h, r, l, s)
<1>3. /\ StoreFits(h, got.store) /\ AddedTried(h, r, l, s, got.store)
      /\ got.err = "none" => CommandFits(h, r, l, s, got)
  BY InstallGives
<1>4. \/ out = Outcome(l, s, "none") \/ out = Outcome(l, s, "failed")
      \/ out = Outcome(l, got.store, "failed")
      \/ got.err = "none" /\ out = got
  BY DEF Command, Settled
<1> HIDE DEF got
<1> QED BY <1>1, <1>2, <1>3, <1>4

-----------------------------------------------------------------------------
(* The invariant is one, and what follows.                                 *)

LEMMA RequestsAre ==
    ASSUME setting \in Settings
    PROVE  setting.requests \subseteq Requests /\ SignersOf(setting) \subseteq Keys \cup {None}
<1>1. setting.requests \subseteq Requests /\ setting.keys \subseteq Keys
  BY PinsAssumption
<1>2. \A m \in setting.manifests : m.key \in Keys \cup {None}
  BY ManifestIs
<1> QED BY <1>1, <1>2 DEF SignersOf

LEMMA RunGives ==
    ASSUME PinsInv, NEW h \in Hosts, NEW r \in setting.requests, Run(h, r)
    PROVE  \E got : /\ CommandFits(h, r, lock, store[h], got)
                    /\ lock' = got.lock /\ store' = [store EXCEPT ![h] = got.store]
                    /\ store'[h] = got.store
                    /\ UNCHANGED <<setting, up, listKey, listVersion>>
<1>1. PICK got : /\ got = Command(h, r, lock, store[h])
                 /\ lock' = got.lock /\ store' = [store EXCEPT ![h] = got.store]
                 /\ UNCHANGED <<setting, up, listKey, listVersion>>
  BY DEF Run
<1>2. /\ World /\ r \in Requests /\ lock \in Locks \cup {None} /\ LockFits(lock) /\ StoreFits(h, store[h])
      /\ DOMAIN store = Hosts
  BY RequestsAre DEF PinsInv, World
<1>3. CommandFits(h, r, lock, store[h], got)
  BY <1>1, <1>2, CommandGives
<1> QED BY <1>1, <1>2, <1>3

LEMMA InitInv == ASSUME Init PROVE PinsInv
<1>1. PICK m \in setting.manifests, k \in SignersOf(setting) :
        up = [manifest |-> m, newest |-> 1, young |-> FALSE, changes |-> 0,
              upload |-> [v \in Versions |-> 1], signer |-> [v \in Versions |-> k]]
  BY DEF Init
<1>2. setting \in Settings /\ listKey = None /\ listVersion = None /\ lock = None /\ store = [h \in Hosts |-> {}]
  BY DEF Init
<1>3. m \in Manifests /\ k \in Keys \cup {None} /\ setting.changes \in Nat
  BY <1>2, ManifestIs, RequestsAre, PinsAssumption
<1>4. 1 \in Versions /\ 1 \in 1..MaxUpload
  BY PinsAssumption DEF Versions
<1>5. up \in Ups /\ up.manifest \in setting.manifests /\ up.changes \in 0..setting.changes
  BY <1>1, <1>3, <1>4 DEF Ups
<1> QED BY <1>2, <1>5 DEF PinsInv, World, LockFits, StoreFits

LEMMA UpIs ==
    ASSUME PinsInv, up' \in Ups, up'.manifest \in setting.manifests, up'.changes \in 0..setting.changes,
           UNCHANGED <<setting, listKey, listVersion, lock, store>>
    PROVE  PinsInv'
BY DEF PinsInv, World, LockFits, EntryFits, Covered, StoreFits, Ups, Manifests, Entries, Locks, Stored

LEMMA UpsKeep ==
    ASSUME up \in Ups
    PROVE  /\ up.manifest \in Manifests /\ up.newest \in Versions /\ up.young \in BOOLEAN /\ up.changes \in Nat
           /\ up.upload \in [Versions -> 1..MaxUpload] /\ up.signer \in [Versions -> Keys \cup {None}]
           /\ \A k \in Keys \cup {None}, v \in Versions :
                 [up.signer EXCEPT ![v] = k] \in [Versions -> Keys \cup {None}]
           /\ \A n \in 1..MaxUpload, v \in Versions : [up.upload EXCEPT ![v] = n] \in [Versions -> 1..MaxUpload]
BY DEF Ups

LEMMA NextInv == ASSUME PinsInv, [Next]_vars PROVE PinsInv'
<1> USE DEF PinsInv
<1>1. ASSUME NEW h \in Hosts, NEW r \in setting.requests, Run(h, r) PROVE PinsInv'
  <2>1. PICK got : /\ CommandFits(h, r, lock, store[h], got)
                   /\ lock' = got.lock /\ store' = [store EXCEPT ![h] = got.store]
                   /\ store'[h] = got.store
                   /\ UNCHANGED <<setting, up, listKey, listVersion>>
    BY <1>1, RunGives
  <2>2. lock' \in Locks \cup {None} /\ LockFits(got.lock) /\ StoreFits(h, got.store)
    BY <2>1 DEF CommandFits
  <2>3. World'
    BY <2>1 DEF World, Ups
  <2>4. LockFits(lock)'
    BY <2>1, <2>2 DEF LockFits, EntryFits, Covered
  <2>5. DOMAIN store' = Hosts /\ \A g \in Hosts : StoreFits(g, store'[g])
    BY <2>1, <2>2
  <2>6. \A g \in Hosts : StoreFits(g, store[g])'
    BY <2>5 DEF StoreFits
  <2> QED BY <2>2, <2>3, <2>4, <2>5, <2>6
<1>2. up \in Ups /\ setting.changes \in Nat /\ setting.keys \subseteq Keys /\ setting.constraints \subseteq Versions
  BY PinsAssumption DEF World
<1>3. ASSUME NEW k \in SignersOf(setting), Release(k) PROVE PinsInv'
  <2>1. k \in Keys \cup {None}
    BY RequestsAre DEF World
  <2>2. up.newest + 1 \in Versions /\ up.newest + 1 <= MaxVersion
    BY <1>2, <1>3, PinsAssumption DEF Release, Ups, Versions
  <2>3. up' = [manifest |-> up.manifest, newest |-> up.newest + 1, young |-> TRUE,
                         changes |-> up.changes, upload |-> up.upload,
                         signer |-> [up.signer EXCEPT ![up.newest + 1] = k]]
    BY <1>2, <1>3 DEF Release, Ups
  <2>4. up' \in Ups /\ up'.manifest = up.manifest /\ up'.changes = up.changes
    <3>1. [up.signer EXCEPT ![up.newest + 1] = k] \in [Versions -> Keys \cup {None}]
      BY <1>2, <2>1, <2>2, UpsKeep
    <3> QED BY <1>2, <2>2, <2>3, <3>1, UpsKeep DEF Ups
  <2> QED BY <1>3, <2>4, UpIs DEF Release, World
<1>4. ASSUME NEW k \in SignersOf(setting), NEW v \in Versions, Upload(v, k) PROVE PinsInv'
  <2>1. k \in Keys \cup {None}
    BY RequestsAre DEF World
  <2>2. up.upload[v] + 1 \in 1..MaxUpload
    BY <1>2, <1>4, PinsAssumption DEF Upload, Ups
  <2>3. up' = [manifest |-> up.manifest, newest |-> up.newest, young |-> up.young,
                         changes |-> up.changes + 1, upload |-> [up.upload EXCEPT ![v] = up.upload[v] + 1],
                         signer |-> [up.signer EXCEPT ![v] = k]]
    BY <1>2, <1>4 DEF Upload, Ups
  <2>4. up.changes + 1 \in 0..setting.changes /\ up.changes + 1 \in Nat
    BY <1>2, <1>4 DEF Upload, Ups
  <2>5. up' \in Ups /\ up'.manifest = up.manifest /\ up'.changes = up.changes + 1
    <3>1. [up.signer EXCEPT ![v] = k] \in [Versions -> Keys \cup {None}]
      BY <1>2, <2>1, UpsKeep
    <3>2. [up.upload EXCEPT ![v] = up.upload[v] + 1] \in [Versions -> 1..MaxUpload]
      BY <1>2, <2>2, UpsKeep
    <3> QED BY <1>2, <2>3, <2>4, <3>1, <3>2, UpsKeep DEF Ups
  <2> QED BY <1>4, <2>4, <2>5, UpIs DEF Upload, World
<1>5. ASSUME Age PROVE PinsInv'
  <2>1. up' \in Ups /\ up'.manifest = up.manifest /\ up'.changes = up.changes
    <3>1. up' = [manifest |-> up.manifest, newest |-> up.newest, young |-> FALSE,
                           changes |-> up.changes, upload |-> up.upload, signer |-> up.signer]
      BY <1>2, <1>5 DEF Age, Ups
    <3> QED BY <1>2, <3>1, UpsKeep DEF Ups
  <2> QED BY <1>5, <2>1, UpIs DEF Age, World
<1>6. ASSUME NEW m \in setting.manifests, ChangeManifest(m) PROVE PinsInv'
  <2>1. up.changes + 1 \in 0..setting.changes
    BY <1>2, <1>6 DEF ChangeManifest, Ups
  <2>2. up' \in Ups /\ up'.manifest = m /\ up'.changes = up.changes + 1
    <3>1. up' = [manifest |-> m, newest |-> up.newest, young |-> up.young,
                           changes |-> up.changes + 1, upload |-> up.upload, signer |-> up.signer]
      BY <1>2, <1>6 DEF ChangeManifest, Ups
    <3>2. m \in Manifests /\ up.changes + 1 \in Nat
      BY <1>2, ManifestIs, UpsKeep DEF World
    <3> QED BY <1>2, <3>1, <3>2, UpsKeep DEF Ups
  <2> QED BY <1>6, <2>1, <2>2, UpIs DEF ChangeManifest
<1>7. ASSUME NEW k \in setting.keys \cup {None}, NEW v \in setting.constraints \cup {None}, EditList(k, v)
      PROVE  PinsInv'
  BY <1>2, <1>7 DEF EditList, World, LockFits, EntryFits, Covered, StoreFits
<1>8. ASSUME NEW h \in Hosts, Clear(h) PROVE PinsInv'
  <2>1. UNCHANGED <<setting, up, listKey, listVersion, lock>> /\ store' = [store EXCEPT ![h] = {}]
    BY <1>8 DEF Clear
  <2>2. World' /\ LockFits(lock)'
    BY <2>1 DEF World, LockFits, EntryFits, Covered
  <2>3. DOMAIN store' = Hosts /\ \A g \in Hosts : StoreFits(g, store'[g])
    BY <2>1 DEF StoreFits
  <2>4. \A g \in Hosts : StoreFits(g, store[g])'
    BY <2>3 DEF StoreFits
  <2> QED BY <2>1, <2>2, <2>3, <2>4
<1>9. CASE UNCHANGED vars
  BY <1>9 DEF vars, World, LockFits, EntryFits, Covered, StoreFits
<1> QED BY <1>1, <1>3, <1>4, <1>5, <1>6, <1>7, <1>8, <1>9 DEF Next

LEMMA InvHolds == Spec => []PinsInv
<1>1. Init => PinsInv
  BY InitInv
<1>2. PinsInv /\ [Next]_vars => PinsInv'
  BY NextInv
<1> QED BY <1>1, <1>2, PTL DEF Spec

(* The variables have their types in every state: what oku.lock and the    *)
(* stores hold are entries, locks and store paths (lock.go, store.go).     *)
THEOREM PinsTypes == Spec => []PinsTypeOK
<1>1. PinsInv => PinsTypeOK
  BY DEF PinsInv, PinsTypeOK, World, Ups, StoreFits
<1> QED BY <1>1, InvHolds, PTL

(* A sync, of any machine and in any order with updates, uploads and edits *)
(* of the list, leaves the version, the manifest and the pins of downloads *)
(* of a lock that pins the machine, and loads only the pinned file         *)
(* (Install and lockOthers, install.go).                                   *)
THEOREM SyncIsKept == Spec => SyncHolds
<1>1. ASSUME PinsInv, NEW h \in Hosts, NEW r \in setting.requests, Run(h, r), Sync(r), Pinned(h)
      PROVE  PinsStay /\ \A e \in Added(h) : e.version = lock.version /\ e.file = lock.platforms[h].file
  <2>1. PICK got : /\ CommandFits(h, r, lock, store[h], got)
                   /\ lock' = got.lock /\ store'[h] = got.store
    BY <1>1, RunGives
  <2>2. \A p \in Hosts : Entry(lock, p) = lock.platforms[p]
    BY <1>1 DEF Pinned, Entry
  <2> QED BY <1>1, <2>1, <2>2 DEF CommandFits, Sync, Pinned, PinsStay, Added
<1> DEFINE Keeps1 == \A h \in Hosts, r \in setting.requests : Sync(r) /\ Pinned(h) /\ ~PinsStay => ~Run(h, r)
           Loads1 == \A h \in Hosts, r \in setting.requests :
                       /\ Sync(r) /\ Pinned(h)
                       /\ \E e \in Added(h) : e.version # lock.version \/ e.file # lock.platforms[h].file
                       => ~Run(h, r)
<1>2. PinsInv => [Keeps1]_<<lock, store>>
  BY <1>1
<1>3. PinsInv => [Loads1]_<<lock, store>>
  BY <1>1
<1>4. []PinsInv => SyncKeepsLock
  BY <1>2, PTL DEF SyncKeepsLock
<1>5. []PinsInv => LockedDownloads
  BY <1>3, PTL DEF LockedDownloads
<1> QED BY <1>4, <1>5, InvHolds, PTL DEF SyncHolds

(* No command weakens a check, pins at first use what is not trusted, or   *)
(* loads what another key signed, unless the request says so               *)
(* (checkVerified, checkKey and Taken's trust, install.go).                *)
THEOREM GuardsAreKept == Spec => GuardsHold
<1> DEFINE Weak(h, r) == \E p \in Hosts : /\ lock'.platforms[p] # None /\ ~Relabels(h, r, p)
                                          /\ Weaker(lock'.platforms[p].verified, LockedCheck(lock, p))
           First(h) == \E p \in Hosts :
                         LET now == lock'.platforms[p]
                             was == Entry(lock, p)
                         IN  /\ now # None /\ now.verified = "first-use"
                             /\ was = None \/ was.file # now.file
                             /\ p = h /\ now.strategy = "build" =>
                                  \A e \in Builds(store[h], lock'.manifest, lock'.version) : e.file # now.file
           Loads(h) == \E e \in Added(h) : e.strategy = "artifact" /\ up.signer[e.version] # lock.key
<1>1. ASSUME PinsInv, NEW h \in Hosts, NEW r \in setting.requests, Run(h, r)
      PROVE  /\ ~r.weaker /\ lock # None => ~Weak(h, r)
             /\ ~Trusts(r) /\ lock' # None => ~First(h)
             /\ ~r.key /\ lock # None /\ lock.key # None /\ listKey \in {None, lock.key} => ~Loads(h)
  <2>1. PICK got : /\ CommandFits(h, r, lock, store[h], got)
                   /\ lock' = got.lock /\ store'[h] = got.store
    BY <1>1, RunGives
  <2>2. \A p \in Hosts : Entry(lock, p) # None => lock # None /\ lock.platforms[p] # None
    BY DEF Entry
  <2>3. ASSUME ~r.weaker, lock # None, NEW p \in Hosts, lock'.platforms[p] # None, ~Relabels(h, r, p)
        PROVE  ~Weaker(lock'.platforms[p].verified, LockedCheck(lock, p))
    BY <2>1, <2>2, <2>3 DEF CommandFits, Relabels
  <2>4. ASSUME ~Trusts(r), lock' # None, NEW p \in Hosts, lock'.platforms[p] # None,
               lock'.platforms[p].verified = "first-use"
        PROVE  Known(h, lock, lock'.manifest, lock'.version, store[h], p, lock'.platforms[p])
    BY <2>1, <2>4 DEF CommandFits
  <2>5. ASSUME ~r.key, lock # None, lock.key # None, listKey \in {None, lock.key},
               NEW e \in Added(h), e.strategy = "artifact"
        PROVE  up.signer[e.version] = lock.key
    <3>1. PICK m : KeyHolds(r, lock, m) /\ (KeyOf(m) # None => up.signer[e.version] = KeyOf(m))
      BY <2>1, <2>5 DEF CommandFits, Added
    <3> QED BY <2>5, <3>1 DEF KeyHolds, KeyOf
  <2>6. ~r.weaker /\ lock # None => ~Weak(h, r)
    BY <2>3
  <2>7. ~Trusts(r) /\ lock' # None => ~First(h)
    BY <2>4 DEF Known
  <2>8. ~r.key /\ lock # None /\ lock.key # None /\ listKey \in {None, lock.key} => ~Loads(h)
    BY <2>5
  <2> QED BY <2>6, <2>7, <2>8
<1>2. []PinsInv => ChecksHold
  <2>1. PinsInv =>
      [\A h \in Hosts, r \in setting.requests :
          /\ ~r.weaker /\ lock # None
          /\ \E p \in Hosts : /\ lock'.platforms[p] # None /\ ~Relabels(h, r, p)
                              /\ Weaker(lock'.platforms[p].verified, LockedCheck(lock, p))
          => ~Run(h, r)]_<<lock, store>>
    BY <1>1
  <2> QED BY <2>1, PTL DEF ChecksHold
<1>3. []PinsInv => FirstUseRefused
  <2>1. PinsInv =>
      [\A h \in Hosts, r \in setting.requests :
          /\ ~Trusts(r) /\ lock' # None
          /\ \E p \in Hosts : LET now == lock'.platforms[p]
                                   was == Entry(lock, p)
                              IN  /\ now # None /\ now.verified = "first-use"
                                  /\ was = None \/ was.file # now.file
                                  /\ p = h /\ now.strategy = "build" =>
                                         \A e \in Builds(store[h], lock'.manifest, lock'.version) : e.file # now.file
          => ~Run(h, r)]_<<lock, store>>
    BY <1>1
  <2> QED BY <2>1, PTL DEF FirstUseRefused
<1>4. []PinsInv => KeyGuards
  <2>1. PinsInv =>
      [\A h \in Hosts, r \in setting.requests :
          /\ ~r.key /\ lock # None /\ lock.key # None /\ listKey \in {None, lock.key}
          /\ \E e \in Added(h) : e.strategy = "artifact" /\ up.signer[e.version] # lock.key
          => ~Run(h, r)]_<<lock, store>>
    BY <1>1
  <2> QED BY <2>1, PTL DEF KeyGuards
<1> QED BY <1>2, <1>3, <1>4, InvHolds, PTL DEF GuardsHold

-----------------------------------------------------------------------------
(* A sync --locked where upstream serves what is pinned.                   *)

\* A sync --locked on machine h that oku.lock pins, while upstream serves what is pinned.
Served(h, r) ==
    /\ r.frozen /\ Sync(r) /\ ~r.rebuild
    /\ Pinned(h)
    /\ \A p \in Others(h) : lock.platforms[p] # None
    /\ \A p \in Hosts : lock.platforms[p] # None => lock.platforms[p].file = Current(lock.version)
    /\ BuiltFrom(h, lock.manifest, Current(lock.version))
    /\ setting.commits \/ up.manifest = lock.manifest
    /\ KeyOf(lock.manifest) = lock.key /\ lock.key \in {None, up.signer[lock.version]}

LEMMA TakenAgain ==
    ASSUME NEW r, NEW l, NEW h, NEW strategy, NEW pinned, NEW check, NEW s, NEW got,
           CheckVerified(r, l, h, check), pinned # None, got.err = "none",
           NEW res, res = Taken(r, l, h, strategy, pinned, check, s, got)
    PROVE  res.err = "none" /\ res.entry = NewEntry(strategy, got.file, check) /\ res.store = got.store
BY DEF Taken, Ended

\* What the release and the stated digests are for a machine that takes what is locked.
LEMMA ServedIs ==
    ASSUME PinsInv, NEW h \in setting.when, NEW r \in setting.requests, Served(h, r),
           NEW rel, rel = LockedRelease(lock)
    PROVE  /\ lock \in Locks /\ lock.manifest \in setting.manifests
           /\ Fetched("sync", lock) = lock.manifest /\ Picked(r, "sync", lock) = rel /\ rel # NoRelease
           /\ rel \in Rels /\ rel.version = lock.version /\ ~rel.digests
           /\ ManifestHolds("sync", lock, lock.manifest) /\ KeyHolds(r, lock, lock.manifest)
           /\ \A p \in Hosts : lock.platforms[p] # None =>
                /\ Entry(lock, p) = lock.platforms[p] /\ lock.platforms[p] \in Entries
                /\ EntryFits(lock.manifest, p, lock.platforms[p])
                /\ lock.platforms[p].file = Current(lock.version)
                /\ Stated(lock.manifest, rel, p) \in {None, Current(lock.version)}
                /\ \A now : now = lock.platforms[p].verified => CheckVerified(r, lock, p, now)
           /\ Current(lock.version) \in Files /\ Current(lock.version) # None
<1>1. World /\ LockFits(lock) /\ lock \in Locks \cup {None} /\ lock # None /\ Allowed(lock.version)
  BY DEF PinsInv, Served, Pinned
<1>2. lock \in Locks /\ lock.manifest \in setting.manifests /\ lock.manifest.key \in {None, lock.key}
  BY <1>1 DEF LockFits
<1>3. lock.version \in Versions
  BY <1>2, LockIs
<1>4. Fetched("sync", lock) = lock.manifest
  BY <1>1 DEF Fetched, Keeps, Served
<1>5. Picked(r, "sync", lock) = rel
  BY <1>1 DEF Picked, Keeps
<1>6. rel \in Rels /\ rel.version = lock.version /\ ~rel.digests
  BY <1>3 DEF LockedRelease, Rels
<1>7. rel # NoRelease
  BY <1>3, <1>6, NoneIs DEF NoRelease
<1>8. KeyHolds(r, lock, lock.manifest)
  BY <1>2 DEF KeyHolds, Served, KeyOf
<1>9. Current(lock.version) \in Files /\ Current(lock.version) # None
  BY <1>1, <1>3, CurrentIs, NoneIs
<1>10. ASSUME NEW p \in Hosts, lock.platforms[p] # None
       PROVE  /\ Entry(lock, p) = lock.platforms[p] /\ lock.platforms[p] \in Entries
              /\ EntryFits(lock.manifest, p, lock.platforms[p])
              /\ lock.platforms[p].file = Current(lock.version)
              /\ Stated(lock.manifest, rel, p) \in {None, Current(lock.version)}
              /\ \A now : now = lock.platforms[p].verified => CheckVerified(r, lock, p, now)
  <2>1. EntryFits(lock.manifest, p, lock.platforms[p]) /\ Entry(lock, p) = lock.platforms[p]
    BY <1>1, <1>10 DEF LockFits, Entry
  <2>2. lock.platforms[p] \in Entries /\ lock.platforms[p].file = Current(lock.version)
    BY <2>1, <1>10 DEF EntryFits, Served
  <2>3. Stated(lock.manifest, rel, p) \in {None, Current(lock.version)}
    <3>1. CASE lock.manifest.states[p] = "digest"
      <4>1. lock.manifest.sha = Current(lock.version)
        BY <3>1, <2>1, <2>2 DEF EntryFits
      <4>2. Stated(lock.manifest, rel, p) = lock.manifest.sha
        BY <3>1 DEF Stated, Sha
      <4> QED BY <4>1, <4>2
    <3>2. CASE lock.manifest.states[p] # "digest"
      BY <3>2, <1>6 DEF Stated, Sha
    <3> QED BY <3>1, <3>2
  <2>4. ~Weaker(Entry(lock, p).verified, LockedCheck(lock, p))
    BY <1>1, <2>1, <1>10, LockedCheckIs
  <2> QED BY <2>1, <2>2, <2>3, <2>4 DEF CheckVerified
<1> QED BY <1>2, <1>4, <1>5, <1>6, <1>7, <1>8, <1>9, <1>10 DEF ManifestHolds

LEMMA RealizeAgain ==
    ASSUME NEW h, NEW m, NEW rel, NEW key, NEW s, Current(rel.version) # None,
           Stated(m, rel, h) \in {None, Current(rel.version)}, key \in {None, up.signer[rel.version]},
           NEW got, got = Realize(h, m, rel, key, Current(rel.version), s)
    PROVE  got.err = "none" /\ got.file = Current(rel.version)
<1> DEFINE f == Current(rel.version)
<1>1. \E first, t : got = Got(f, first, t)
  BY DEF Realize
<1> QED BY <1>1 DEF Got

LEMMA BuildAgain ==
    ASSUME NEW h, NEW m, NEW rel, NEW s, Current(rel.version) # None,
           Stated(m, rel, h) \in {None, Current(rel.version)},
           \A e \in Builds(s, m, rel.version) : e.file = Current(rel.version),
           NEW r, ~r.rebuild
    PROVE  /\ Build(h, m, rel, Current(rel.version), r.rebuild, s).err = "none"
           /\ Build(h, m, rel, Current(rel.version), r.rebuild, s).file = Current(rel.version)
<1> DEFINE f == Current(rel.version)
           got == Build(h, m, rel, f, r.rebuild, s)
<1>1. CASE Builds(s, m, rel.version) # {}
  <2>1. PICK e \in Builds(s, m, rel.version) : e = CHOOSE b \in Builds(s, m, rel.version) : TRUE
    BY <1>1
  <2>2. got = Got(e.file, FALSE, s)
    BY <1>1, <2>1 DEF Build
  <2>3. e.file = f
    OBVIOUS
  <2> QED BY <2>2, <2>3 DEF Got
<1>2. CASE Builds(s, m, rel.version) = {}
  <2>1. \E first, t : got = Got(f, first, t)
    BY <1>2 DEF Build
  <2>2. PICK first, t : got = Got(f, first, t)
    BY <2>1
  <2> QED BY <2>2 DEF Got
<1> QED BY <1>1, <1>2

LEMMA PinForAgain ==
    ASSUME PinsInv, NEW h \in setting.when, NEW r \in setting.requests, Served(h, r),
           NEW p \in Hosts, lock.platforms[p] # None, NEW host, NEW kept, kept[p] = lock.platforms[p],
           NEW res, res = PinFor(p, r, "sync", lock, lock.manifest, LockedRelease(lock), kept, host)
    PROVE  res.err = "none" /\ res.entry = lock.platforms[p]
<1> DEFINE m == lock.manifest
           rel == LockedRelease(lock)
           at == lock.platforms[p]
<1>1. /\ at \in Entries /\ EntryFits(m, p, at) /\ at.file = Current(lock.version)
      /\ Stated(m, rel, p) \in {None, Current(lock.version)}
      /\ CheckVerified(r, lock, p, at.verified) /\ Current(lock.version) # None
  BY ServedIs
<1>2. at # None /\ at.strategy \in {"artifact", "build"} /\ kept[p] = at
  BY <1>1, EntryType DEF Strategies
<1> HIDE DEF at, m, rel
<1>3. CASE at.strategy = "artifact"
  <2>1. ~setting.fromSource
    BY <1>1, <1>3 DEF EntryFits
  <2>2. res = Ended(at, {}, "none")
    BY <2>1, <1>2, <1>3 DEF PinFor, m, rel
  <2> QED BY <2>2, EndedIs DEF at
<1>4. CASE at.strategy = "build"
  <2> DEFINE by == VerifiedBy(m, rel, p, None)
             got == PinBuild(p, m, rel, at.file)
             here == host # None /\ host.strategy = "build"
  <2>1. p \in m.builds
    BY <1>1, <1>4 DEF EntryFits
  <2>2. res = PinnedFor(p, r, lock, FALSE, "build", PinVerified(by, TRUE, at), here, got)
    BY <2>1, <1>2, <1>4 DEF PinFor, m, rel
  <2>3. PinVerified(by, TRUE, at) = at.verified
    BY DEF PinVerified
  <2>4. got = Got(at.file, FALSE, {})
    BY <1>1 DEF PinBuild
  <2>5. got.err = "none" /\ got.first = FALSE /\ got.file = at.file
    BY <2>4 DEF Got
  <2> HIDE DEF got, by, here
  <2>6. res = Ended(NewEntry("build", at.file, at.verified), {}, "none")
    BY <2>2, <2>3, <2>5, <1>1 DEF PinnedFor
  <2>7. NewEntry("build", at.file, at.verified) = at
    BY <1>1, <1>4, EntryAgain
  <2> QED BY <2>6, <2>7, EndedIs DEF at
<1> QED BY <1>2, <1>3, <1>4

LEMMA HereAgain ==
    ASSUME PinsInv, NEW h \in setting.when, h \in Hosts, NEW r \in setting.requests, Served(h, r),
           NEW res, res = InstallHere(h, r, "sync", lock, lock.manifest, LockedRelease(lock), store[h])
    PROVE  res.err = "none" /\ res.entry = lock.platforms[h]
<1> DEFINE m == lock.manifest
           rel == LockedRelease(lock)
           at == lock.platforms[h]
           f == Current(lock.version)
           s == store[h]
<1>1. /\ at \in Entries /\ EntryFits(m, h, at) /\ at.file = f /\ Entry(lock, h) = at
      /\ Stated(m, rel, h) \in {None, f}
      /\ CheckVerified(r, lock, h, at.verified) /\ f # None
      /\ rel.version = lock.version
  BY ServedIs DEF Served, Pinned
<1>2. at # None /\ at.strategy \in {"artifact", "build"}
  BY <1>1, EntryType DEF Strategies
<1>3. ~r.rebuild /\ KeyOf(m) \in {None, up.signer[lock.version]}
      /\ \A e \in Builds(s, m, rel.version) : e.file = f
  <2>1. f[1] = lock.version
    BY DEF Current
  <2>2. BuiltFrom(h, m, f)
    BY DEF Served
  <2> HIDE DEF f
  <2> QED BY <1>1, <2>1, <2>2 DEF Served, BuiltFrom
<1> HIDE DEF at, m, rel, s
<1>4. CASE at.strategy = "artifact"
  <2> DEFINE key == KeyOf(m)
             got == Realize(h, m, rel, key, f, s)
             by == VerifiedBy(m, rel, h, key)
  <2>1. ~setting.fromSource /\ h \in m.arts
    BY <1>1, <1>4 DEF EntryFits
  <2>2. PinnedBy(lock, h, rel.version, "artifact") = f /\ PinnedBy(lock, h, rel.version, "build") = None
    BY <1>1, <1>2, <1>4 DEF PinnedBy
  <2>3. ~IsBuild(h, m, rel, lock)
    BY <2>1, <2>2 DEF IsBuild
  <2>4. res = Download(h, r, "sync", lock, m, rel, s)
    BY <2>3, <1>3 DEF InstallHere, m, rel, s
  <2>5. PinVerified(by, f # None, at) = at.verified
    BY <1>1 DEF PinVerified
  <2>6. got.err = "none" /\ got.file = f
    BY <1>1, <1>3, RealizeAgain
  <2> HIDE DEF got, by, key, f
  <2>7. res = Taken(r, lock, h, "artifact", f, at.verified, s, got)
    BY <2>2, <2>4, <2>5, <1>1 DEF Download, got, by, key
  <2>8. res.err = "none" /\ res.entry = NewEntry("artifact", f, at.verified)
    BY <2>6, <2>7, <1>1, TakenAgain
  <2> QED BY <2>8, <1>1, <1>4, EntryAgain DEF at
<1>5. CASE at.strategy = "build"
  <2> DEFINE got == Build(h, m, rel, f, r.rebuild, s)
             by == VerifiedBy(m, rel, h, None)
  <2>1. h \in m.builds
    BY <1>1, <1>5 DEF EntryFits
  <2>2. PinnedBy(lock, h, rel.version, "build") = f
    BY <1>1, <1>2, <1>5 DEF PinnedBy
  <2>3. IsBuild(h, m, rel, lock)
    BY <2>2, <1>1 DEF IsBuild
  <2>4. res = BuildHere(h, r, "sync", lock, m, rel, s)
    BY <2>1, <2>3, <1>3 DEF InstallHere, m, rel, s
  <2>5. PinVerified(by, f # None, at) = at.verified
    BY <1>1 DEF PinVerified
  <2>6. got.err = "none" /\ got.file = f
    <3>1. f = Current(rel.version)
      BY <1>1
    <3>2. Current(rel.version) # None /\ Stated(m, rel, h) \in {None, Current(rel.version)}
          /\ \A e \in Builds(s, m, rel.version) : e.file = Current(rel.version)
      BY <1>1, <1>3
    <3>3. got = Build(h, m, rel, Current(rel.version), r.rebuild, s)
      BY <3>1
    <3> HIDE DEF got, f
    <3>4. ~r.rebuild
      BY <1>3
    <3>5. /\ Build(h, m, rel, Current(rel.version), r.rebuild, s).err = "none"
          /\ Build(h, m, rel, Current(rel.version), r.rebuild, s).file = Current(rel.version)
      BY <3>2, <3>4, BuildAgain
    <3> QED BY <3>1, <3>3, <3>5
  <2> HIDE DEF got, by, f
  <2>7. res = Taken(r, lock, h, "build", f, at.verified, s, got)
    BY <2>2, <2>4, <2>5, <1>1 DEF BuildHere, got, by
  <2>8. res.err = "none" /\ res.entry = NewEntry("build", f, at.verified)
    BY <2>6, <2>7, <1>1, TakenAgain
  <2> QED BY <2>8, <1>1, <1>5, EntryAgain DEF at
<1> QED BY <1>2, <1>4, <1>5

LEMMA LockAgain ==
    ASSUME NEW l \in Locks, NEW platforms, platforms = l.platforms
    PROVE  [manifest |-> l.manifest, version |-> l.version, key |-> l.key, platforms |-> platforms] = l
BY DEF Locks

LEMMA OthersAgain ==
    ASSUME PinsInv, NEW h \in setting.when, h \in Hosts, NEW r \in setting.requests, Served(h, r),
           NEW s, NEW out,
           out = LockOthers(h, r, "sync", lock, lock.manifest, LockedRelease(lock), lock.platforms[h], s)
    PROVE  out.err = "none" /\ out.lock = lock
<1> DEFINE m == lock.manifest
           rel == LockedRelease(lock)
           host == lock.platforms[h]
           kept == [Kept(lock, m, rel.version) EXCEPT ![h] = IF host # None THEN host ELSE @]
           pins == [p \in Hosts |-> PinFor(p, r, "sync", lock, m, rel, kept, host)]
           at(p) == IF p \in Others(h) THEN pins[p].entry ELSE kept[p]
           platforms == [p \in Hosts |-> at(p)]
           new == [manifest |-> m, version |-> rel.version, key |-> KeyOf(m), platforms |-> platforms]
<1>1. lock \in Locks /\ rel.version = lock.version /\ KeyOf(m) = lock.key /\ lock # None
  BY ServedIs DEF Served, Pinned
<1>2. lock.platforms \in [Hosts -> Entries \cup {None}]
  BY <1>1, LockIs
<1>3. kept = lock.platforms
  <2>1. Kept(lock, m, rel.version) = lock.platforms
    BY <1>1 DEF Kept
  <2> HIDE DEF m, rel
  <2> QED BY <2>1, <1>2
<1> HIDE DEF kept
<1>4. \A p \in Others(h) : p \in Hosts /\ lock.platforms[p] # None
  BY SettingIs DEF Others, Served, PinsInv, World
<1>5. ASSUME NEW p \in Others(h) PROVE pins[p].err = "none" /\ pins[p].entry = lock.platforms[p]
  <2>1. p \in Hosts /\ lock.platforms[p] # None /\ kept[p] = lock.platforms[p]
    BY <1>3, <1>4
  <2>2. pins[p] = PinFor(p, r, "sync", lock, m, rel, kept, host)
    BY <2>1
  <2> HIDE DEF pins, host
  <2> QED BY <2>1, <2>2, PinForAgain
<1>6. out = LockEntry(h, lock, m, rel, s, kept, pins)
  BY DEF LockOthers, kept
<1> HIDE DEF pins
<1>7. FirstError(h, pins) = "none"
  BY <1>5, FirstErrorIs DEF PinsInv, World
<1>8. out = Outcome(new, s, "none")
  BY <1>6, <1>7 DEF LockEntry
<1>9. platforms = lock.platforms
  <2>1. \A p \in Hosts : at(p) = lock.platforms[p]
    BY <1>3, <1>5
  <2> HIDE DEF at
  <2> QED BY <2>1, <1>2
<1> HIDE DEF platforms
<1>10. new = lock
  BY <1>1, <1>9, LockAgain
<1> HIDE DEF new
<1> QED BY <1>8, <1>10, OutcomeIs

(* sync --locked works on every machine that oku.lock pins, from whichever *)
(* machine the lock came, while upstream serves what it pins: what one     *)
(* machine writes for another the other one accepts (lockOthers and        *)
(* installHere, install.go).                                               *)
THEOREM LockedSyncsWork == Spec => []LockedSyncWorks
<1>1. ASSUME PinsInv, NEW h \in setting.when, NEW r \in setting.requests, Served(h, r)
      PROVE  Command(h, r, lock, store[h]).err = "none"
  <2> DEFINE m == lock.manifest
             rel == LockedRelease(lock)
             here == InstallHere(h, r, "sync", lock, m, rel, store[h])
             got == Attempt(h, r, "sync", lock, store[h])
  <2>1. h \in Hosts
    BY <1>1, SettingIs DEF PinsInv, World
  <2>2. /\ Fetched("sync", lock) = m /\ Picked(r, "sync", lock) = rel /\ rel # NoRelease
        /\ ManifestHolds("sync", lock, m) /\ KeyHolds(r, lock, m) /\ lock \in Locks
    BY <1>1, ServedIs
  <2>3. here.err = "none" /\ here.entry = lock.platforms[h]
    BY <1>1, <2>1, HereAgain
  <2> HIDE DEF here
  <2>4. got = LockOthers(h, r, "sync", lock, m, rel, lock.platforms[h], here.store)
    BY <2>2, <2>3 DEF Attempt, AttemptAt, ThenOthers, here
  <2>5. got.err = "none" /\ got.lock = lock
    BY <1>1, <2>1, <2>4, OthersAgain
  <2> HIDE DEF got
  <2>6. ~r.update /\ PinsHost(h, lock)
    BY <1>1, <2>2, LockIs DEF Served, Sync, Pinned, PinsHost, Entry
  <2>7. Install(h, r, lock, store[h]) = got
    BY <2>5, <2>6 DEF Install, Retried, OrLocked, got
  <2> QED BY <1>1, <2>5, <2>6, <2>7 DEF Command, Settled
<1>2. PinsInv => LockedSyncWorks
  BY <1>1 DEF LockedSyncWorks, Served
<1> QED BY <1>2, InvHolds, PTL

=============================================================================
