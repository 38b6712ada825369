------------------------------- MODULE Self -------------------------------
(***************************************************************************)
(* oku replaces itself, and takes itself off the machine.                  *)
(*                                                                         *)
(*   src/internal/cli/selfupdate.go  runSelfUpdate, oldEnoughRelease,      *)
(*                                   checkNightly, swapBinary              *)
(*   src/internal/cli/selfman.go     refreshManPages                       *)
(*   src/internal/cli/self.go        runUninstall, removeSharedRoot,       *)
(*                                   removeConfig                          *)
(*                                                                         *)
(* A nightly is one release whose files the workflow replaces one by one,  *)
(* so that an update reads them at moments between the uploads.  A version *)
(* is a release or a nightly with its number; the number of a nightly      *)
(* stands for its commit and its time.  A file is signed by the release    *)
(* key for the version it is of: forged files fail every check alike and   *)
(* are left out.  One update or uninstall runs at a time.                  *)
(***************************************************************************)
EXTENDS Naturals, FiniteSets

CONSTANTS
    MaxOwn,         \* bound on the releases of oku
    MaxNightlies,   \* bound on the nightlies
    Misplaced,      \* the releases whose files are those of the release before
    Exposed,        \* what oku placed outside its directories
    System,         \* the part of it in system scope
    Gone            \* no file

Versions == [kind : {"release", "nightly", "dev"}, n : Nat]
Binaries == [of : Versions, whole : BOOLEAN]

ASSUME SelfAssumption ==
    /\ MaxOwn \in Nat /\ MaxNightlies \in Nat
    /\ Misplaced \subseteq 2..MaxOwn
    /\ System \subseteq Exposed
    /\ Gone \notin Binaries

VARIABLES
    windows,    \* whether a running program cannot be replaced: it never changes
    released,   \* the number of the newest release
    aged,       \* the newest release that is as old as min_release_age
    nightly,    \* the commit of the nightly release and the build that each file is of
    exe,        \* the oku binary
    staged,     \* <executable>.new
    pages,      \* the version of the man pages
    update,        \* the update that runs
    items,      \* what is placed outside oku's directories
    ledger,     \* what the ledger in the data directory holds
    dirs,       \* the directories of oku that are there
    config,     \* the files in the config directory
    leaving     \* the uninstall that runs

upstream == <<windows, released, aged, nightly>>
binary == <<exe, staged, pages>>
placed == <<items, ledger, dirs, config, leaving>>
selfVars == <<upstream, binary, update, placed>>

Release(n) == [kind |-> "release", n |-> n]
Nightly(n) == [kind |-> "nightly", n |-> n]

Assets == {"bin", "sig", "sums", "sumsSig"}
OwnConfig == {"config.toml", "signing.key"}
ListFiles == {"oku.toml", "oku.lock"}

NoUpdate == [at |-> "idle"]

(* What --nightly, --release, --to and --min-release-age 0 choose between  *)
Flags == [kind : {"none", "nightly", "release", "now"}, n : {0}] \cup [kind : {"to"}, n : 1..MaxOwn]

-----------------------------------------------------------------------------
(* The upstream.                                                           *)
(* The workflow uploads the binaries, then the signed checksums, and moves *)
(* the release to the commit last; a push during it starts the next one.   *)
NewRelease == /\ released < MaxOwn /\ released' = released + 1
           /\ UNCHANGED <<windows, aged, nightly, binary, update, placed>>
ReleaseAges == /\ aged < released /\ aged' = aged + 1
       /\ UNCHANGED <<windows, released, nightly, binary, update, placed>>
UploadNightly ==
    /\ \E n \in 1..MaxNightlies, f \in Assets \cup {"commit"} :
        /\ n > nightly[f] /\ n \in nightly[f]..(nightly[f] + 1)
        /\ f \in {"sums", "sumsSig"} => nightly.bin >= n /\ nightly.sig >= n
        /\ f = "sums" => nightly.sumsSig >= n
        /\ f = "commit" => \A g \in Assets : nightly[g] >= n
        /\ nightly' = [nightly EXCEPT ![f] = n]
    /\ UNCHANGED <<windows, released, aged, binary, update, placed>>

-----------------------------------------------------------------------------
(* self update *)
NoneRuns == update = NoUpdate /\ leaving.at = "idle"

(* The newest release; while that one is too new, the newest that is old    *)
(* enough, and this oku's own when that one is not newer                    *)
OldEnoughRelease(running) ==
    IF aged = 0 \/ (running.kind = "release" /\ aged <= running.n) THEN running ELSE Release(aged)

FoundRelease(flag, running) ==
    CASE flag.kind = "nightly" -> Nightly(nightly.commit)
      [] flag.kind = "to" -> Release(flag.n)
      [] OTHER -> IF flag.kind = "now" \/ aged = released THEN Release(released) ELSE OldEnoughRelease(running)

(* The command reads the release and stops when it is the one that runs. A *)
(* nightly goes back to a release with a flag only.                        *)
Update(flag) ==
    /\ NoneRuns /\ exe # Gone
    /\ ~(exe.of.kind = "nightly" /\ flag.kind \in {"none", "now"})
    /\ flag.n <= released
    /\ LET found == FoundRelease(flag, exe.of) IN
        /\ found # exe.of
        /\ update' = [at |-> "bin", flag |-> flag, running |-> exe.of, found |-> found, held |-> aged < released,
                      bin |-> 0, sig |-> 0, sums |-> 0, sumsSig |-> 0]
    /\ UNCHANGED <<upstream, binary, placed>>

(* The build that the file f of the release is of when it is downloaded    *)
Served(f) == CASE update.found.kind = "nightly" -> nightly[f]
               [] update.found.n \in Misplaced -> update.found.n - 1
               [] OTHER -> update.found.n

AfterAsset(at) == CASE at = "bin" -> "sig" [] at = "sig" -> "verify" [] at = "sums" -> "sumsSig" [] at = "sumsSig" -> "check"

Fetch ==
    /\ update.at \in Assets
    /\ update' = [update EXCEPT ![update.at] = Served(update.at), !.at = AfterAsset(update.at)]
    /\ UNCHANGED <<upstream, binary, placed>>

(* The signature is of the binary, and its comment names the tag           *)
VerifyDetached == update.sig = update.bin /\ (update.found.kind = "nightly" \/ update.sig = update.found.n)

StopUpdate == /\ update' = NoUpdate
         /\ UNCHANGED <<upstream, binary, placed>>

VerifyBinary ==
    /\ update.at = "verify" /\ VerifyDetached
    /\ update' = [update EXCEPT !.at = IF update.found.kind = "nightly" THEN "sums" ELSE "stage"]
    /\ UNCHANGED <<upstream, binary, placed>>

(* NightlyHolds that does not look for the binary in the checksums         *)
NightlyHoldsUnlisted ==
    /\ update.sumsSig = update.sums
    /\ update.sums = update.found.n
    /\ update.running.kind = "nightly" => update.sums > update.running.n

(* The signed checksums are of the release's commit, newer than a nightly  *)
(* that runs, and list the binary                                          *)
NightlyHolds ==
    /\ update.sumsSig = update.sums
    /\ update.sums = update.found.n
    /\ update.running.kind = "nightly" => update.sums > update.running.n
    /\ update.sums = update.bin

CheckNightly ==
    /\ update.at = "check" /\ NightlyHolds
    /\ update' = [update EXCEPT !.at = "stage"]
    /\ UNCHANGED <<upstream, binary, placed>>

RefuseUpdate ==
    /\ (update.at = "verify" /\ ~VerifyDetached) \/ (update.at = "check" /\ ~NightlyHolds)
    /\ StopUpdate

(* swapBinary: the copy beside the binary, then on Windows the binary out   *)
(* of the way, then the rename                                             *)
Stage ==
    /\ update.at = "stage"
    /\ staged' = [of |-> [update.found EXCEPT !.n = update.bin], whole |-> FALSE] /\ update' = [update EXCEPT !.at = "copy"]
    /\ UNCHANGED <<upstream, exe, pages, placed>>
CopyStaged ==
    /\ update.at = "copy"
    /\ \/ staged' = [staged EXCEPT !.whole = TRUE] /\ update' = [update EXCEPT !.at = IF windows THEN "aside" ELSE "rename"]
       \/ staged' = Gone /\ update' = NoUpdate
    /\ UNCHANGED <<upstream, exe, pages, placed>>
Aside ==
    /\ update.at = "aside" /\ exe' = Gone /\ update' = [update EXCEPT !.at = "rename"]
    /\ UNCHANGED <<upstream, staged, pages, placed>>
SwapBinary ==
    /\ update.at = "rename"
    /\ exe' = staged /\ staged' = Gone /\ update' = [update EXCEPT !.at = "pages"]
    /\ UNCHANGED <<upstream, pages, placed>>

(* The old pages go, and the new binary writes its own; a failure is said  *)
RefreshManPages ==
    /\ update.at = "pages" /\ update' = NoUpdate
    /\ IF windows THEN pages' = pages ELSE pages' \in {pages, Gone, exe.of}
    /\ UNCHANGED <<upstream, exe, staged, placed>>

(* A request or a step that fails, or a kill, ends the update where it is  *)
EndUpdate == update # NoUpdate /\ update.at # "pages" /\ StopUpdate

-----------------------------------------------------------------------------
(* self uninstall *)
Uninstall(keep, system) ==
    /\ NoneRuns /\ exe # Gone
    /\ leaving' = [at |-> "items", keep |-> keep, system |-> system, lists |-> config \cap ListFiles]
    /\ UNCHANGED <<upstream, binary, update, items, ledger, dirs, config>>

Stay == IF leaving.system THEN {} ELSE ledger \cap System

(* Sync takes an item off the machine and then writes the ledger           *)
RemoveItem(i) ==
    /\ leaving.at = "items" /\ i \in (ledger \ Stay) \cap items
    /\ items' = items \ {i}
    /\ UNCHANGED <<upstream, binary, update, ledger, dirs, config, leaving>>
ForgetItem(i) ==
    /\ leaving.at = "items" /\ i \in (ledger \ Stay) \ items
    /\ ledger' = ledger \ {i}
    /\ UNCHANGED <<upstream, binary, update, items, dirs, config, leaving>>

Removes(at, then) == leaving.at = at /\ leaving' = [leaving EXCEPT !.at = then]

ItemsGone ==
    /\ Removes("items", "cache") /\ ledger \subseteq Stay
    /\ UNCHANGED <<upstream, binary, update, items, ledger, dirs, config>>

(* The lock is given up, and the cache and the data directory go, with the *)
(* ledger in it                                                            *)
RemoveCache ==
    /\ Removes("cache", "data") /\ dirs' = dirs \ {"cache"}
    /\ UNCHANGED <<upstream, binary, update, items, ledger, config>>
RemoveData ==
    /\ Removes("data", "root") /\ dirs' = dirs \ {"data"} /\ ledger' = {}
    /\ UNCHANGED <<upstream, binary, update, items, config>>

(* The files of a shared root go; the directory goes with administrator     *)
(* rights only                                                             *)
RemoveSharedRoot ==
    /\ Removes("root", "config")
    /\ dirs' = dirs \ ({"files of root"} \cup IF leaving.system THEN {"root"} ELSE {})
    /\ UNCHANGED <<upstream, binary, update, items, ledger, config>>

RemoveConfig ==
    /\ Removes("config", "binary")
    /\ config' = config \ (OwnConfig \cup IF leaving.keep THEN {} ELSE ListFiles)
    /\ UNCHANGED <<upstream, binary, update, items, ledger, dirs>>

RemoveBinary ==
    /\ Removes("binary", "man") /\ exe' = Gone
    /\ UNCHANGED <<upstream, staged, pages, update, items, ledger, dirs, config>>

RemoveManPages ==
    /\ leaving.at = "man" /\ leaving' = [leaving EXCEPT !.at = "gone"] /\ pages' = Gone
    /\ UNCHANGED <<upstream, exe, staged, update, items, ledger, dirs, config>>

(* A step that fails, or a kill, ends the uninstall. A directory is deleted *)
(* file by file, so the ledger may be gone from a data directory that is not *)
EndUninstall ==
    /\ leaving.at \notin {"idle", "gone"} /\ leaving' = [at |-> "idle"]
    /\ IF leaving.at = "data" THEN ledger' \in {ledger, {}} ELSE ledger' = ledger
    /\ UNCHANGED <<upstream, binary, update, items, dirs, config>>

-----------------------------------------------------------------------------
SelfInit ==
    /\ windows \in BOOLEAN
    /\ released = 1 /\ aged = 1
    /\ nightly = [f \in Assets \cup {"commit"} |-> 0]
    /\ exe \in {[of |-> v, whole |-> TRUE] : v \in {Release(1), Nightly(0), [kind |-> "dev", n |-> 0]}}
    /\ staged = Gone /\ pages \in {Gone, exe.of} /\ update = NoUpdate
    /\ items = Exposed /\ ledger = Exposed
    /\ dirs = {"cache", "data", "root", "files of root"}
    /\ config = OwnConfig \cup ListFiles \cup {"the user's"}
    /\ leaving = [at |-> "idle"]

UpdateNext ==
    \/ NewRelease \/ ReleaseAges \/ UploadNightly
    \/ \E flag \in Flags : Update(flag)
    \/ Fetch \/ VerifyBinary \/ CheckNightly \/ RefuseUpdate
    \/ Stage \/ CopyStaged \/ Aside \/ SwapBinary \/ RefreshManPages \/ EndUpdate

UninstallNext ==
    \/ \E keep, system \in BOOLEAN : Uninstall(keep, system)
    \/ \E i \in Exposed : RemoveItem(i) \/ ForgetItem(i)
    \/ ItemsGone \/ RemoveCache \/ RemoveData \/ RemoveSharedRoot \/ RemoveConfig
    \/ RemoveBinary \/ RemoveManPages \/ EndUninstall

SelfSpec == SelfInit /\ [][UpdateNext \/ UninstallNext]_selfVars

-----------------------------------------------------------------------------
Updates ==
    [at : Assets \cup {"verify", "check", "stage", "copy", "aside", "rename", "pages"},
     flag : Flags, running : Versions, found : Versions, held : BOOLEAN,
     bin : Nat, sig : Nat, sums : Nat, sumsSig : Nat]
Uninstalls ==
    [at : {"items", "cache", "data", "root", "config", "binary", "man", "gone"},
     keep : BOOLEAN, system : BOOLEAN, lists : SUBSET ListFiles]

SelfTypeOK ==
    /\ windows \in BOOLEAN /\ released \in Nat /\ aged \in Nat /\ nightly \in [Assets \cup {"commit"} -> Nat]
    /\ exe \in Binaries \cup {Gone} /\ staged \in Binaries \cup {Gone}
    /\ update # NoUpdate => update \in Updates
    /\ leaving.at # "idle" => leaving \in Uninstalls
    /\ dirs \subseteq {"cache", "data", "root", "files of root"}

(* Once an update has replaced the binary, it is whole and of exactly the   *)
(* version that the release named when the command looked, although the    *)
(* files of a nightly were replaced one by one between the downloads.      *)
ReplacedIsFound == update.at = "pages" => exe = [of |-> update.found, whole |-> TRUE]

(* An update on a nightly takes a newer one only, and the release that     *)
(* waits for its age is never replaced by one older than what runs.        *)
NeverBack ==
    update.at = "pages" =>
        /\ update.flag.kind = "nightly" /\ update.running.kind = "nightly" => exe.of.n > update.running.n
        /\ update.flag.kind \in {"none", "release"} /\ update.running.kind = "release" /\ update.held => exe.of.n > update.running.n

(* Wherever an update or an uninstall stops, the binary that is there is   *)
(* whole, and outside Windows there is one while oku has something on the  *)
(* machine that it could take off: the command can be run again.           *)
RunsAgain ==
    /\ exe # Gone => exe.whole
    /\ ~windows /\ exe = Gone => /\ items \subseteq System
                                /\ dirs \subseteq {"root"}
                                /\ config \cap OwnConfig = {}

(* What an uninstall leaves outside oku's directories is in the ledger that *)
(* the next one reads, or is what it told the user it leaves; and the       *)
(* user's own files are never touched.                                     *)
NothingLost ==
    /\ items \ System \subseteq ledger
    /\ "the user's" \in config
    /\ leaving.at = "gone" /\ leaving.keep => leaving.lists \subseteq config

(* The types, and all of these, hold of oku self update and uninstall.     *)
SelfHolds == SelfTypeOK /\ ReplacedIsFound /\ NeverBack /\ RunsAgain /\ NothingLost

=============================================================================
