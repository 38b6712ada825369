------------------------------- MODULE Store -------------------------------
(***************************************************************************)
(* The store, and the jobs that put packages into it.                      *)
(*                                                                         *)
(*   src/internal/store/store.go     Realize, Tree, Remove, complete       *)
(*   src/internal/store/build.go     Build, with --rebuild                 *)
(*   src/internal/store/cache.go     Substitute                            *)
(*   src/internal/store/share.go     Share, DropLinks                      *)
(*   src/internal/trash/trash.go     RemoveAside                           *)
(*   src/internal/cli/install.go     installHere, buildMu                  *)
(*                                                                         *)
(* A command that installs runs one job for each root, all at once, and a  *)
(* job installs the deps of its root before the root.  Two jobs may make   *)
(* the same store path: a root of the list can be a dep of another.  Each  *)
(* step of a job is one change of the disk, so that a crash may fall       *)
(* between any two.                                                        *)
(*                                                                         *)
(* What a path holds is "whole", "part" (its meta file is missing), "torn" *)
(* (the meta file is there and other files are gone) or nothing ("gone").  *)
(* One large file stands for the files of a path that the store shares.    *)
(***************************************************************************)
EXTENDS FiniteSets

CONSTANTS
    Paths,      \* the store paths
    Class,      \* how each is made: a download, a build or a repo's files
    Closure,    \* each path with the paths of its deps
    Big,        \* the downloads that hold the file that can be shared
    Settings    \* the machines and the commands to look at

Classes == {"artifact", "build", "tree"}

Conditions == {"gone", "part", "whole", "torn"}

(* The commands of Collect, and the steps of a job that may fail *)
CommandNames == {"install", "rebuild", "shell", "gc", "repair"}
FailingNames == {"fetch", "steps", "freeze"}

ASSUME PathsAssumption ==
    /\ Class \in [Paths -> Classes]
    /\ Closure \in [Paths -> SUBSET Paths]
    /\ \A p \in Paths : p \in Closure[p] /\ \A d \in Closure[p] : Closure[d] \subseteq Closure[p]
    /\ Big \subseteq {p \in Paths : Class[p] = "artifact"}

ASSUME SettingsAssumption ==
    \A s \in Settings :
        /\ {s.windows, s.clones, s.edits, s.tears} \subseteq BOOLEAN
        /\ s.wants \subseteq SUBSET Paths
        /\ s.cached \subseteq {p \in Paths : Class[p] = "build"}
        /\ s.commands \subseteq CommandNames
        /\ s.failing \subseteq FailingNames

VARIABLES
    setting,    \* the machine: it never changes
    disk,       \* what is at each store path
    old,        \* what is at <path>.old
    temps,      \* the paths of which a killed process left a directory .tmp-*
    frozen,     \* the paths whose write bits are off
    entry,      \* the file in .links: "none", "true" bytes, or "edited" ones
    linked,     \* the paths whose large file is the entry itself, a hard link
    edited,     \* the paths whose own large file was edited
    touched,    \* the paths whose large file someone edited since it was made
    records,    \* .links/paths: the paths that say what they share
    job,        \* the job of each root, of the command that holds the lock
    builder     \* the roots whose job is in a build: it holds buildMu

disks == <<setting, disk, old, temps, frozen, entry, linked, edited, touched, records>>
storeVars == <<disks, job, builder>>

Idle == [at |-> "idle", path |-> "", todo |-> {}, rebuild |-> FALSE, aside |-> FALSE]

JobSteps == {"idle", "next", "done", "failed",
             "start", "settle", "publish", "share", "freeze",
             "unmeta", "aside", "erase", "delete",
             "cache", "recover", "restore", "source", "dropOld", "setAside",
             "mkdir", "steps", "undo", "putBack", "finish", "finished"}

JobStates == [at : JobSteps, path : Paths \cup {""}, todo : SUBSET Paths,
              rebuild : BOOLEAN, aside : BOOLEAN]

(* Every variable holds a value of its kind. *)
StoreTypeOK ==
    /\ setting \in Settings
    /\ disk \in [Paths -> Conditions]
    /\ old \in [Paths -> Conditions]
    /\ entry \in {"none", "true", "edited"}
    /\ temps \subseteq Paths /\ frozen \subseteq Paths /\ records \subseteq Paths
    /\ linked \subseteq Paths /\ edited \subseteq Paths /\ touched \subseteq Paths
    /\ builder \subseteq Paths
    /\ job \in [Paths -> JobStates]

StoreInit ==
    /\ setting \in Settings
    /\ disk = [p \in Paths |-> "gone"]
    /\ old = [p \in Paths |-> "gone"]
    /\ entry = "none"
    /\ temps = {} /\ frozen = {} /\ linked = {} /\ edited = {} /\ touched = {} /\ records = {}
    /\ job = [r \in Paths |-> Idle]
    /\ builder = {}

(***************************************************************************)
(* What the functions below look at.                                       *)
(***************************************************************************)

Exists(p) == disk[p] # "gone"

(* complete: the meta file is there.  A repo's files have none. *)
Complete(p) == Class[p] # "tree" /\ disk[p] \in {"whole", "torn"}

(* What the large file of p holds *)
Bytes(p) == IF p \in linked THEN entry ELSE IF p \in edited THEN "edited" ELSE "true"

At(r, step) == job[r].at = step

Go(r, step) == job' = [job EXCEPT ![r].at = step]

(* The first job that fails cancels the downloads and steps of the others *)
MayFail(what) ==
    \/ what \in setting.failing
    \/ what \in {"fetch", "steps"} /\ \E r \in Paths : At(r, "failed")

P(r) == job[r].path

(* Leave that keeps the lock of a build *)
LeaveLocked(r, step) ==
    /\ Go(r, step)
    /\ UNCHANGED builder

(* The job leaves installHere, and with it the lock of a build *)
Leave(r, step) ==
    /\ Go(r, step)
    /\ builder' = builder \ {r}

(* A step that changes what is at the path and at <path>.old only *)
Builds(r, now, aside) ==
    /\ disk' = [disk EXCEPT ![P(r)] = now]
    /\ old' = [old EXCEPT ![P(r)] = aside]
    /\ UNCHANGED <<setting, temps, entry, linked, edited, touched, records>>

(***************************************************************************)
(* Sharing of files.                                                       *)
(***************************************************************************)

(* The paths that were links to the entry keep the file they had *)
Unlink(ps) ==
    /\ linked' = ps
    /\ edited' = (edited \cup (IF entry = "edited" THEN linked ELSE {})) \ ps

(* sharer.share of the file of p: it becomes the entry, or a clone of it,  *)
(* or a hard link to it.  An entry with other bytes is replaced.  The key  *)
(* of an edited file is another one, so this entry has no part in it.      *)
Share(p) ==
    IF p \in linked \/ Bytes(p) = "edited"
    THEN UNCHANGED <<entry, linked, edited>>
    ELSE IF entry # "true"
    THEN entry' = "true" /\ Unlink({p})
    ELSE /\ linked' = IF setting.clones THEN linked ELSE linked \cup {p}
         /\ UNCHANGED <<entry, edited>>

ShareFile(p) ==
    IF p \in Big
    THEN Share(p) /\ records' = records \cup {p}
    ELSE UNCHANGED <<entry, linked, edited, records>>

(* DropLinks, after which Unshared finds the paths that have no record, and *)
(* gc shares them at once                                                  *)
DropLinks ==
    /\ records' = {p \in records : Exists(p)}
    /\ IF records' = {}
       THEN entry' = "none" /\ Unlink({})
       ELSE UNCHANGED <<entry, linked, edited>>
    /\ UNCHANGED <<setting, disk, old, temps, frozen, touched>>

Unshared == {p \in Big : disk[p] = "whole" /\ p \notin records}

ShareOld(p) ==
    /\ ShareFile(p)
    /\ frozen' = frozen \cup {p}
    /\ UNCHANGED <<setting, disk, old, temps, touched>>

(***************************************************************************)
(* Remove of one store path, one step of it: the meta file, which a frozen *)
(* path keeps; then the path, moved aside or, where a program of it runs   *)
(* on Windows, deleted where it is; then the rest and the record.          *)
(***************************************************************************)

(* The file of a path goes away with it *)
Forget(p) ==
    /\ frozen' = frozen \ {p}
    /\ linked' = linked \ {p}
    /\ edited' = edited \ {p}
    /\ touched' = touched \ {p}

Unmeta(p) ==
    /\ disk' = [disk EXCEPT ![p] = IF Complete(p) /\ (setting.windows \/ p \notin frozen)
                                   THEN "part" ELSE @]
    /\ UNCHANGED <<setting, old, temps, frozen, entry, linked, edited, touched, records>>

MoveAside(p) ==
    /\ disk' = [disk EXCEPT ![p] = "gone"]
    /\ Forget(p)
    /\ UNCHANGED <<setting, old, temps, entry, records>>

DeleteInPlace(p) ==
    /\ setting.windows
    /\ Exists(p)
    /\ disk' = [disk EXCEPT ![p] = "part"]
    /\ Forget(p)
    /\ UNCHANGED <<setting, old, temps, entry, records>>

RemoveStep(p, step, then) ==
    \/ step = "unmeta" /\ then = "aside" /\ Unmeta(p)
    \/ step = "aside" /\ then = "erase" /\ MoveAside(p)
    \/ step = "aside" /\ then = "delete" /\ DeleteInPlace(p)
    \/ /\ step \in {"erase", "delete"} /\ then = "removed"
       /\ disk' = IF step = "delete" THEN [disk EXCEPT ![p] = "gone"] ELSE disk
       /\ records' = records \ {p}
       /\ UNCHANGED <<setting, old, temps, frozen, entry, linked, edited, touched>>

(***************************************************************************)
(* A job.                                                                  *)
(***************************************************************************)

(* installDeps, then the root.  A build waits for buildMu. *)
Pick(r) ==
    /\ At(r, "next")
    /\ \/ /\ job[r].todo = {}
          /\ Go(r, "done")
          /\ UNCHANGED <<disks, builder>>
       \/ \E p \in job[r].todo :
            /\ Closure[p] \cap job[r].todo = {p}
            /\ Class[p] = "build" => builder = {}
            /\ builder' = IF Class[p] = "build" THEN {r} ELSE builder
            /\ job' = [job EXCEPT ![r].path = p, ![r].todo = @ \ {p}, ![r].aside = FALSE,
                                  ![r].at = IF Class[p] = "build" THEN "cache" ELSE "start"]
            /\ UNCHANGED disks

(* Realize and Tree up to the files in a directory of their own: a path    *)
(* that is there is used as it is.  Only a package has a meta file.        *)
Unpack(r) ==
    /\ At(r, "start")
    /\ IF IF Class[P(r)] = "tree" THEN Exists(P(r)) ELSE Complete(P(r))
       THEN Go(r, "next")
       ELSE \/ Go(r, IF Class[P(r)] = "tree" THEN "publish" ELSE "settle")
            \/ MayFail("fetch") /\ Go(r, "failed")
    /\ UNCHANGED <<disks, builder>>

(* What a delete that stopped halfway left is no package *)
Settle(r) ==
    /\ At(r, "settle")
    /\ Go(r, IF Exists(P(r)) /\ ~Complete(P(r)) THEN "unmeta" ELSE "publish")
    /\ UNCHANGED <<disks, builder>>

Clear(r) ==
    /\ \E then \in {"aside", "erase", "delete", "removed"} :
        /\ RemoveStep(P(r), job[r].at, then)
        /\ Go(r, IF then = "removed" THEN "publish" ELSE then)
    /\ UNCHANGED builder

(* The rename into place, which fails where something is *)
Publish(r) ==
    /\ At(r, "publish")
    /\ IF ~Exists(P(r))
       THEN /\ disk' = [disk EXCEPT ![P(r)] = "whole"]
            /\ Go(r, IF Class[P(r)] = "tree" THEN "next" ELSE "share")
       ELSE /\ Go(r, IF Complete(P(r)) THEN "next" ELSE "failed")
            /\ UNCHANGED disk
    /\ UNCHANGED <<setting, old, temps, frozen, entry, linked, edited, touched, records, builder>>

(* shareNew, or Share of a path from a cache *)
ShareNew(r) ==
    /\ At(r, "share")
    /\ IF Exists(P(r))
       THEN ShareFile(P(r))
       ELSE UNCHANGED <<entry, linked, edited, records>>
    /\ Go(r, "freeze")
    /\ UNCHANGED <<setting, disk, old, temps, frozen, touched, builder>>

Freeze(r) ==
    /\ At(r, "freeze")
    /\ \/ /\ Exists(P(r))
          /\ frozen' = frozen \cup {P(r)}
          /\ Go(r, IF Class[P(r)] = "build" THEN "finish" ELSE "next")
       \/ /\ ~Exists(P(r)) \/ MayFail("freeze")
          /\ Go(r, IF Class[P(r)] = "build" THEN "undo" ELSE "failed")
          /\ UNCHANGED frozen
    /\ UNCHANGED <<setting, disk, old, temps, entry, linked, edited, touched, records, builder>>

(* Substitute: the entry of a cache is renamed onto the path.  --rebuild   *)
(* takes nothing from a cache, and the deps are not built again.           *)
Substitute(r) ==
    LET rebuild == job[r].rebuild /\ P(r) = r
    IN  /\ At(r, "cache")
        /\ \/ ~rebuild /\ Complete(P(r)) /\ Leave(r, "next") /\ UNCHANGED disks
           \/ /\ ~rebuild /\ ~Complete(P(r)) /\ P(r) \in setting.cached
              /\ IF Exists(P(r))
                 THEN Leave(r, "failed") /\ UNCHANGED disks
                 ELSE /\ Builds(r, "whole", old[P(r)])
                      /\ frozen' = frozen \ {P(r)}
                      /\ Go(r, "share")
                      /\ UNCHANGED builder
           \/ /\ rebuild \/ (~Complete(P(r)) /\ P(r) \notin setting.cached)
              /\ Go(r, "recover")
              /\ UNCHANGED <<disks, builder>>

(* A rebuild that a crash interrupted left the old build aside *)
Recover(r) ==
    /\ At(r, "recover")
    /\ IF ~Complete(P(r)) /\ old[P(r)] \in {"whole", "torn"}
       THEN Builds(r, "gone", old[P(r)]) /\ Go(r, "restore")
       ELSE Go(r, "source") /\ UNCHANGED <<setting, disk, old, temps, entry, linked, edited, touched, records>>
    /\ UNCHANGED <<frozen, builder>>

Restore(r) ==
    /\ At(r, "restore")
    /\ Builds(r, old[P(r)], "gone")
    /\ frozen' = frozen \cup {P(r)}
    /\ Go(r, "source")
    /\ UNCHANGED builder

(* A build in the store is used as it is, unless it is to be built again *)
FetchSource(r) ==
    LET rebuild == job[r].rebuild /\ P(r) = r
    IN  /\ At(r, "source")
        /\ \/ Complete(P(r)) /\ ~rebuild /\ Leave(r, "next")
           \/ /\ ~Complete(P(r)) \/ rebuild
              /\ \/ /\ Go(r, IF Complete(P(r)) THEN "dropOld" ELSE "mkdir")
                    /\ UNCHANGED builder
                 \/ MayFail("fetch") /\ Leave(r, "failed")
        /\ UNCHANGED disks

(* A tree that goes file by file loses its meta file in the order that the *)
(* directory lists: at any moment where the setting tears, and else first  *)
Dropping(condition) ==
    CASE condition \in {"whole", "torn"} -> IF setting.tears THEN {"torn", "part"} ELSE {"part"}
      [] OTHER -> {condition}

(* RemoveFrozen of what an earlier rebuild left at <path>.old *)
DropOld(r) ==
    /\ At(r, "dropOld")
    /\ \E left \in Dropping(old[P(r)]) : Builds(r, disk[P(r)], left)
    /\ Go(r, "setAside")
    /\ UNCHANGED <<frozen, builder>>

SetAside(r) ==
    /\ At(r, "setAside")
    /\ Builds(r, "gone", disk[P(r)])
    /\ job' = [job EXCEPT ![r].at = "mkdir", ![r].aside = TRUE]
    /\ UNCHANGED <<frozen, builder>>

(* RemoveFrozen of what a crashed build left, and an empty prefix *)
Mkdir(r) ==
    /\ At(r, "mkdir")
    /\ Builds(r, "part", old[P(r)])
    /\ frozen' = frozen \ {P(r)}
    /\ Go(r, "steps")
    /\ UNCHANGED builder

(* The steps, the record of the files and then the meta file *)
Steps(r) ==
    /\ At(r, "steps")
    /\ \/ Builds(r, "whole", old[P(r)]) /\ Go(r, "share")
       \/ MayFail("steps") /\ Builds(r, "gone", old[P(r)]) /\ Go(r, "undo")
    /\ UNCHANGED <<frozen, builder>>

(* The deferred function of a rebuild that failed *)
Undo(r) ==
    /\ At(r, "undo")
    /\ IF job[r].aside
       THEN /\ \E left \in Dropping(disk[P(r)]) : Builds(r, left, old[P(r)])
            /\ Go(r, "putBack")
            /\ UNCHANGED builder
       ELSE Leave(r, "failed") /\ UNCHANGED <<setting, disk, old, temps, entry, linked, edited, touched, records>>
    /\ UNCHANGED frozen

PutBack(r) ==
    /\ At(r, "putBack")
    /\ Builds(r, old[P(r)], "gone")
    /\ frozen' = frozen \cup {P(r)}
    /\ Leave(r, "failed")

(* And of one that did not *)
Finish(r) ==
    /\ At(r, "finish")
    /\ IF job[r].aside
       THEN /\ \E left \in Dropping(old[P(r)]) : Builds(r, disk[P(r)], left)
            /\ Go(r, "finished")
            /\ UNCHANGED builder
       ELSE Leave(r, "next") /\ UNCHANGED <<setting, disk, old, temps, entry, linked, edited, touched, records>>
    /\ UNCHANGED frozen

Finished(r) ==
    /\ At(r, "finished")
    /\ Builds(r, disk[P(r)], "gone")
    /\ Leave(r, "next")
    /\ UNCHANGED frozen

JobStep(r) ==
    \/ Pick(r) \/ Unpack(r) \/ Settle(r) \/ Clear(r) \/ Publish(r) \/ ShareNew(r) \/ Freeze(r)
    \/ Substitute(r) \/ Recover(r) \/ Restore(r) \/ FetchSource(r) \/ DropOld(r) \/ SetAside(r)
    \/ Mkdir(r) \/ Steps(r) \/ Undo(r) \/ PutBack(r) \/ Finish(r) \/ Finished(r)

(* Someone gives a file its write bit back and edits it.  A hard link      *)
(* changes every path that has it.                                         *)
Edit(p) ==
    /\ setting.edits
    /\ p \in Big /\ disk[p] = "whole"
    /\ IF p \in linked
       THEN entry' = "edited" /\ touched' = touched \cup linked /\ UNCHANGED edited
       ELSE edited' = edited \cup {p} /\ touched' = touched \cup {p} /\ UNCHANGED entry
    /\ UNCHANGED <<setting, disk, old, temps, frozen, linked, records, job, builder>>

(* The process ends: its jobs are gone, and their directories stay *)
Abandon ==
    /\ temps' = temps \cup {P(r) : r \in {x \in Paths : job[x].at \in
                   {"settle", "unmeta", "aside", "erase", "delete", "publish"}}}
    /\ job' = [r \in Paths |-> Idle]
    /\ builder' = {}
    /\ UNCHANGED <<setting, disk, old, frozen, entry, linked, edited, touched, records>>

============================================================================
