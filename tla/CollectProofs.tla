---------------------------- MODULE CollectProofs ----------------------------
(***************************************************************************)
(* What the store and gc keep for any packages, processes and profiles,    *)
(* and after any kills: StoreHolds and GcCollects.                         *)
(*                                                                         *)
(* BaseInv has the types, what the lock gives (the jobs are those of its   *)
(* holder) and which steps fit which package.  FreshInv is about the bytes *)
(* of shared files.  SweepInv says that all that nothing uses is in gc's   *)
(* list, or is what Remove is at; GcCollects follows.                      *)
(*                                                                         *)
(* StoreInv is what StoreHolds needs.  A path in use is usable and no job  *)
(* clears it (HeldInv); what the jobs of a command have made is there, or  *)
(* another job of it is to put it there again (MadeInv), so that it is all *)
(* there when the last job ends and the generation comes to use it;        *)
(* BuildOK says where the old build is at each step of a rebuild.  gc      *)
(* spares what is in use (SpareInv) since it keeps the sessions of all     *)
(* programs that run (KeepInv, SessionInv): a program that starts later    *)
(* waits for the lock.                                                     *)
(***************************************************************************)
EXTENDS Collect, TLAPS

Clearing == {"unmeta", "aside", "erase", "delete"}

BuildSteps == {"cache", "recover", "restore", "source", "dropOld", "setAside",
               "mkdir", "steps", "undo", "putBack", "finish", "finished"}

(* The steps at which a job is in a store path *)
Inside == JobSteps \ {"idle", "next", "done", "failed"}

(***************************************************************************)
(* Types, the lock and the jobs.                                           *)
(***************************************************************************)

(* One process holds the lock, and only its command has jobs. *)
LockInv ==
    /\ \A q \in Procs : q # holder => cmd[q].at \in {"idle", "running"}
    /\ holder # NoProc => cmd[holder].at \notin {"idle", "running"}
    /\ \A r \in Paths : job[r].at # "idle" =>
           holder # NoProc /\ cmd[holder].at = "jobs" /\ r \in cmd[holder].roots

(* Which packages a step is for *)
StepFits(step, class) ==
    /\ step \in BuildSteps => class = "build"
    /\ step \in {"start", "publish"} => class # "build"
    /\ step \in Clearing \cup {"settle"} => class = "artifact"
    /\ step \in {"share", "freeze"} => class # "tree"

(* A job is in a path of its root, and takes the steps of its class. *)
JobOK(r) ==
    /\ job[r].todo \subseteq Closure[r]
    /\ job[r].at \in Inside =>
           P(r) \in Closure[r] /\ P(r) \notin job[r].todo /\ StepFits(job[r].at, Class[P(r)])
    /\ job[r].at = "done" => job[r].todo = {}
    /\ job[r].aside \/ job[r].at \in {"dropOld", "setAside"} => job[r].rebuild
    /\ job[r].rebuild => "rebuild" \in setting.commands

InBuild(r) == job[r].at \in Inside /\ Class[P(r)] = "build"

(* buildMu: the builder is the job in a build, and there is one. *)
BuilderInv ==
    /\ \A r \in Paths : r \in builder <=> InBuild(r)
    /\ \A r, s \in builder : r = s

(* What a command has in hand at its steps, and that it may run. *)
CommandOK(q) ==
    /\ cmd[q].at \in Clearing => cmd[q].path \in Paths
    /\ cmd[q].at = "jobs" => cmd[q].name \in {"install", "rebuild", "shell"}
    /\ cmd[q].at = "jobs" /\ cmd[q].name # "shell" => cmd[q].profile \in Profiles
    /\ cmd[q].at \in {"stage", "activate"} => cmd[q].name \in {"install", "rebuild"} /\ cmd[q].profile \in Profiles
    /\ cmd[q].at = "scan" => cmd[q].name = "repair" /\ cmd[q].profile \in Profiles
    /\ cmd[q].at \in {"roots", "projects", "prune", "mark", "links", "share"} => cmd[q].name = "gc"
    /\ cmd[q].at \in {"sweep"} \cup Clearing => cmd[q].name \in {"gc", "repair"}
    /\ cmd[q].name = "repair" => "repair" \in setting.commands

BaseInv ==
    /\ CollectTypeOK
    /\ LockInv
    /\ \A r \in Paths : JobOK(r)
    /\ BuilderInv
    /\ \A q \in Procs : CommandOK(q)

(***************************************************************************)
(* The bytes of the shared files.                                          *)
(***************************************************************************)

FreshInv ==
    /\ edited \subseteq touched
    /\ entry = "edited" => linked \subseteq touched
    /\ entry = "none" => linked = {}

(***************************************************************************)
(* What gc has still to delete.                                            *)
(***************************************************************************)

Sweeping == {"sweep"} \cup Clearing

(* All that nothing uses is in the list, or is what Remove is at. *)
SweepOK(q) ==
    /\ cmd[q].at \in Sweeping =>
           \A d \in Unreferenced(Used(cmd[q].keep)) :
               d \in cmd[q].doomed \/ (cmd[q].at \in Clearing /\ d = <<"path", cmd[q].path>>)
    /\ cmd[q].at = "erase" => disk[cmd[q].path] = "gone"
    /\ cmd[q].at \in {"links", "share"} => Unreferenced(Used(cmd[q].keep)) = {}

SweepInv == \A q \in Procs : cmd[q].name = "gc" => SweepOK(q)

(***************************************************************************)
(* What is in use.                                                         *)
(***************************************************************************)

(* No deletion that stops halfway leaves what is taken for whole.  Where a *)
(* directory may list its meta file last, nothing is built again: Build    *)
(* deletes the old build file by file.  And where a rename may fail, on    *)
(* Windows, no repo's files are wanted: Tree takes any directory for them. *)
NoTree(r) == \A p \in Closure[r] : Class[p] # "tree"

NothingTorn ==
    /\ setting.tears => "rebuild" \notin setting.commands
    /\ setting.windows => \A roots \in setting.wants : \A r \in roots : NoTree(r)

WholeOK(p) ==
    /\ disk[p] # "torn" /\ old[p] # "torn"
    /\ Class[p] = "tree" => disk[p] # "part"
    /\ Class[p] = "tree" /\ setting.windows => disk[p] = "gone"

TreesInv == \A r \in Paths : job[r].at # "idle" /\ setting.windows => NoTree(r)

(* What a build has at each of its steps *)
BuildOK(r) ==
    InBuild(r) =>
        /\ job[r].at \in {"cache", "recover", "restore", "source", "dropOld", "setAside"} => ~job[r].aside
        /\ job[r].at \in {"dropOld", "setAside", "share", "freeze", "finish", "finished"} => disk[P(r)] = "whole"
        /\ job[r].at \in {"mkdir", "steps"} => disk[P(r)] # "whole"
        /\ job[r].at \in {"restore", "putBack"} => old[P(r)] = "whole"
        /\ job[r].aside /\ job[r].at \in {"mkdir", "steps", "share", "freeze", "undo"} => old[P(r)] = "whole"

(* Another job is to put p there again *)
Remaking(p) == \E s \in Paths : P(s) = p /\ job[s].at \in Clearing \cup {"publish"}

(* The steps of a job that has put its path there *)
Finishing == {"share", "freeze", "finish", "finished"}

(* The paths that a job has made, or found *)
Made(r, p) ==
    /\ p \in Closure[r] \ job[r].todo
    /\ job[r].at \in Inside /\ p = P(r) => job[r].at \in Finishing

MadeInv ==
    (\A s \in Paths : job[s].at # "failed") =>
        \A r, p \in Paths : job[r].at # "idle" /\ Made(r, p) => Usable(p) \/ Remaking(p)

(* The paths that a generation holds, and those of a command that has      *)
(* installed them or runs them                                             *)
Holding == {"stage", "activate", "hold", "running"}

InUse(p) ==
    \/ \E g \in gens : p \in ClosureOf(g[2])
    \/ \E q \in Procs : cmd[q].at \in Holding /\ p \in ClosureOf(cmd[q].roots)

HeldOK(p) ==
    /\ Usable(p)
    /\ \A s \in Paths : P(s) = p => job[s].at \notin Clearing

HeldInv == \A p \in Paths : InUse(p) => HeldOK(p)

SessionInv ==
    \A q \in Procs : cmd[q].at = "running" => sessions[q] = ClosureOf(cmd[q].roots)

KeepInv ==
    \A q, x \in Procs : cmd[q].at \in {"projects", "prune", "mark"} /\ cmd[x].at = "running" =>
        ClosureOf(cmd[x].roots) \subseteq cmd[q].keep

SpareInv ==
    \A q \in Procs, p \in Paths : cmd[q].at \in Sweeping /\ InUse(p) =>
        /\ <<"path", p>> \notin cmd[q].doomed /\ <<"old", p>> \notin cmd[q].doomed
        /\ cmd[q].at \in Clearing => p # cmd[q].path

UseInv == "repair" \notin setting.commands => HeldInv /\ SpareInv

StoreInv ==
    /\ \A p \in Paths : WholeOK(p)
    /\ TreesInv
    /\ \A r \in Paths : BuildOK(r)
    /\ MadeInv
    /\ SessionInv
    /\ KeepInv
    /\ UseInv

(***************************************************************************)
(* The steps of a job.                                                     *)
(***************************************************************************)

(* The types of all but the jobs *)
DiskTypes ==
    /\ setting \in Settings
    /\ disk \in [Paths -> Conditions]
    /\ old \in [Paths -> Conditions]
    /\ entry \in {"none", "true", "edited"}
    /\ temps \subseteq Paths /\ frozen \subseteq Paths /\ records \subseteq Paths
    /\ linked \subseteq Paths /\ edited \subseteq Paths /\ touched \subseteq Paths

(* What a step of the job of r keeps *)
JobKept(r) ==
    /\ StoreTypeOK'
    /\ setting' = setting
    /\ job[r].at # "idle" /\ job'[r].at # "idle"
    /\ \A s \in Paths \ {r} : job'[s] = job[s]
    /\ JobOK(r)'
    /\ BuilderInv'

(* Go moves one job and leaves the rest of its record *)
Moved(r, step) ==
    /\ job' \in [Paths -> JobStates]
    /\ job'[r].at = step
    /\ job'[r].path = job[r].path /\ job'[r].todo = job[r].todo
    /\ job'[r].rebuild = job[r].rebuild /\ job'[r].aside = job[r].aside
    /\ \A s \in Paths \ {r} : job'[s] = job[s]

LEMMA ExceptAt ==
    ASSUME NEW j \in JobStates, NEW step \in JobSteps
    PROVE  /\ [j EXCEPT !.at = step] \in JobStates
           /\ [j EXCEPT !.at = step].at = step
           /\ [j EXCEPT !.at = step].path = j.path
           /\ [j EXCEPT !.at = step].todo = j.todo
           /\ [j EXCEPT !.at = step].rebuild = j.rebuild
           /\ [j EXCEPT !.at = step].aside = j.aside
BY DEF JobStates

LEMMA GoMoves ==
    ASSUME StoreTypeOK, NEW r \in Paths, NEW step \in JobSteps, Go(r, step)
    PROVE  Moved(r, step)
<1>1. job \in [Paths -> JobStates] /\ job[r] \in JobStates
  BY DEF StoreTypeOK
<1>2. job' = [job EXCEPT ![r] = [job[r] EXCEPT !.at = step]]
  BY DEF Go
<1>3. [job[r] EXCEPT !.at = step] \in JobStates
  BY <1>1, ExceptAt
<1>4. job'[r] = [job[r] EXCEPT !.at = step] /\ job' \in [Paths -> JobStates] /\ \A s \in Paths \ {r} : job'[s] = job[s]
  BY <1>1, <1>2, <1>3
<1> QED BY <1>1, <1>4, ExceptAt DEF Moved

(* buildMu goes to one job, stays with it while it builds, and is given    *)
(* back when it leaves                                                     *)
LEMMA BuilderKept ==
    ASSUME BuilderInv, NEW r \in Paths, builder \subseteq Paths,
           \A s \in Paths \ {r} : job'[s] = job[s],
           \/ InBuild(r)' /\ InBuild(r) /\ builder' = builder
           \/ InBuild(r)' /\ builder = {} /\ builder' = {r}
           \/ ~InBuild(r)' /\ builder' = builder \ {r}
           \/ ~InBuild(r)' /\ ~InBuild(r) /\ builder' = builder
    PROVE  BuilderInv' /\ builder' \subseteq Paths
<1>1. \A s \in Paths \ {r} : InBuild(s)' <=> InBuild(s)
  BY DEF InBuild, P
<1>2. \A s \in Paths : s \in builder' <=> InBuild(s)'
  BY <1>1 DEF BuilderInv
<1>3. \A s, x \in builder' : s = x
  BY DEF BuilderInv
<1> QED BY <1>2, <1>3 DEF BuilderInv

LEMMA MovedKept ==
    ASSUME BaseInv, NEW r \in Paths, NEW step \in JobSteps \ {"idle", "done"},
           Go(r, step), job[r].at \in Inside, setting' = setting, DiskTypes',
           StepFits(step, Class[P(r)]),
           step \in {"dropOld", "setAside"} => job[r].rebuild,
           builder' = IF step \in Inside THEN builder ELSE builder \ {r}
    PROVE  JobKept(r) /\ Moved(r, step)
<1>1. Moved(r, step)
  BY GoMoves DEF BaseInv, CollectTypeOK
<1>2. JobOK(r) /\ BuilderInv /\ builder \subseteq Paths
  BY DEF BaseInv, CollectTypeOK, StoreTypeOK
<1>3. P(r)' = P(r) /\ job'[r].at = step
  BY <1>1 DEF Moved, P
<1>4. JobOK(r)'
  BY <1>1, <1>2, <1>3 DEF JobOK, Moved, Inside
<1>5. BuilderInv' /\ builder' \subseteq Paths
  BY <1>1, <1>2, <1>3, BuilderKept DEF Moved, InBuild
<1>6. StoreTypeOK'
  BY <1>1, <1>5 DEF StoreTypeOK, DiskTypes, Moved
<1>7. step # "idle" /\ job[r].at # "idle"
  BY DEF Inside
<1> QED BY <1>1, <1>3, <1>4, <1>5, <1>6, <1>7 DEF JobKept, Moved

LEMMA PickKept ==
    ASSUME BaseInv, NEW r \in Paths, Pick(r)
    PROVE  JobKept(r)
<1>1. BuilderInv /\ JobOK(r) /\ StoreTypeOK /\ job[r].at = "next"
  BY DEF BaseInv, CollectTypeOK, Pick, At
<1>2. CASE job[r].todo = {} /\ Go(r, "done") /\ UNCHANGED <<disks, builder>>
  <2>1. Moved(r, "done")
    BY <1>1, <1>2, GoMoves DEF JobSteps
  <2>2. ~InBuild(r) /\ ~InBuild(r)'
    BY <1>1, <2>1 DEF InBuild, Inside, Moved
  <2>3. BuilderInv'
    BY <1>1, <1>2, <2>1, <2>2, BuilderKept DEF Moved, StoreTypeOK
  <2>4. JobOK(r)'
    BY <1>1, <1>2, <2>1 DEF JobOK, Moved, Inside, disks
  <2>5. StoreTypeOK' /\ setting' = setting
    BY <1>1, <1>2, <2>1 DEF StoreTypeOK, Moved, disks
  <2> QED BY <1>1, <2>1, <2>3, <2>4, <2>5 DEF JobKept, Moved
<1>3. ASSUME NEW p \in job[r].todo,
             Class[p] = "build" => builder = {},
             builder' = IF Class[p] = "build" THEN {r} ELSE builder,
             job' = [job EXCEPT ![r].path = p, ![r].todo = @ \ {p}, ![r].aside = FALSE,
                                  ![r].at = IF Class[p] = "build" THEN "cache" ELSE "start"],
             UNCHANGED disks
      PROVE JobKept(r)
  <2> DEFINE at == IF Class[p] = "build" THEN "cache" ELSE "start"
             j == [job[r] EXCEPT !.path = p, !.todo = job[r].todo \ {p}, !.aside = FALSE, !.at = at]
  <2>1. job[r] \in JobStates /\ job \in [Paths -> JobStates]
    BY <1>1 DEF StoreTypeOK
  <2>2. p \in Paths /\ at \in JobSteps /\ p \in job[r].todo
    BY <2>1, <1>3 DEF JobStates, JobSteps
  <2>3. /\ j \in JobStates
        /\ j.at = at /\ j.path = p /\ j.todo = job[r].todo \ {p} /\ j.aside = FALSE /\ j.rebuild = job[r].rebuild
    <3> HIDE DEF at
    <3> QED BY <2>1, <2>2 DEF JobStates
  <2>4. job' = [job EXCEPT ![r] = j]
    BY <1>3
  <2> HIDE DEF j, at
  <2>5. job' \in [Paths -> JobStates] /\ job'[r] = j /\ \A s \in Paths \ {r} : job'[s] = job[s]
    BY <2>1, <2>3, <2>4
  <2>6. at \in Inside /\ StepFits(at, Class[p]) /\ at \notin {"idle", "done", "dropOld", "setAside"}
    BY DEF at, Inside, StepFits, JobSteps, BuildSteps, Clearing
  <2>7. InBuild(r)' <=> Class[p] = "build"
    BY <2>3, <2>5, <2>6 DEF InBuild, P
  <2>8. ~InBuild(r)
    BY <1>1 DEF InBuild, Inside
  <2>9. BuilderInv' /\ builder' \subseteq Paths
    BY <1>1, <1>3, <2>5, <2>7, <2>8, BuilderKept DEF StoreTypeOK
  <2>10. setting' = setting /\ StoreTypeOK'
    BY <1>1, <1>3, <2>5, <2>9 DEF StoreTypeOK, disks
  <2>11. p \in Closure[r]
    BY <2>2, <1>1 DEF JobOK
  <2>12. JobOK(r)'
    BY <1>1, <2>3, <2>5, <2>6, <2>10, <2>11 DEF JobOK, P
  <2> QED BY <1>1, <2>3, <2>5, <2>6, <2>9, <2>10, <2>12 DEF JobKept
<1> QED BY <1>2, <1>3 DEF Pick

LEMMA UnpackKept ==
    ASSUME BaseInv, NEW r \in Paths, Unpack(r)
    PROVE  JobKept(r)
<1>1. JobOK(r) /\ BuilderInv /\ DiskTypes /\ job[r].at \in Inside /\ P(r) \in Paths /\ Class[P(r)] \in Classes
  BY PathsAssumption DEF BaseInv, CollectTypeOK, StoreTypeOK, DiskTypes, Unpack, At, Inside, JobSteps, JobOK
<1>2. PICK step \in {"next", "publish", "settle", "failed"} :
        /\ Go(r, step) /\ StepFits(step, Class[P(r)])
        /\ builder' = IF step \in Inside THEN builder ELSE builder \ {r}
        /\ step = "dropOld" \/ step = "setAside" => job[r].rebuild
  BY <1>1 DEF Unpack, At, Leave, StepFits, JobOK, BuilderInv, InBuild, Inside, JobSteps, BuildSteps, Clearing, Classes
<1>3. DiskTypes' /\ setting' = setting
  BY <1>1 DEF Unpack, DiskTypes, disks, Builds, Conditions, Dropping, ShareFile, Share, Unlink
<1> QED BY <1>1, <1>2, <1>3, MovedKept DEF JobSteps

LEMMA SettleKept ==
    ASSUME BaseInv, NEW r \in Paths, Settle(r)
    PROVE  JobKept(r)
<1>1. JobOK(r) /\ BuilderInv /\ DiskTypes /\ job[r].at \in Inside /\ P(r) \in Paths /\ Class[P(r)] \in Classes
  BY PathsAssumption DEF BaseInv, CollectTypeOK, StoreTypeOK, DiskTypes, Settle, At, Inside, JobSteps, JobOK
<1>2. PICK step \in {"unmeta", "publish"} :
        /\ Go(r, step) /\ StepFits(step, Class[P(r)])
        /\ builder' = IF step \in Inside THEN builder ELSE builder \ {r}
        /\ step = "dropOld" \/ step = "setAside" => job[r].rebuild
  BY <1>1 DEF Settle, At, Leave, StepFits, JobOK, BuilderInv, InBuild, Inside, JobSteps, BuildSteps, Clearing, Classes
<1>3. DiskTypes' /\ setting' = setting
  BY <1>1 DEF Settle, DiskTypes, disks, Builds, Conditions, Dropping, ShareFile, Share, Unlink
<1> QED BY <1>1, <1>2, <1>3, MovedKept DEF JobSteps

LEMMA PublishKept ==
    ASSUME BaseInv, NEW r \in Paths, Publish(r)
    PROVE  JobKept(r)
<1>1. JobOK(r) /\ BuilderInv /\ DiskTypes /\ job[r].at \in Inside /\ P(r) \in Paths /\ Class[P(r)] \in Classes
  BY PathsAssumption DEF BaseInv, CollectTypeOK, StoreTypeOK, DiskTypes, Publish, At, Inside, JobSteps, JobOK
<1>2. PICK step \in {"next", "share", "failed"} :
        /\ Go(r, step) /\ StepFits(step, Class[P(r)])
        /\ builder' = IF step \in Inside THEN builder ELSE builder \ {r}
        /\ step = "dropOld" \/ step = "setAside" => job[r].rebuild
  BY <1>1 DEF Publish, At, Leave, StepFits, JobOK, BuilderInv, InBuild, Inside, JobSteps, BuildSteps, Clearing, Classes
<1>3. DiskTypes' /\ setting' = setting
  BY <1>1 DEF Publish, DiskTypes, disks, Builds, Conditions, Dropping, ShareFile, Share, Unlink
<1> QED BY <1>1, <1>2, <1>3, MovedKept DEF JobSteps

LEMMA ShareNewKept ==
    ASSUME BaseInv, NEW r \in Paths, ShareNew(r)
    PROVE  JobKept(r)
<1>1. JobOK(r) /\ BuilderInv /\ DiskTypes /\ job[r].at \in Inside /\ P(r) \in Paths /\ Class[P(r)] \in Classes
  BY PathsAssumption DEF BaseInv, CollectTypeOK, StoreTypeOK, DiskTypes, ShareNew, At, Inside, JobSteps, JobOK
<1>2. PICK step \in {"freeze"} :
        /\ Go(r, step) /\ StepFits(step, Class[P(r)])
        /\ builder' = IF step \in Inside THEN builder ELSE builder \ {r}
        /\ step = "dropOld" \/ step = "setAside" => job[r].rebuild
  BY <1>1 DEF ShareNew, At, Leave, StepFits, JobOK, BuilderInv, InBuild, Inside, JobSteps, BuildSteps, Clearing, Classes
<1>3. DiskTypes' /\ setting' = setting
  BY <1>1 DEF ShareNew, DiskTypes, disks, Builds, Conditions, Dropping, ShareFile, Share, Unlink
<1> QED BY <1>1, <1>2, <1>3, MovedKept DEF JobSteps

LEMMA FreezeKept ==
    ASSUME BaseInv, NEW r \in Paths, Freeze(r)
    PROVE  JobKept(r)
<1>1. JobOK(r) /\ BuilderInv /\ DiskTypes /\ job[r].at \in Inside /\ P(r) \in Paths /\ Class[P(r)] \in Classes
  BY PathsAssumption DEF BaseInv, CollectTypeOK, StoreTypeOK, DiskTypes, Freeze, At, Inside, JobSteps, JobOK
<1>2. PICK step \in {"finish", "next", "undo", "failed"} :
        /\ Go(r, step) /\ StepFits(step, Class[P(r)])
        /\ builder' = IF step \in Inside THEN builder ELSE builder \ {r}
        /\ step = "dropOld" \/ step = "setAside" => job[r].rebuild
  BY <1>1 DEF Freeze, At, Leave, StepFits, JobOK, BuilderInv, InBuild, Inside, JobSteps, BuildSteps, Clearing, Classes
<1>3. DiskTypes' /\ setting' = setting
  BY <1>1 DEF Freeze, DiskTypes, disks, Builds, Conditions, Dropping, ShareFile, Share, Unlink
<1> QED BY <1>1, <1>2, <1>3, MovedKept DEF JobSteps

LEMMA SubstituteKept ==
    ASSUME BaseInv, NEW r \in Paths, Substitute(r)
    PROVE  JobKept(r)
<1>1. JobOK(r) /\ BuilderInv /\ DiskTypes /\ job[r].at \in Inside /\ P(r) \in Paths /\ Class[P(r)] \in Classes
  BY PathsAssumption DEF BaseInv, CollectTypeOK, StoreTypeOK, DiskTypes, Substitute, At, Inside, JobSteps, JobOK
<1>2. PICK step \in {"next", "failed", "share", "recover"} :
        /\ Go(r, step) /\ StepFits(step, Class[P(r)])
        /\ builder' = IF step \in Inside THEN builder ELSE builder \ {r}
        /\ step = "dropOld" \/ step = "setAside" => job[r].rebuild
  BY <1>1 DEF Substitute, At, Leave, StepFits, JobOK, BuilderInv, InBuild, Inside, JobSteps, BuildSteps, Clearing, Classes
<1>3. DiskTypes' /\ setting' = setting
  BY <1>1 DEF Substitute, DiskTypes, disks, Builds, Conditions, Dropping, ShareFile, Share, Unlink
<1> QED BY <1>1, <1>2, <1>3, MovedKept DEF JobSteps

LEMMA RecoverKept ==
    ASSUME BaseInv, NEW r \in Paths, Recover(r)
    PROVE  JobKept(r)
<1>1. JobOK(r) /\ BuilderInv /\ DiskTypes /\ job[r].at \in Inside /\ P(r) \in Paths /\ Class[P(r)] \in Classes
  BY PathsAssumption DEF BaseInv, CollectTypeOK, StoreTypeOK, DiskTypes, Recover, At, Inside, JobSteps, JobOK
<1>2. PICK step \in {"restore", "source"} :
        /\ Go(r, step) /\ StepFits(step, Class[P(r)])
        /\ builder' = IF step \in Inside THEN builder ELSE builder \ {r}
        /\ step = "dropOld" \/ step = "setAside" => job[r].rebuild
  BY <1>1 DEF Recover, At, Leave, StepFits, JobOK, BuilderInv, InBuild, Inside, JobSteps, BuildSteps, Clearing, Classes
<1>3. DiskTypes' /\ setting' = setting
  BY <1>1 DEF Recover, DiskTypes, disks, Builds, Conditions, Dropping, ShareFile, Share, Unlink
<1> QED BY <1>1, <1>2, <1>3, MovedKept DEF JobSteps

LEMMA RestoreKept ==
    ASSUME BaseInv, NEW r \in Paths, Restore(r)
    PROVE  JobKept(r)
<1>1. JobOK(r) /\ BuilderInv /\ DiskTypes /\ job[r].at \in Inside /\ P(r) \in Paths /\ Class[P(r)] \in Classes
  BY PathsAssumption DEF BaseInv, CollectTypeOK, StoreTypeOK, DiskTypes, Restore, At, Inside, JobSteps, JobOK
<1>2. PICK step \in {"source"} :
        /\ Go(r, step) /\ StepFits(step, Class[P(r)])
        /\ builder' = IF step \in Inside THEN builder ELSE builder \ {r}
        /\ step = "dropOld" \/ step = "setAside" => job[r].rebuild
  BY <1>1 DEF Restore, At, Leave, StepFits, JobOK, BuilderInv, InBuild, Inside, JobSteps, BuildSteps, Clearing, Classes
<1>3. DiskTypes' /\ setting' = setting
  BY <1>1 DEF Restore, DiskTypes, disks, Builds, Conditions, Dropping, ShareFile, Share, Unlink
<1> QED BY <1>1, <1>2, <1>3, MovedKept DEF JobSteps

LEMMA FetchSourceKept ==
    ASSUME BaseInv, NEW r \in Paths, FetchSource(r)
    PROVE  JobKept(r)
<1>1. JobOK(r) /\ BuilderInv /\ DiskTypes /\ job[r].at \in Inside /\ P(r) \in Paths /\ Class[P(r)] \in Classes
  BY PathsAssumption DEF BaseInv, CollectTypeOK, StoreTypeOK, DiskTypes, FetchSource, At, Inside, JobSteps, JobOK
<1>2. PICK step \in {"next", "failed", "dropOld", "mkdir"} :
        /\ Go(r, step) /\ StepFits(step, Class[P(r)])
        /\ builder' = IF step \in Inside THEN builder ELSE builder \ {r}
        /\ step = "dropOld" \/ step = "setAside" => job[r].rebuild
  BY <1>1 DEF FetchSource, At, Leave, StepFits, JobOK, BuilderInv, InBuild, Inside, JobSteps, BuildSteps, Clearing, Classes
<1>3. DiskTypes' /\ setting' = setting
  BY <1>1 DEF FetchSource, DiskTypes, disks, Builds, Conditions, Dropping, ShareFile, Share, Unlink
<1> QED BY <1>1, <1>2, <1>3, MovedKept DEF JobSteps

LEMMA DropOldKept ==
    ASSUME BaseInv, NEW r \in Paths, DropOld(r)
    PROVE  JobKept(r)
<1>1. JobOK(r) /\ BuilderInv /\ DiskTypes /\ job[r].at \in Inside /\ P(r) \in Paths /\ Class[P(r)] \in Classes
  BY PathsAssumption DEF BaseInv, CollectTypeOK, StoreTypeOK, DiskTypes, DropOld, At, Inside, JobSteps, JobOK
<1>2. PICK step \in {"setAside"} :
        /\ Go(r, step) /\ StepFits(step, Class[P(r)])
        /\ builder' = IF step \in Inside THEN builder ELSE builder \ {r}
        /\ step = "dropOld" \/ step = "setAside" => job[r].rebuild
  BY <1>1 DEF DropOld, At, Leave, StepFits, JobOK, BuilderInv, InBuild, Inside, JobSteps, BuildSteps, Clearing, Classes
<1>3. DiskTypes' /\ setting' = setting
  BY <1>1 DEF DropOld, DiskTypes, disks, Builds, Conditions, Dropping, ShareFile, Share, Unlink
<1> QED BY <1>1, <1>2, <1>3, MovedKept DEF JobSteps

LEMMA MkdirKept ==
    ASSUME BaseInv, NEW r \in Paths, Mkdir(r)
    PROVE  JobKept(r)
<1>1. JobOK(r) /\ BuilderInv /\ DiskTypes /\ job[r].at \in Inside /\ P(r) \in Paths /\ Class[P(r)] \in Classes
  BY PathsAssumption DEF BaseInv, CollectTypeOK, StoreTypeOK, DiskTypes, Mkdir, At, Inside, JobSteps, JobOK
<1>2. PICK step \in {"steps"} :
        /\ Go(r, step) /\ StepFits(step, Class[P(r)])
        /\ builder' = IF step \in Inside THEN builder ELSE builder \ {r}
        /\ step = "dropOld" \/ step = "setAside" => job[r].rebuild
  BY <1>1 DEF Mkdir, At, Leave, StepFits, JobOK, BuilderInv, InBuild, Inside, JobSteps, BuildSteps, Clearing, Classes
<1>3. DiskTypes' /\ setting' = setting
  BY <1>1 DEF Mkdir, DiskTypes, disks, Builds, Conditions, Dropping, ShareFile, Share, Unlink
<1> QED BY <1>1, <1>2, <1>3, MovedKept DEF JobSteps

LEMMA StepsKept ==
    ASSUME BaseInv, NEW r \in Paths, Steps(r)
    PROVE  JobKept(r)
<1>1. JobOK(r) /\ BuilderInv /\ DiskTypes /\ job[r].at \in Inside /\ P(r) \in Paths /\ Class[P(r)] \in Classes
  BY PathsAssumption DEF BaseInv, CollectTypeOK, StoreTypeOK, DiskTypes, Steps, At, Inside, JobSteps, JobOK
<1>2. PICK step \in {"share", "undo"} :
        /\ Go(r, step) /\ StepFits(step, Class[P(r)])
        /\ builder' = IF step \in Inside THEN builder ELSE builder \ {r}
        /\ step = "dropOld" \/ step = "setAside" => job[r].rebuild
  BY <1>1 DEF Steps, At, Leave, StepFits, JobOK, BuilderInv, InBuild, Inside, JobSteps, BuildSteps, Clearing, Classes
<1>3. DiskTypes' /\ setting' = setting
  BY <1>1 DEF Steps, DiskTypes, disks, Builds, Conditions, Dropping, ShareFile, Share, Unlink
<1> QED BY <1>1, <1>2, <1>3, MovedKept DEF JobSteps

LEMMA UndoKept ==
    ASSUME BaseInv, NEW r \in Paths, Undo(r)
    PROVE  JobKept(r)
<1>1. JobOK(r) /\ BuilderInv /\ DiskTypes /\ job[r].at \in Inside /\ P(r) \in Paths /\ Class[P(r)] \in Classes
  BY PathsAssumption DEF BaseInv, CollectTypeOK, StoreTypeOK, DiskTypes, Undo, At, Inside, JobSteps, JobOK
<1>2. PICK step \in {"putBack", "failed"} :
        /\ Go(r, step) /\ StepFits(step, Class[P(r)])
        /\ builder' = IF step \in Inside THEN builder ELSE builder \ {r}
        /\ step = "dropOld" \/ step = "setAside" => job[r].rebuild
  BY <1>1 DEF Undo, At, Leave, StepFits, JobOK, BuilderInv, InBuild, Inside, JobSteps, BuildSteps, Clearing, Classes
<1>3. DiskTypes' /\ setting' = setting
  BY <1>1 DEF Undo, DiskTypes, disks, Builds, Conditions, Dropping, ShareFile, Share, Unlink
<1> QED BY <1>1, <1>2, <1>3, MovedKept DEF JobSteps

LEMMA PutBackKept ==
    ASSUME BaseInv, NEW r \in Paths, PutBack(r)
    PROVE  JobKept(r)
<1>1. JobOK(r) /\ BuilderInv /\ DiskTypes /\ job[r].at \in Inside /\ P(r) \in Paths /\ Class[P(r)] \in Classes
  BY PathsAssumption DEF BaseInv, CollectTypeOK, StoreTypeOK, DiskTypes, PutBack, At, Inside, JobSteps, JobOK
<1>2. PICK step \in {"failed"} :
        /\ Go(r, step) /\ StepFits(step, Class[P(r)])
        /\ builder' = IF step \in Inside THEN builder ELSE builder \ {r}
        /\ step = "dropOld" \/ step = "setAside" => job[r].rebuild
  BY <1>1 DEF PutBack, At, Leave, StepFits, JobOK, BuilderInv, InBuild, Inside, JobSteps, BuildSteps, Clearing, Classes
<1>3. DiskTypes' /\ setting' = setting
  BY <1>1 DEF PutBack, DiskTypes, disks, Builds, Conditions, Dropping, ShareFile, Share, Unlink
<1> QED BY <1>1, <1>2, <1>3, MovedKept DEF JobSteps

LEMMA FinishKept ==
    ASSUME BaseInv, NEW r \in Paths, Finish(r)
    PROVE  JobKept(r)
<1>1. JobOK(r) /\ BuilderInv /\ DiskTypes /\ job[r].at \in Inside /\ P(r) \in Paths /\ Class[P(r)] \in Classes
  BY PathsAssumption DEF BaseInv, CollectTypeOK, StoreTypeOK, DiskTypes, Finish, At, Inside, JobSteps, JobOK
<1>2. PICK step \in {"finished", "next"} :
        /\ Go(r, step) /\ StepFits(step, Class[P(r)])
        /\ builder' = IF step \in Inside THEN builder ELSE builder \ {r}
        /\ step = "dropOld" \/ step = "setAside" => job[r].rebuild
  BY <1>1 DEF Finish, At, Leave, StepFits, JobOK, BuilderInv, InBuild, Inside, JobSteps, BuildSteps, Clearing, Classes
<1>3. DiskTypes' /\ setting' = setting
  BY <1>1 DEF Finish, DiskTypes, disks, Builds, Conditions, Dropping, ShareFile, Share, Unlink
<1> QED BY <1>1, <1>2, <1>3, MovedKept DEF JobSteps

LEMMA FinishedKept ==
    ASSUME BaseInv, NEW r \in Paths, Finished(r)
    PROVE  JobKept(r)
<1>1. JobOK(r) /\ BuilderInv /\ DiskTypes /\ job[r].at \in Inside /\ P(r) \in Paths /\ Class[P(r)] \in Classes
  BY PathsAssumption DEF BaseInv, CollectTypeOK, StoreTypeOK, DiskTypes, Finished, At, Inside, JobSteps, JobOK
<1>2. PICK step \in {"next"} :
        /\ Go(r, step) /\ StepFits(step, Class[P(r)])
        /\ builder' = IF step \in Inside THEN builder ELSE builder \ {r}
        /\ step = "dropOld" \/ step = "setAside" => job[r].rebuild
  BY <1>1 DEF Finished, At, Leave, StepFits, JobOK, BuilderInv, InBuild, Inside, JobSteps, BuildSteps, Clearing, Classes
<1>3. DiskTypes' /\ setting' = setting
  BY <1>1 DEF Finished, DiskTypes, disks, Builds, Conditions, Dropping, ShareFile, Share, Unlink
<1> QED BY <1>1, <1>2, <1>3, MovedKept DEF JobSteps

LEMMA ClearKept ==
    ASSUME BaseInv, NEW r \in Paths, Clear(r)
    PROVE  JobKept(r)
<1>1. PICK then \in {"aside", "erase", "delete", "removed"} :
        /\ RemoveStep(P(r), job[r].at, then)
        /\ Go(r, IF then = "removed" THEN "publish" ELSE then)
  BY DEF Clear
<1>2. job[r].at \in Clearing
  BY <1>1 DEF RemoveStep, Clearing
<1>3. JobOK(r) /\ DiskTypes /\ job[r].at \in Inside /\ P(r) \in Paths /\ Class[P(r)] = "artifact"
  BY <1>2, PathsAssumption DEF BaseInv, CollectTypeOK, StoreTypeOK, DiskTypes, Clearing, Inside, JobSteps, JobOK, StepFits
<1>4. DiskTypes' /\ setting' = setting
  BY <1>1, <1>3 DEF RemoveStep, Unmeta, MoveAside, DeleteInPlace, Forget, DiskTypes, Conditions
<1>5. PICK step \in Clearing \cup {"publish"} : Go(r, step)
  BY <1>1 DEF Clearing
<1>6. StepFits(step, Class[P(r)]) /\ step \in Inside /\ builder' = builder /\ step \in JobSteps \ {"idle", "done"}
      /\ step \notin {"dropOld", "setAside"}
  BY <1>3, <1>5 DEF Clear, StepFits, Clearing, BuildSteps, Inside, JobSteps
<1> QED BY <1>3, <1>4, <1>5, <1>6, MovedKept

LEMMA SetAsideKept ==
    ASSUME BaseInv, NEW r \in Paths, SetAside(r)
    PROVE  /\ JobKept(r)
           /\ job'[r].at = "mkdir" /\ job'[r].path = job[r].path /\ job'[r].todo = job[r].todo
<1> DEFINE j == [job[r] EXCEPT !.at = "mkdir", !.aside = TRUE]
<1>1. JobOK(r) /\ BuilderInv /\ StoreTypeOK /\ job[r].at = "setAside" /\ job[r].at \in Inside
      /\ P(r) \in Paths /\ job[r] \in JobStates
  BY PathsAssumption DEF BaseInv, CollectTypeOK, StoreTypeOK, SetAside, At, Inside, JobSteps, JobOK
<1>2. job' = [job EXCEPT ![r] = j]
  BY DEF SetAside
<1>3. /\ j \in JobStates
      /\ j.at = "mkdir" /\ j.path = P(r) /\ j.todo = job[r].todo /\ j.rebuild = job[r].rebuild
  BY <1>1 DEF JobStates, JobSteps, P
<1> HIDE DEF j
<1>4. job' \in [Paths -> JobStates] /\ job'[r] = j /\ \A s \in Paths \ {r} : job'[s] = job[s]
  BY <1>1, <1>2, <1>3 DEF StoreTypeOK
<1>5. InBuild(r) /\ InBuild(r)' /\ P(r)' = P(r)
  BY <1>1, <1>3, <1>4 DEF InBuild, P, JobOK, StepFits, BuildSteps, Inside, JobSteps
<1>6. BuilderInv'
  BY <1>1, <1>4, <1>5, BuilderKept DEF StoreTypeOK, SetAside
<1>7. StoreTypeOK' /\ setting' = setting
  BY <1>1, <1>4 DEF StoreTypeOK, SetAside, Builds, Conditions
<1>8. JobOK(r)'
  BY <1>1, <1>3, <1>4, <1>5, <1>7 DEF JobOK, Inside, StepFits, BuildSteps, Clearing, JobSteps
<1> QED BY <1>1, <1>3, <1>4, <1>6, <1>7, <1>8 DEF JobKept, P

LEMMA JobStepKept ==
    ASSUME BaseInv, NEW r \in Paths, JobStep(r)
    PROVE  JobKept(r)
BY PickKept, UnpackKept, SettleKept, ClearKept, PublishKept, ShareNewKept, FreezeKept,
   SubstituteKept, RecoverKept, RestoreKept, FetchSourceKept, DropOldKept, SetAsideKept,
   MkdirKept, StepsKept, UndoKept, PutBackKept, FinishKept, FinishedKept
   DEF JobStep

(* The other jobs stay as they are *)
LEMMA OthersKept ==
    ASSUME NEW r, setting' = setting, \A s \in Paths \ {r} : job'[s] = job[s],
           NEW s \in Paths \ {r}
    PROVE  JobOK(s)' <=> JobOK(s)
BY DEF JobOK, P

LEMMA WorkBase ==
    ASSUME BaseInv, NEW r \in Paths, Work(r)
    PROVE  BaseInv'
<1>1. JobKept(r) /\ UNCHANGED collectVars
  BY JobStepKept DEF Work
<1>2. CollectTypeOK'
  BY <1>1 DEF BaseInv, CollectTypeOK, JobKept, collectVars
<1>3. LockInv'
  BY <1>1 DEF BaseInv, LockInv, JobKept, collectVars
<1>4. \A s \in Paths : JobOK(s)'
  BY <1>1, OthersKept DEF BaseInv, JobKept
<1>5. \A q \in Procs : CommandOK(q)'
  BY <1>1 DEF BaseInv, CommandOK, JobKept, collectVars
<1> QED BY <1>1, <1>2, <1>3, <1>4, <1>5 DEF BaseInv, JobKept

(***************************************************************************)
(* The steps of a command.                                                 *)
(***************************************************************************)

JobsIdle == (\A r \in Paths : job[r].at = "idle") /\ builder = {}

(* The jobs are those of a command that installs *)
LEMMA NoJobs ==
    ASSUME BaseInv, holder = NoProc \/ cmd[holder].at # "jobs"
    PROVE  JobsIdle
<1>1. \A r \in Paths : job[r].at = "idle"
  BY DEF BaseInv, LockInv
<1>2. builder = {}
  BY <1>1 DEF BaseInv, BuilderInv, InBuild, Inside, CollectTypeOK, StoreTypeOK
<1> QED BY <1>1, <1>2 DEF JobsIdle

(* The types of what Collect adds to Store, but for the commands *)
CollectTypes ==
    /\ gens \subseteq Generations
    /\ pending \in BOOLEAN
    /\ staged \subseteq Generations
    /\ current \in [Profiles -> SUBSET Paths]
    /\ sessions \in [Procs -> SUBSET Paths]
    /\ exposed \subseteq Paths
    /\ gone \subseteq Projects

(* q alone takes a step *)
Turn(q) ==
    /\ cmd' \in [Procs -> CommandStates]
    /\ \A x \in Procs \ {q} : cmd'[x] = cmd[x]
    /\ setting' = setting
    /\ \/ holder \in {q, NoProc} /\ holder' = q /\ cmd'[q].at \notin {"idle", "running"}
       \/ holder = q /\ holder' = NoProc /\ cmd'[q].at \in {"idle", "running"}
       \/ holder # q /\ holder' = holder /\ cmd'[q].at \in {"idle", "running"}

LEMMA TurnKept ==
    ASSUME BaseInv, NEW q \in Procs, Turn(q), CommandOK(q)', CollectTypes', DiskTypes',
           UNCHANGED <<job, builder>>, holder # q \/ cmd[q].at # "jobs"
    PROVE  BaseInv'
<1>1. holder' \in Procs \cup {NoProc}
  BY DEF Turn, BaseInv, CollectTypeOK
<1>2. CollectTypeOK'
  BY <1>1 DEF BaseInv, CollectTypeOK, StoreTypeOK, CollectTypes, DiskTypes, Turn
<1>3. LockInv'
  BY ProcsAssumption DEF BaseInv, LockInv, Turn, CollectTypeOK
<1>4. \A s \in Paths : JobOK(s)'
  BY DEF BaseInv, JobOK, P, Turn
<1>5. BuilderInv'
  BY DEF BaseInv, BuilderInv, InBuild, P
<1>6. \A x \in Procs : CommandOK(x)'
  BY DEF BaseInv, CommandOK, Turn
<1> QED BY <1>2, <1>3, <1>4, <1>5, <1>6 DEF BaseInv

(* Step moves one command and leaves the rest of its record *)
Stepped(q, at) ==
    /\ cmd' \in [Procs -> CommandStates]
    /\ \A x \in Procs \ {q} : cmd'[x] = cmd[x]
    /\ cmd'[q].at = at
    /\ cmd'[q].name = cmd[q].name /\ cmd'[q].profile = cmd[q].profile /\ cmd'[q].roots = cmd[q].roots
    /\ cmd'[q].keep = cmd[q].keep /\ cmd'[q].doomed = cmd[q].doomed /\ cmd'[q].path = cmd[q].path

LEMMA StepMoves ==
    ASSUME cmd \in [Procs -> CommandStates], NEW q \in Procs, NEW at \in CommandSteps, Step(q, at)
    PROVE  Stepped(q, at)
<1> DEFINE c == [cmd[q] EXCEPT !.at = at]
<1>1. cmd[q] \in CommandStates /\ cmd' = [cmd EXCEPT ![q] = c]
  BY DEF Step
<1>2. /\ c \in CommandStates /\ c.at = at
      /\ c.name = cmd[q].name /\ c.profile = cmd[q].profile /\ c.roots = cmd[q].roots
      /\ c.keep = cmd[q].keep /\ c.doomed = cmd[q].doomed /\ c.path = cmd[q].path
  BY <1>1 DEF CommandStates
<1> HIDE DEF c
<1> QED BY <1>1, <1>2 DEF Stepped

LEMMA NoCmdType ==
    /\ NoCmd \in CommandStates
    /\ NoCmd.name = "none" /\ NoCmd.at = "idle" /\ NoCmd.profile = "" /\ NoCmd.roots = {}
    /\ NoCmd.keep = {} /\ NoCmd.doomed = {} /\ NoCmd.path = ""
BY DEF NoCmd, CommandStates, CommandSteps, CommandNames, Doomed

(* A command that ends *)
LEMMA EndMoves ==
    ASSUME cmd \in [Procs -> CommandStates], NEW q \in Procs, cmd' = [cmd EXCEPT ![q] = NoCmd]
    PROVE  /\ cmd' \in [Procs -> CommandStates]
           /\ \A x \in Procs \ {q} : cmd'[x] = cmd[x]
           /\ cmd'[q] = NoCmd /\ cmd'[q].at = "idle" /\ CommandOK(q)'
<1>1. cmd'[q] = NoCmd /\ cmd' \in [Procs -> CommandStates] /\ \A x \in Procs \ {q} : cmd'[x] = cmd[x]
  BY NoCmdType
<1>2. cmd'[q].at = "idle" /\ cmd'[q].name = "none"
  BY <1>1, NoCmdType
<1> QED BY <1>1, <1>2 DEF CommandOK, Clearing

(* A command that begins *)
Begun(q, name, at, profile, roots) ==
    /\ cmd' \in [Procs -> CommandStates]
    /\ \A x \in Procs \ {q} : cmd'[x] = cmd[x]
    /\ cmd'[q].name = name /\ cmd'[q].at = at /\ cmd'[q].profile = profile /\ cmd'[q].roots = roots
    /\ cmd'[q].keep = {} /\ cmd'[q].doomed = {} /\ cmd'[q].path = ""

LEMMA BeginMoves ==
    ASSUME cmd \in [Procs -> CommandStates], NEW q \in Procs, NEW c \in CommandStates,
           c.keep = {}, c.doomed = {}, c.path = "", cmd' = [cmd EXCEPT ![q] = c]
    PROVE  Begun(q, c.name, c.at, c.profile, c.roots)
BY DEF Begun

LEMMA BaseTypes ==
    ASSUME BaseInv
    PROVE  /\ cmd \in [Procs -> CommandStates] /\ CollectTypes /\ DiskTypes /\ LockInv
           /\ holder \in Procs \cup {NoProc} /\ job \in [Paths -> JobStates]
           /\ \A q \in Procs : CommandOK(q)
BY DEF BaseInv, CollectTypeOK, StoreTypeOK, CollectTypes, DiskTypes

(* The jobs of a command that begins *)
LEMMA JobsBegin ==
    ASSUME NEW roots \in SUBSET Paths, NEW rebuild \in BOOLEAN, StartJobs(roots, rebuild),
           rebuild => "rebuild" \in setting'.commands, builder' = {}
    PROVE  /\ job' \in [Paths -> JobStates]
           /\ \A r \in Paths : JobOK(r)' /\ job'[r].at = (IF r \in roots THEN "next" ELSE "idle")
           /\ \A r \in roots : job'[r].todo = Closure[r]
           /\ BuilderInv'
<1>1. Idle \in JobStates /\ Idle.at = "idle" /\ Idle.path = "" /\ Idle.todo = {} /\ Idle.rebuild = FALSE /\ Idle.aside = FALSE
  BY DEF Idle, JobStates, JobSteps
<1>2. \A r \in Paths : job'[r] = IF r \in roots
              THEN [Idle EXCEPT !.at = "next", !.todo = Closure[r],
                                !.rebuild = rebuild /\ Class[r] = "build"]
              ELSE Idle
  BY DEF StartJobs
<1>3. job' \in [Paths -> JobStates]
  <2>1. \A r \in Paths : [Idle EXCEPT !.at = "next", !.todo = Closure[r],
                                !.rebuild = rebuild /\ Class[r] = "build"] \in JobStates
    BY <1>1, PathsAssumption DEF JobStates, JobSteps
  <2> QED BY <1>1, <2>1 DEF StartJobs
<1>4. ASSUME NEW r \in Paths
      PROVE  JobOK(r)' /\ job'[r].at = (IF r \in roots THEN "next" ELSE "idle")
  <2>1. CASE r \in roots
    <3>1. job'[r].at = "next" /\ job'[r].todo = Closure[r] /\ job'[r].rebuild = (rebuild /\ Class[r] = "build") /\ ~job'[r].aside
      BY <1>1, <1>2, <2>1 DEF JobStates
    <3> QED BY <2>1, <3>1 DEF JobOK, Inside
  <2>2. CASE r \notin roots
    BY <1>1, <1>2, <2>2 DEF JobOK, Inside
  <2> QED BY <2>1, <2>2
<1>5. \A r \in roots : job'[r].todo = Closure[r]
  BY <1>1, <1>2 DEF JobStates
<1>6. BuilderInv'
  BY <1>4 DEF BuilderInv, InBuild, Inside
<1> QED BY <1>3, <1>4, <1>5, <1>6

LEMMA AllIdle ==
    ASSUME job' = [r \in Paths |-> Idle], builder' = {}
    PROVE  /\ job' \in [Paths -> JobStates]
           /\ \A r \in Paths : JobOK(r)' /\ job'[r].at = "idle"
           /\ BuilderInv' /\ JobsIdle'
<1>1. Idle \in JobStates /\ Idle.at = "idle" /\ Idle.path = "" /\ Idle.todo = {} /\ Idle.rebuild = FALSE /\ Idle.aside = FALSE
  BY DEF Idle, JobStates, JobSteps
<1>2. \A r \in Paths : job'[r] = Idle
  OBVIOUS
<1>3. \A r \in Paths : JobOK(r)' /\ job'[r].at = "idle"
  BY <1>1, <1>2 DEF JobOK, Inside
<1>4. BuilderInv' /\ JobsIdle'
  BY <1>3 DEF BuilderInv, InBuild, Inside, JobsIdle
<1> QED BY <1>1, <1>3, <1>4

(* A command that changes its jobs: they are its own, or gone *)
LEMMA JobsTurn ==
    ASSUME BaseInv, NEW q \in Procs, Turn(q), CommandOK(q)', CollectTypes', DiskTypes',
           job' \in [Paths -> JobStates], \A r \in Paths : JobOK(r)', BuilderInv', builder' = {},
           \A r \in Paths : job'[r].at # "idle" => holder' = q /\ cmd'[q].at = "jobs" /\ r \in cmd'[q].roots
    PROVE  BaseInv'
<1>1. holder' \in Procs \cup {NoProc}
  BY DEF Turn, BaseInv, CollectTypeOK
<1>2. CollectTypeOK'
  BY <1>1 DEF CollectTypeOK, StoreTypeOK, CollectTypes, DiskTypes, Turn
<1>3. LockInv'
  BY <1>1, ProcsAssumption DEF BaseInv, LockInv, Turn, CollectTypeOK
<1>4. \A x \in Procs : CommandOK(x)'
  BY DEF BaseInv, CommandOK, Turn
<1> QED BY <1>2, <1>3, <1>4 DEF BaseInv

LEMMA BeginInstallMoves ==
    ASSUME BaseInv, NEW q \in Procs, BeginInstall(q)
    PROVE  \E name \in {"install", "rebuild"}, f \in Profiles, roots \in SUBSET Paths :
             /\ name \in setting.commands /\ roots \in setting.wants
             /\ Begun(q, name, "jobs", f, roots)
             /\ holder = NoProc /\ holder' = q
             /\ StartJobs(roots, name = "rebuild")
             /\ gens' = gens \ staged /\ pending' = FALSE /\ staged' = {}
             /\ UNCHANGED <<disks, builder, current, sessions, exposed, gone>>
<1>1. PICK name \in setting.commands \cap {"install", "rebuild"},
           f \in setting.profiles \ gone, roots \in setting.wants :
        /\ Take(q)
        /\ gens' = gens \ staged /\ pending' = FALSE /\ staged' = {}
        /\ cmd' = [cmd EXCEPT ![q] = [NoCmd EXCEPT !.name = name, !.at = "jobs",
                                                   !.profile = f, !.roots = roots]]
        /\ StartJobs(roots, name = "rebuild")
        /\ UNCHANGED <<disks, builder, current, sessions, exposed, gone>>
  BY DEF BeginInstall
<1>2. setting \in Settings /\ roots \subseteq Paths /\ f \in Profiles /\ name \in CommandNames
  BY <1>1, SettingsAssumption, ProcsAssumption DEF BaseInv, CollectTypeOK, StoreTypeOK, CommandNames
<1> DEFINE c == [NoCmd EXCEPT !.name = name, !.at = "jobs", !.profile = f, !.roots = roots]
<1>3. /\ c \in CommandStates /\ c.name = name /\ c.at = "jobs" /\ c.profile = f /\ c.roots = roots
      /\ c.keep = {} /\ c.doomed = {} /\ c.path = ""
  BY <1>2, NoCmdType DEF CommandStates, CommandSteps
<1>4. cmd' = [cmd EXCEPT ![q] = c]
  BY <1>1
<1> HIDE DEF c
<1>5. Begun(q, name, "jobs", f, roots)
  BY <1>3, <1>4, BaseTypes, BeginMoves
<1> QED BY <1>1, <1>2, <1>5 DEF Take

LEMMA BeginInstallBase ==
    ASSUME BaseInv, NEW q \in Procs, BeginInstall(q)
    PROVE  BaseInv'
<1>1. PICK name \in {"install", "rebuild"}, f \in Profiles, roots \in SUBSET Paths :
        /\ name \in setting.commands
        /\ Begun(q, name, "jobs", f, roots)
        /\ holder = NoProc /\ holder' = q
        /\ StartJobs(roots, name = "rebuild")
        /\ gens' = gens \ staged /\ pending' = FALSE /\ staged' = {}
        /\ UNCHANGED <<disks, builder, current, sessions, exposed, gone>>
  BY BeginInstallMoves
<1>2. setting' = setting /\ builder' = {}
  BY <1>1, NoJobs DEF disks, JobsIdle
<1>3. /\ job' \in [Paths -> JobStates] /\ BuilderInv' /\ \A r \in Paths : JobOK(r)'
      /\ \A r \in Paths : job'[r].at = (IF r \in roots THEN "next" ELSE "idle")
  <2>1. CASE name = "rebuild"
    <3>1. StartJobs(roots, TRUE) /\ "rebuild" \in setting'.commands
      BY <1>1, <1>2, <2>1 DEF StartJobs
    <3> QED BY <1>2, <3>1, JobsBegin
  <2>2. CASE name # "rebuild"
    <3>1. StartJobs(roots, FALSE)
      BY <1>1, <2>2 DEF StartJobs
    <3> QED BY <1>2, <3>1, JobsBegin
  <2> QED BY <2>1, <2>2
<1>4. Turn(q) /\ CommandOK(q)'
  BY <1>1, <1>2 DEF Turn, Begun, CommandOK, Clearing
<1>5. CollectTypes' /\ DiskTypes'
  BY <1>1, BaseTypes DEF CollectTypes, DiskTypes, disks
<1> QED BY <1>1, <1>2, <1>3, <1>4, <1>5, JobsTurn DEF Begun

LEMMA BeginShellMoves ==
    ASSUME BaseInv, NEW q \in Procs, BeginShell(q)
    PROVE  \E roots \in SUBSET Paths :
             /\ roots \in setting.wants
             /\ Begun(q, "shell", "jobs", "", roots)
             /\ holder = NoProc /\ holder' = q
             /\ StartJobs(roots, FALSE)
             /\ UNCHANGED <<disks, builder, gens, current, pending, staged, sessions, exposed, gone>>
<1>1. PICK roots \in setting.wants \ {{}} :
        /\ Take(q)
        /\ cmd' = [cmd EXCEPT ![q] = [NoCmd EXCEPT !.name = "shell", !.at = "jobs", !.roots = roots]]
        /\ StartJobs(roots, FALSE)
        /\ UNCHANGED <<disks, builder, gens, current, pending, staged, sessions, exposed, gone>>
  BY DEF BeginShell
<1>2. setting \in Settings /\ roots \subseteq Paths
  BY <1>1, SettingsAssumption DEF BaseInv, CollectTypeOK, StoreTypeOK
<1> DEFINE c == [NoCmd EXCEPT !.name = "shell", !.at = "jobs", !.roots = roots]
<1>3. /\ c \in CommandStates /\ c.name = "shell" /\ c.at = "jobs" /\ c.profile = "" /\ c.roots = roots
      /\ c.keep = {} /\ c.doomed = {} /\ c.path = ""
  BY <1>2, NoCmdType DEF CommandStates, CommandSteps, CommandNames
<1>4. cmd' = [cmd EXCEPT ![q] = c]
  BY <1>1
<1> HIDE DEF c
<1>5. Begun(q, "shell", "jobs", "", roots)
  BY <1>3, <1>4, BaseTypes, BeginMoves
<1> QED BY <1>1, <1>2, <1>5 DEF Take

LEMMA BeginShellBase ==
    ASSUME BaseInv, NEW q \in Procs, BeginShell(q)
    PROVE  BaseInv'
<1>1. PICK roots \in SUBSET Paths :
        /\ Begun(q, "shell", "jobs", "", roots)
        /\ holder = NoProc /\ holder' = q
        /\ StartJobs(roots, FALSE)
        /\ UNCHANGED <<disks, builder, gens, current, pending, staged, sessions, exposed, gone>>
  BY BeginShellMoves
<1>2. setting' = setting /\ builder' = {}
  BY <1>1, NoJobs DEF disks, JobsIdle
<1>3. /\ job' \in [Paths -> JobStates] /\ BuilderInv' /\ \A r \in Paths : JobOK(r)'
      /\ \A r \in Paths : job'[r].at = (IF r \in roots THEN "next" ELSE "idle")
  BY <1>1, <1>2, JobsBegin
<1>4. Turn(q) /\ CommandOK(q)'
  BY <1>1, <1>2 DEF Turn, Begun, CommandOK, Clearing
<1>5. CollectTypes' /\ DiskTypes'
  BY <1>1, BaseTypes DEF CollectTypes, DiskTypes, disks
<1> QED BY <1>1, <1>2, <1>3, <1>4, <1>5, JobsTurn DEF Begun

LEMMA BeginGCMoves ==
    ASSUME BaseInv, NEW q \in Procs, BeginGC(q)
    PROVE  /\ Begun(q, "gc", "roots", "", {}) /\ holder = NoProc /\ holder' = q
           /\ UNCHANGED <<storeVars, gens, current, pending, staged, sessions, exposed, gone>>
<1> DEFINE c == [NoCmd EXCEPT !.name = "gc", !.at = "roots"]
<1>1. /\ c \in CommandStates /\ c.name = "gc" /\ c.at = "roots" /\ c.profile = "" /\ c.roots = {}
      /\ c.keep = {} /\ c.doomed = {} /\ c.path = ""
  BY NoCmdType DEF CommandStates, CommandSteps, CommandNames
<1>2. cmd' = [cmd EXCEPT ![q] = c] /\ holder = NoProc /\ holder' = q
  BY DEF BeginGC, Take
<1>3. UNCHANGED <<storeVars, gens, current, pending, staged, sessions, exposed, gone>>
  BY DEF BeginGC
<1> HIDE DEF c
<1> QED BY <1>1, <1>2, <1>3, BaseTypes, BeginMoves

LEMMA BeginGCBase ==
    ASSUME BaseInv, NEW q \in Procs, BeginGC(q)
    PROVE  BaseInv'
<1>1. Turn(q) /\ CommandOK(q)' /\ CollectTypes' /\ DiskTypes' /\ holder # q /\ UNCHANGED <<job, builder>>
  BY BeginGCMoves, BaseTypes, ProcsAssumption
     DEF Turn, Begun, CommandOK, Clearing, CollectTypes, DiskTypes, storeVars, disks
<1> QED BY <1>1, TurnKept

LEMMA BeginRepairMoves ==
    ASSUME BaseInv, NEW q \in Procs, BeginRepair(q)
    PROVE  /\ holder = NoProc /\ holder' = q /\ "repair" \in setting.commands
           /\ \E f \in Profiles : Begun(q, "repair", "scan", f, {})
           /\ UNCHANGED <<storeVars, gens, current, pending, staged, sessions, exposed, gone>>
<1>1. PICK f \in setting.profiles :
        /\ "repair" \in setting.commands
        /\ Take(q)
        /\ cmd' = [cmd EXCEPT ![q] = [NoCmd EXCEPT !.name = "repair", !.at = "scan", !.profile = f]]
        /\ UNCHANGED <<storeVars, gens, current, pending, staged, sessions, exposed, gone>>
  BY DEF BeginRepair
<1>2. f \in Profiles
  BY <1>1, ProcsAssumption DEF BaseInv, CollectTypeOK, StoreTypeOK
<1> DEFINE c == [NoCmd EXCEPT !.name = "repair", !.at = "scan", !.profile = f]
<1>3. /\ c \in CommandStates /\ c.name = "repair" /\ c.at = "scan" /\ c.profile = f /\ c.roots = {}
      /\ c.keep = {} /\ c.doomed = {} /\ c.path = ""
  BY <1>2, NoCmdType DEF CommandStates, CommandSteps, CommandNames
<1>4. cmd' = [cmd EXCEPT ![q] = c]
  BY <1>1
<1> HIDE DEF c
<1>5. Begun(q, "repair", "scan", f, {})
  BY <1>3, <1>4, BaseTypes, BeginMoves
<1> QED BY <1>1, <1>2, <1>5 DEF Take

LEMMA BeginRepairBase ==
    ASSUME BaseInv, NEW q \in Procs, BeginRepair(q)
    PROVE  BaseInv'
<1>1. Turn(q) /\ CommandOK(q)' /\ CollectTypes' /\ DiskTypes' /\ holder # q /\ UNCHANGED <<job, builder>>
  BY BeginRepairMoves, BaseTypes, ProcsAssumption
     DEF Turn, Begun, CommandOK, Clearing, CollectTypes, DiskTypes, storeVars, disks
<1> QED BY <1>1, TurnKept

LEMMA EndBase ==
    ASSUME BaseInv, NEW q \in Procs, End(q), holder = q, cmd[q].at # "jobs",
           UNCHANGED <<job, builder, setting>>, CollectTypes', DiskTypes'
    PROVE  BaseInv'
<1>1. Turn(q) /\ CommandOK(q)'
  BY BaseTypes, EndMoves DEF End, Turn
<1> QED BY <1>1, TurnKept

LEMMA StepBase ==
    ASSUME BaseInv, NEW q \in Procs, NEW at \in CommandSteps \ {"idle", "running"}, Step(q, at), holder = q,
           cmd[q].at # "jobs", UNCHANGED <<holder, job, builder, setting>>, CollectTypes', DiskTypes',
           Stepped(q, at) => CommandOK(q)'
    PROVE  BaseInv'
<1>1. Stepped(q, at)
  BY BaseTypes, StepMoves
<1>2. Turn(q)
  BY <1>1 DEF Turn, Stepped
<1> QED BY <1>1, <1>2, TurnKept

LEMMA JobsEndBase ==
    ASSUME BaseInv, NEW q \in Procs, JobsEnd(q)
    PROVE  BaseInv'
<1>1. holder = q /\ cmd[q].at = "jobs" /\ q # NoProc
  BY ProcsAssumption DEF JobsEnd, Holds
<1>2. \A r \in Paths : job[r].at \in {"idle", "done", "failed"}
  BY <1>1 DEF BaseInv, LockInv, JobsEnd
<1>3. builder' = {} /\ setting' = setting
  BY <1>2 DEF BaseInv, BuilderInv, InBuild, Inside, CollectTypeOK, StoreTypeOK, JobsEnd, disks
<1>4. CollectTypes' /\ DiskTypes'
  BY BaseTypes DEF CollectTypes, DiskTypes, disks, JobsEnd
<1>5. Turn(q) /\ CommandOK(q)'
  <2>1. CASE \E r \in cmd[q].roots : At(r, "failed")
    BY <1>1, <1>3, <2>1, BaseTypes, EndMoves DEF JobsEnd, End, Turn
  <2>2. CASE ~\E r \in cmd[q].roots : At(r, "failed")
    <3>1. PICK at \in {"hold", "stage"} : Step(q, at) /\ (at = "stage" => cmd[q].name # "shell") /\ holder' = holder
      BY <2>2 DEF JobsEnd
    <3>2. Stepped(q, at)
      BY <3>1, BaseTypes, StepMoves DEF CommandSteps
    <3> QED BY <1>1, <1>3, <3>1, <3>2, BaseTypes DEF Turn, Stepped, CommandOK, Clearing
  <2> QED BY <2>1, <2>2
<1>6. /\ job' \in [Paths -> JobStates] /\ BuilderInv'
      /\ \A r \in Paths : JobOK(r)' /\ job'[r].at = "idle"
  BY <1>3, AllIdle DEF JobsEnd
<1> QED BY <1>3, <1>4, <1>5, <1>6, JobsTurn

LEMMA StageBase ==
    ASSUME BaseInv, NEW q \in Procs, Stage(q)
    PROVE  BaseInv'
<1>1. holder = q /\ cmd[q].at = "stage" /\ Step(q, "activate") /\ UNCHANGED <<holder, job, builder, setting>>
  BY DEF Stage, Holds, storeVars, disks
<1>2. <<cmd[q].profile, cmd[q].roots>> \in Generations
  BY <1>1, BaseTypes DEF CommandOK, CommandStates, Generations
<1>3. CollectTypes' /\ DiskTypes'
  BY <1>2, BaseTypes DEF Stage, CollectTypes, DiskTypes, storeVars, disks
<1>4. Stepped(q, "activate") => CommandOK(q)'
  BY <1>1, BaseTypes DEF Stepped, CommandOK, Clearing, Stage, storeVars, disks
<1> QED BY <1>1, <1>3, <1>4, StepBase DEF CommandSteps

LEMMA ActivateBase ==
    ASSUME BaseInv, NEW q \in Procs, Activate(q)
    PROVE  BaseInv'
<1>1. holder = q /\ cmd[q].at = "activate" /\ End(q) /\ UNCHANGED <<job, builder, setting>>
  BY DEF Activate, Holds, storeVars, disks
<1>2. cmd[q].profile \in Profiles /\ cmd[q].roots \subseteq Paths
  BY <1>1, BaseTypes DEF CommandOK, CommandStates
<1>3. CollectTypes' /\ DiskTypes'
  BY <1>2, BaseTypes DEF Activate, CollectTypes, DiskTypes, storeVars, disks
<1> QED BY <1>1, <1>3, EndBase

LEMMA ClosurePaths ==
    ASSUME NEW roots \in SUBSET Paths
    PROVE  ClosureOf(roots) \subseteq Paths
BY PathsAssumption DEF ClosureOf

LEMMA HoldSessionBase ==
    ASSUME BaseInv, NEW q \in Procs, HoldSession(q)
    PROVE  BaseInv'
<1>1. holder = q /\ cmd[q].at = "hold" /\ Step(q, "running") /\ holder' = NoProc /\ UNCHANGED <<job, builder, setting>>
  BY DEF HoldSession, Holds, storeVars, disks
<1>2. Stepped(q, "running")
  BY <1>1, BaseTypes, StepMoves DEF CommandSteps
<1>3. ClosureOf(cmd[q].roots) \subseteq Paths
  BY BaseTypes, ClosurePaths DEF CommandStates
<1>4. CollectTypes' /\ DiskTypes'
  BY <1>3, BaseTypes DEF HoldSession, CollectTypes, DiskTypes, storeVars, disks
<1>5. Turn(q) /\ CommandOK(q)'
  BY <1>1, <1>2, BaseTypes DEF Turn, Stepped, CommandOK, Clearing
<1> QED BY <1>1, <1>4, <1>5, TurnKept

LEMMA EndSessionBase ==
    ASSUME BaseInv, NEW q \in Procs, EndSession(q)
    PROVE  BaseInv'
<1>1. holder # q /\ holder' = holder /\ UNCHANGED <<job, builder, setting>>
  BY BaseTypes, ProcsAssumption DEF EndSession, LockInv, storeVars, disks
<1>2. CollectTypes' /\ DiskTypes'
  BY BaseTypes DEF EndSession, CollectTypes, DiskTypes, storeVars, disks
<1>3. Turn(q) /\ CommandOK(q)'
  BY <1>1, BaseTypes, EndMoves DEF EndSession, Turn
<1> QED BY <1>1, <1>2, <1>3, TurnKept

LEMMA LivePaths ==
    ASSUME CollectTypes
    PROVE  LiveRoots \subseteq Paths
<1>1. ExposedRoots \subseteq Paths
  BY PathsAssumption DEF ExposedRoots, CollectTypes
<1>2. SessionRoots \subseteq Paths
  BY DEF SessionRoots, CollectTypes
<1> QED BY <1>1, <1>2 DEF LiveRoots

(* The look at the roots *)
Rooted(q) ==
    /\ cmd' \in [Procs -> CommandStates]
    /\ \A x \in Procs \ {q} : cmd'[x] = cmd[x]
    /\ cmd'[q].at = "projects" /\ cmd'[q].name = cmd[q].name /\ cmd'[q].keep = LiveRoots

LEMMA RootsMoves ==
    ASSUME BaseInv, NEW q \in Procs, Roots(q), ~pending
    PROVE  Rooted(q)
<1> DEFINE live == LiveRoots
           c == [cmd[q] EXCEPT !.at = "projects", !.keep = live]
<1>1. cmd[q] \in CommandStates /\ cmd' = [cmd EXCEPT ![q] = c] /\ live \subseteq Paths /\ cmd \in [Procs -> CommandStates]
  BY BaseTypes, LivePaths DEF Roots
<1> HIDE DEF live
<1>2. c \in CommandStates /\ c.at = "projects" /\ c.name = cmd[q].name /\ c.keep = live
  BY <1>1 DEF CommandStates, CommandSteps
<1> HIDE DEF c
<1> QED BY <1>1, <1>2 DEF Rooted, live

LEMMA RootsBase ==
    ASSUME BaseInv, NEW q \in Procs, Roots(q)
    PROVE  BaseInv'
<1>1. holder = q /\ cmd[q].at = "roots" /\ UNCHANGED <<job, builder, setting>>
  BY DEF Roots, Holds, storeVars, disks
<1>2. CollectTypes' /\ DiskTypes'
  BY BaseTypes DEF Roots, CollectTypes, DiskTypes, storeVars, disks
<1>3. CASE pending
  BY <1>1, <1>2, <1>3, EndBase DEF Roots
<1>4. CASE ~pending
  <2>1. Rooted(q) /\ holder' = holder
    BY <1>4, RootsMoves DEF Roots
  <2>2. Turn(q) /\ CommandOK(q)'
    BY <1>1, <2>1, BaseTypes DEF Rooted, Turn, CommandOK, Clearing
  <2> QED BY <1>1, <1>2, <2>2, TurnKept
<1> QED BY <1>3, <1>4

LEMMA RemoveGoneProjectsBase ==
    ASSUME BaseInv, NEW q \in Procs, RemoveGoneProjects(q)
    PROVE  BaseInv'
<1>1. holder = q /\ cmd[q].at = "projects" /\ Step(q, "prune") /\ UNCHANGED <<holder, job, builder, setting>>
  BY DEF RemoveGoneProjects, Holds, storeVars, disks
<1>2. CollectTypes' /\ DiskTypes'
  BY BaseTypes DEF RemoveGoneProjects, CollectTypes, DiskTypes, storeVars, disks
<1>3. Stepped(q, "prune") => CommandOK(q)'
  BY <1>1, BaseTypes DEF Stepped, CommandOK, Clearing
<1> QED BY <1>1, <1>2, <1>3, StepBase DEF CommandSteps

LEMMA PruneBase ==
    ASSUME BaseInv, NEW q \in Procs, Prune(q)
    PROVE  BaseInv'
<1>1. holder = q /\ cmd[q].at = "prune" /\ UNCHANGED <<holder, job, builder, setting>>
  BY DEF Prune, Holds, storeVars, disks
<1>2. CollectTypes' /\ DiskTypes'
  BY BaseTypes DEF Prune, CollectTypes, DiskTypes, storeVars, disks
<1>3. CASE UNCHANGED cmd
  BY <1>1, <1>2, <1>3, BaseTypes, TurnKept DEF Turn, CommandOK
<1>4. CASE Step(q, "mark")
  <2>1. Stepped(q, "mark") => CommandOK(q)'
    BY <1>1, BaseTypes DEF Stepped, CommandOK, Clearing
  <2> QED BY <1>1, <1>2, <1>4, <2>1, StepBase DEF CommandSteps
<1> QED BY <1>3, <1>4 DEF Prune

(* Mark and Scan choose what goes *)
Chosen(q, doomed) ==
    /\ cmd' \in [Procs -> CommandStates]
    /\ \A x \in Procs \ {q} : cmd'[x] = cmd[x]
    /\ cmd'[q].at = "sweep" /\ cmd'[q].doomed = doomed
    /\ cmd'[q].name = cmd[q].name /\ cmd'[q].keep = cmd[q].keep /\ cmd'[q].roots = cmd[q].roots

LEMMA ChoiceMoves ==
    ASSUME BaseInv, NEW q \in Procs, NEW doomed \in SUBSET Doomed,
           cmd' = [cmd EXCEPT ![q].at = "sweep", ![q].doomed = doomed]
    PROVE  Chosen(q, doomed)
<1> DEFINE c == [cmd[q] EXCEPT !.at = "sweep", !.doomed = doomed]
<1>1. cmd[q] \in CommandStates /\ cmd' = [cmd EXCEPT ![q] = c] /\ cmd \in [Procs -> CommandStates]
  BY BaseTypes
<1>2. /\ c \in CommandStates /\ c.at = "sweep" /\ c.doomed = doomed
      /\ c.name = cmd[q].name /\ c.keep = cmd[q].keep /\ c.roots = cmd[q].roots
  BY <1>1 DEF CommandStates, CommandSteps
<1> HIDE DEF c
<1> QED BY <1>1, <1>2 DEF Chosen

LEMMA ChoiceBase ==
    ASSUME BaseInv, NEW q \in Procs, NEW doomed, Chosen(q, doomed), holder = q, cmd[q].at \in {"mark", "scan"},
           UNCHANGED <<storeVars, holder, gens, current, pending, staged, sessions, exposed, gone>>
    PROVE  BaseInv'
<1>1. UNCHANGED <<job, builder, setting>> /\ CollectTypes' /\ DiskTypes'
  BY BaseTypes DEF CollectTypes, DiskTypes, storeVars, disks
<1>2. Turn(q) /\ CommandOK(q)'
  BY <1>1, BaseTypes DEF Chosen, Turn, CommandOK, Clearing
<1> QED BY <1>1, <1>2, TurnKept

LEMMA UnreferencedType ==
    ASSUME DiskTypes, NEW used
    PROVE  Unreferenced(used) \subseteq Doomed
BY DEF Unreferenced, Doomed, DiskTypes

LEMMA MarkChooses ==
    ASSUME BaseInv, NEW q \in Procs, Mark(q)
    PROVE  Chosen(q, Unreferenced(Used(cmd[q].keep)))
<1> DEFINE d == Unreferenced(Used(cmd[q].keep))
<1>1. d \subseteq Doomed /\ cmd' = [cmd EXCEPT ![q].at = "sweep", ![q].doomed = d]
  BY BaseTypes, UnreferencedType DEF Mark
<1> HIDE DEF d
<1>2. Chosen(q, d)
  BY <1>1, ChoiceMoves
<1> QED BY <1>2 DEF d

LEMMA MarkBase ==
    ASSUME BaseInv, NEW q \in Procs, Mark(q)
    PROVE  BaseInv'
<1>1. Chosen(q, Unreferenced(Used(cmd[q].keep)))
  BY MarkChooses
<1> QED BY <1>1, ChoiceBase DEF Mark, Holds

LEMMA ScanChooses ==
    ASSUME BaseInv, NEW q \in Procs, Scan(q)
    PROVE  End(q) \/ (UNCHANGED holder /\ \E d \in SUBSET Doomed : Chosen(q, d))
<1> DEFINE packages == {p \in ClosureOf(current[cmd[q].profile]) : Class[p] # "tree"}
           d == {<<"path", p>> : p \in {x \in packages : Changed(x)}}
<1>1. /\ cmd[q].at = "scan"
      /\ \/ End(q)
         \/ cmd' = [cmd EXCEPT ![q].at = "sweep", ![q].doomed = d] /\ UNCHANGED holder
  BY DEF Scan, Holds
<1>2. packages \subseteq Paths
  BY <1>1, BaseTypes, ClosurePaths DEF CommandOK, CollectTypes
<1>3. d \subseteq Doomed
  BY <1>2 DEF Doomed
<1> HIDE DEF d
<1> QED BY <1>1, <1>3, ChoiceMoves

LEMMA ScanBase ==
    ASSUME BaseInv, NEW q \in Procs, Scan(q)
    PROVE  BaseInv'
<1>1. /\ holder = q /\ cmd[q].at = "scan"
      /\ UNCHANGED <<storeVars, gens, current, pending, staged, sessions, exposed, gone>>
  BY DEF Scan, Holds
<1>2. CASE End(q)
  BY <1>1, <1>2, EndBase, BaseTypes DEF CollectTypes, DiskTypes, storeVars, disks
<1>3. CASE ~End(q)
  BY <1>1, <1>3, ScanChooses, ChoiceBase
<1> QED BY <1>2, <1>3

(* Sweep takes one of what is doomed *)
Takes(q, d) ==
    /\ d \in cmd[q].doomed /\ d \in Doomed
    /\ cmd' \in [Procs -> CommandStates]
    /\ \A x \in Procs \ {q} : cmd'[x] = cmd[x]
    /\ cmd'[q].at = IF d[1] = "path" THEN "unmeta" ELSE "sweep"
    /\ cmd'[q].doomed = cmd[q].doomed \ {d} /\ cmd'[q].path = d[2]
    /\ cmd'[q].name = cmd[q].name /\ cmd'[q].keep = cmd[q].keep /\ cmd'[q].roots = cmd[q].roots

LEMMA SweepTakes ==
    ASSUME BaseInv, NEW q \in Procs, NEW d \in cmd[q].doomed,
           cmd' = [cmd EXCEPT ![q].doomed = @ \ {d}, ![q].path = d[2],
                              ![q].at = IF d[1] = "path" THEN "unmeta" ELSE "sweep"]
    PROVE  Takes(q, d)
<1> DEFINE at == IF d[1] = "path" THEN "unmeta" ELSE "sweep"
           c == [cmd[q] EXCEPT !.doomed = cmd[q].doomed \ {d}, !.path = d[2], !.at = at]
<1>1. cmd[q] \in CommandStates /\ cmd' = [cmd EXCEPT ![q] = c] /\ cmd \in [Procs -> CommandStates]
  BY BaseTypes
<1>2. d \in Doomed /\ d[2] \in Paths /\ at \in CommandSteps /\ cmd[q].doomed \subseteq Doomed
  BY <1>1 DEF CommandStates, CommandSteps, Doomed
<1> HIDE DEF at
<1>3. /\ c \in CommandStates /\ c.at = at /\ c.doomed = cmd[q].doomed \ {d} /\ c.path = d[2]
      /\ c.name = cmd[q].name /\ c.keep = cmd[q].keep /\ c.roots = cmd[q].roots
  BY <1>1, <1>2 DEF CommandStates
<1> HIDE DEF c
<1>4. cmd'[q] = c /\ cmd' \in [Procs -> CommandStates] /\ \A x \in Procs \ {q} : cmd'[x] = cmd[x]
  BY <1>1, <1>3
<1> QED BY <1>2, <1>3, <1>4 DEF Takes, at

LEMMA SweepBase ==
    ASSUME BaseInv, NEW q \in Procs, Sweep(q)
    PROVE  BaseInv'
<1>1. holder = q /\ cmd[q].at = "sweep" /\ UNCHANGED <<gens, current, pending, staged, sessions, exposed, gone>>
  BY DEF Sweep, Holds
<1>2. CollectTypes'
  BY <1>1, BaseTypes DEF CollectTypes
<1>3. CASE cmd[q].doomed = {} /\ UNCHANGED storeVars /\ cmd[q].name = "gc" /\ Step(q, "links") /\ UNCHANGED holder
  <2>1. DiskTypes' /\ UNCHANGED <<holder, job, builder, setting>>
    BY <1>3, BaseTypes DEF DiskTypes, storeVars, disks
  <2>2. Stepped(q, "links") => CommandOK(q)'
    BY <1>1, <1>3, BaseTypes DEF Stepped, CommandOK, Clearing
  <2> QED BY <1>1, <1>2, <1>3, <2>1, <2>2, StepBase DEF CommandSteps
<1>4. CASE UNCHANGED storeVars /\ End(q)
  BY <1>1, <1>2, <1>4, EndBase, BaseTypes DEF DiskTypes, storeVars, disks
<1>5. ASSUME NEW d \in cmd[q].doomed,
             cmd' = [cmd EXCEPT ![q].doomed = @ \ {d}, ![q].path = d[2],
                                ![q].at = IF d[1] = "path" THEN "unmeta" ELSE "sweep"],
             old' = IF d[1] = "old" THEN [old EXCEPT ![d[2]] = "gone"] ELSE old,
             temps' = IF d[1] = "temp" THEN temps \ {d[2]} ELSE temps,
             UNCHANGED <<setting, disk, frozen, entry, linked, edited, touched, records,
                         job, builder, holder>>
      PROVE  BaseInv'
  <2>1. Takes(q, d)
    BY <1>5, SweepTakes
  <2>2. DiskTypes'
    BY <1>5, BaseTypes DEF DiskTypes, Conditions
  <2>3. Turn(q)
    BY <1>1, <1>5, <2>1 DEF Takes, Turn
  <2>4. CommandOK(q)'
    BY <1>1, <1>5, <2>1, BaseTypes DEF Takes, CommandOK, Clearing, Doomed
  <2> QED BY <1>1, <1>2, <1>5, <2>2, <2>3, <2>4, TurnKept
<1> QED BY <1>1, <1>3, <1>4, <1>5 DEF Sweep

LEMMA RemoveStepTypes ==
    ASSUME DiskTypes, NEW p \in Paths, NEW step, NEW then, RemoveStep(p, step, then)
    PROVE  DiskTypes' /\ setting' = setting
BY DEF RemoveStep, Unmeta, MoveAside, DeleteInPlace, Forget, DiskTypes, Conditions

(* What one step of Remove does to its command *)
LEMMA RemoveMoves ==
    ASSUME BaseInv, NEW q \in Procs, Remove(q)
    PROVE  \E then \in {"aside", "erase", "delete", "removed"} :
             /\ RemoveStep(cmd[q].path, cmd[q].at, then)
             /\ Stepped(q, IF then = "removed" THEN "sweep" ELSE then)
             /\ cmd[q].at \in Clearing /\ cmd[q].path \in Paths
<1>1. PICK then \in {"aside", "erase", "delete", "removed"} :
             /\ RemoveStep(cmd[q].path, cmd[q].at, then)
             /\ Step(q, IF then = "removed" THEN "sweep" ELSE then)
  BY DEF Remove
<1> DEFINE at == IF then = "removed" THEN "sweep" ELSE then
<1>2. at \in CommandSteps /\ Step(q, at)
  BY <1>1 DEF CommandSteps
<1>3. cmd[q].at \in Clearing
  BY <1>1 DEF RemoveStep, Clearing
<1> HIDE DEF at
<1>4. Stepped(q, at)
  BY <1>2, BaseTypes, StepMoves
<1> QED BY <1>1, <1>3, <1>4, BaseTypes DEF at, CommandOK

LEMMA RemoveBase ==
    ASSUME BaseInv, NEW q \in Procs, Remove(q)
    PROVE  BaseInv'
<1>1. PICK then \in {"aside", "erase", "delete", "removed"} :
             /\ RemoveStep(cmd[q].path, cmd[q].at, then)
             /\ Stepped(q, IF then = "removed" THEN "sweep" ELSE then)
             /\ cmd[q].at \in Clearing /\ cmd[q].path \in Paths
  BY RemoveMoves
<1>2. DiskTypes' /\ setting' = setting
  BY <1>1, RemoveStepTypes, BaseTypes
<1>3. CollectTypes' /\ holder = q /\ UNCHANGED <<job, builder, holder>> /\ cmd[q].at # "jobs"
  BY <1>1, BaseTypes DEF Remove, CollectTypes, Clearing
<1>4. Turn(q)
  BY <1>1, <1>2, <1>3 DEF Stepped, Turn
<1>5. CommandOK(q)'
  BY <1>1, <1>2, BaseTypes DEF Stepped, CommandOK, Clearing
<1> QED BY <1>2, <1>3, <1>4, <1>5, TurnKept

LEMMA LinksBase ==
    ASSUME BaseInv, NEW q \in Procs, Links(q)
    PROVE  BaseInv'
<1>1. holder = q /\ cmd[q].at = "links" /\ Step(q, "share") /\ UNCHANGED <<holder, job, builder, setting>>
  BY DEF Links, Holds, DropLinks
<1>2. CollectTypes' /\ DiskTypes'
  BY BaseTypes DEF Links, DropLinks, Unlink, CollectTypes, DiskTypes
<1>3. Stepped(q, "share") => CommandOK(q)'
  BY <1>1, BaseTypes DEF Stepped, CommandOK, Clearing
<1> QED BY <1>1, <1>2, <1>3, StepBase DEF CommandSteps

LEMMA ShareUnsharedBase ==
    ASSUME BaseInv, NEW q \in Procs, ShareUnshared(q)
    PROVE  BaseInv'
<1>1. holder = q /\ cmd[q].at = "share" /\ UNCHANGED <<gens, current, pending, staged, sessions, exposed, gone>>
  BY DEF ShareUnshared, Holds
<1>2. CollectTypes'
  BY <1>1, BaseTypes DEF CollectTypes
<1>3. CASE End(q) /\ UNCHANGED storeVars
  BY <1>1, <1>2, <1>3, EndBase, BaseTypes DEF DiskTypes, storeVars, disks
<1>4. ASSUME NEW p \in Unshared, ShareOld(p), UNCHANGED <<cmd, holder, job, builder>>
      PROVE  BaseInv'
  <2>1. p \in Paths
    BY PathsAssumption DEF Unshared
  <2>2. DiskTypes' /\ setting' = setting
    BY <1>4, <2>1, BaseTypes DEF DiskTypes, ShareOld, ShareFile, Share, Unlink
  <2>3. Turn(q) /\ CommandOK(q)'
    BY <1>1, <1>4, <2>2, BaseTypes DEF Turn, CommandOK
  <2> QED BY <1>1, <1>2, <1>4, <2>2, <2>3, TurnKept
<1> QED BY <1>3, <1>4 DEF ShareUnshared

LEMMA KillBase ==
    ASSUME BaseInv, NEW q \in Procs, Kill(q)
    PROVE  BaseInv'
<1>1. /\ cmd' \in [Procs -> CommandStates] /\ cmd'[q].at = "idle" /\ CommandOK(q)'
      /\ \A x \in Procs \ {q} : cmd'[x] = cmd[x]
      /\ CollectTypes'
  BY BaseTypes, EndMoves DEF Kill, CollectTypes
<1>2. CASE holder # q
  <2>1. UNCHANGED <<job, builder, setting, holder>> /\ DiskTypes'
    BY <1>2, BaseTypes DEF Kill, storeVars, disks, DiskTypes
  <2>2. Turn(q)
    BY <1>1, <1>2, <2>1 DEF Turn
  <2> QED BY <1>1, <1>2, <2>1, <2>2, TurnKept
<1>3. CASE holder = q /\ cmd[q].at = "jobs"
  <2>1. Abandon /\ holder' = NoProc
    BY <1>3 DEF Kill
  <2>2. \A r \in Paths : job[r].at \in {"settle", "unmeta", "aside", "erase", "delete", "publish"} => P(r) \in Paths
    BY PathsAssumption DEF BaseInv, JobOK, Inside, JobSteps
  <2>3. DiskTypes' /\ setting' = setting
    BY <2>1, <2>2, BaseTypes DEF Abandon, DiskTypes
  <2>4. Turn(q)
    BY <1>1, <1>3, <2>1, <2>3 DEF Turn
  <2>5. /\ job' \in [Paths -> JobStates] /\ BuilderInv' /\ builder' = {}
        /\ \A r \in Paths : JobOK(r)' /\ job'[r].at = "idle"
    BY <2>1, AllIdle DEF Abandon
  <2> QED BY <1>1, <2>3, <2>4, <2>5, JobsTurn
<1>4. CASE holder = q /\ cmd[q].at # "jobs"
  <2>1. /\ holder' = NoProc
        /\ temps' = IF cmd[q].at = "erase" THEN temps \cup {cmd[q].path} ELSE temps
        /\ UNCHANGED <<setting, disk, old, frozen, entry, linked, edited, touched, records, job, builder>>
    BY <1>4 DEF Kill
  <2>2. DiskTypes'
    BY <2>1, BaseTypes DEF DiskTypes, CommandOK, Clearing
  <2>3. Turn(q)
    BY <1>1, <1>4, <2>1 DEF Turn
  <2> QED BY <1>1, <1>4, <2>1, <2>2, <2>3, TurnKept
<1> QED BY <1>2, <1>3, <1>4

LEMMA AroundBase ==
    ASSUME BaseInv, UNCHANGED <<holder, cmd, job, builder, setting>>, CollectTypes', DiskTypes'
    PROVE  BaseInv'
<1>1. CollectTypeOK' /\ LockInv'
  BY DEF BaseInv, CollectTypeOK, StoreTypeOK, CollectTypes, DiskTypes, LockInv
<1>2. (\A r \in Paths : JobOK(r)') /\ BuilderInv' /\ \A q \in Procs : CommandOK(q)'
  BY DEF BaseInv, JobOK, BuilderInv, InBuild, P, CommandOK
<1> QED BY <1>1, <1>2 DEF BaseInv

LEMMA DeleteProjectBase ==
    ASSUME BaseInv, NEW f \in Projects, DeleteProject(f)
    PROVE  BaseInv'
<1>1. CollectTypes' /\ DiskTypes' /\ UNCHANGED <<holder, cmd, job, builder, setting>>
  BY BaseTypes DEF DeleteProject, CollectTypes, DiskTypes, storeVars, disks
<1> QED BY <1>1, AroundBase

LEMMA EditFileBase ==
    ASSUME BaseInv, NEW p \in Paths, EditFile(p)
    PROVE  BaseInv'
<1>1. CollectTypes' /\ DiskTypes' /\ UNCHANGED <<holder, cmd, job, builder, setting>>
  BY BaseTypes DEF EditFile, Edit, CollectTypes, DiskTypes, collectVars
<1> QED BY <1>1, AroundBase

LEMMA InitBase == Init => BaseInv
<1> SUFFICES ASSUME Init PROVE BaseInv
  OBVIOUS
<1>1. Idle \in JobStates /\ Idle.at = "idle" /\ Idle.path = "" /\ Idle.todo = {} /\ Idle.rebuild = FALSE /\ Idle.aside = FALSE
  BY DEF Idle, JobStates, JobSteps
<1>2. job \in [Paths -> JobStates] /\ \A r \in Paths : JobOK(r) /\ job[r].at = "idle"
  BY <1>1 DEF Init, StoreInit, JobOK, Inside
<1>3. cmd \in [Procs -> CommandStates] /\ \A q \in Procs : CommandOK(q) /\ cmd[q].at = "idle"
  BY NoCmdType DEF Init, CommandOK, Clearing
<1>4. CollectTypeOK
  BY <1>2, <1>3 DEF Init, StoreInit, CollectTypeOK, StoreTypeOK, Conditions
<1>5. LockInv /\ BuilderInv
  BY <1>2, <1>3 DEF Init, StoreInit, LockInv, BuilderInv, InBuild, Inside
<1> QED BY <1>2, <1>3, <1>4, <1>5 DEF BaseInv

LEMMA StutterBase ==
    ASSUME BaseInv, UNCHANGED vars
    PROVE  BaseInv'
<1>1. CollectTypes' /\ DiskTypes' /\ UNCHANGED <<holder, cmd, job, builder, setting>>
  BY BaseTypes DEF CollectTypes, DiskTypes, vars, storeVars, disks, collectVars
<1> QED BY <1>1, AroundBase

LEMMA NextBase ==
    ASSUME BaseInv, [Next]_vars
    PROVE  BaseInv'
BY StutterBase, WorkBase, JobsEndBase, StageBase, ActivateBase, HoldSessionBase, RootsBase, RemoveGoneProjectsBase,
   PruneBase, MarkBase, SweepBase, RemoveBase, LinksBase, ShareUnsharedBase, ScanBase,
   BeginInstallBase, BeginShellBase, BeginGCBase, BeginRepairBase, EndSessionBase, KillBase,
   DeleteProjectBase, EditFileBase
   DEF Next, Progress

(* Every variable keeps its type, one process has the lock, and one job    *)
(* builds (busy.Lock, buildMu).                                            *)
THEOREM BaseInvariant == Spec => []BaseInv
BY InitBase, NextBase, PTL DEF Spec

(***************************************************************************)
(* Shared files.                                                           *)
(***************************************************************************)

shared == <<entry, linked, edited, touched>>

LEMMA ShareFresh ==
    ASSUME FreshInv, NEW p, ShareFile(p), UNCHANGED touched
    PROVE  FreshInv'
<1>1. CASE Share(p)
  BY <1>1 DEF FreshInv, Share, Unlink
<1>2. CASE UNCHANGED <<entry, linked, edited, records>>
  BY <1>2 DEF FreshInv
<1> QED BY <1>1, <1>2 DEF ShareFile

LEMMA RemoveFresh ==
    ASSUME FreshInv, NEW p, NEW step, NEW then, RemoveStep(p, step, then)
    PROVE  FreshInv'
BY DEF RemoveStep, Unmeta, MoveAside, DeleteInPlace, Forget, FreshInv

LEMMA SameFresh ==
    ASSUME FreshInv, UNCHANGED shared
    PROVE  FreshInv'
BY DEF FreshInv, shared

LEMMA JobFresh ==
    ASSUME FreshInv, NEW r \in Paths, JobStep(r)
    PROVE  FreshInv'
<1>1. CASE Pick(r) \/ Unpack(r) \/ Settle(r) \/ Publish(r) \/ Freeze(r) \/ FetchSource(r)
  <2>1. UNCHANGED shared
    BY <1>1 DEF shared, disks, Pick, Unpack, Settle, Publish, Freeze, FetchSource
  <2> QED BY <2>1, SameFresh
<1>2. CASE Substitute(r) \/ Recover(r) \/ Restore(r) \/ DropOld(r) \/ SetAside(r) \/ Mkdir(r)
  <2>1. UNCHANGED shared
    BY <1>2 DEF shared, disks, Builds, Substitute, Recover, Restore, DropOld, SetAside, Mkdir
  <2> QED BY <2>1, SameFresh
<1>3. CASE Steps(r) \/ Undo(r) \/ PutBack(r) \/ Finish(r) \/ Finished(r)
  <2>1. UNCHANGED shared
    BY <1>3 DEF shared, disks, Builds, Steps, Undo, PutBack, Finish, Finished
  <2> QED BY <2>1, SameFresh
<1>4. CASE Clear(r)
  BY <1>4, RemoveFresh DEF Clear
<1>5. CASE ShareNew(r)
  <2>1. CASE Exists(P(r))
    BY <1>5, <2>1, ShareFresh DEF ShareNew
  <2>2. CASE ~Exists(P(r))
    BY <1>5, <2>2, SameFresh DEF ShareNew, shared
  <2> QED BY <2>1, <2>2
<1> QED BY <1>1, <1>2, <1>3, <1>4, <1>5 DEF JobStep

LEMMA NextFresh ==
    ASSUME FreshInv, [Next]_vars
    PROVE  FreshInv'
<1>1. ASSUME NEW r \in Paths, Work(r) PROVE FreshInv'
  BY <1>1, JobFresh DEF Work
<1>2. ASSUME NEW q \in Procs,
             \/ JobsEnd(q) \/ Stage(q) \/ Activate(q) \/ HoldSession(q) \/ Roots(q) \/ RemoveGoneProjects(q)
             \/ Prune(q) \/ Mark(q) \/ Sweep(q) \/ Scan(q)
      PROVE  FreshInv'
  <2>1. UNCHANGED shared
    BY <1>2 DEF shared, storeVars, disks, JobsEnd, Stage, Activate, HoldSession, Roots, RemoveGoneProjects,
       Prune, Mark, Sweep, Scan
  <2> QED BY <2>1, SameFresh
<1>3. ASSUME NEW q \in Procs,
             \/ BeginInstall(q) \/ BeginShell(q) \/ BeginGC(q) \/ BeginRepair(q) \/ EndSession(q) \/ Kill(q)
      PROVE  FreshInv'
  <2>1. UNCHANGED shared
    BY <1>3 DEF shared, storeVars, disks, BeginInstall, BeginShell, BeginGC, BeginRepair, EndSession, Kill, Abandon
  <2> QED BY <2>1, SameFresh
<1>4. ASSUME NEW q \in Procs, Remove(q) PROVE FreshInv'
  BY <1>4, RemoveFresh DEF Remove
<1>5. ASSUME NEW q \in Procs, Links(q) PROVE FreshInv'
  BY <1>5 DEF Links, DropLinks, Unlink, FreshInv
<1>6. ASSUME NEW q \in Procs, ShareUnshared(q) PROVE FreshInv'
  <2>1. CASE UNCHANGED storeVars
    BY <2>1, SameFresh DEF storeVars, disks, shared
  <2>2. CASE \E p \in Unshared : ShareOld(p)
    BY <2>2, ShareFresh DEF ShareOld
  <2> QED BY <1>6, <2>1, <2>2 DEF ShareUnshared
<1>7. ASSUME NEW f \in Projects, DeleteProject(f) PROVE FreshInv'
  BY <1>7, SameFresh DEF DeleteProject, storeVars, disks, shared
<1>8. ASSUME NEW p \in Paths, EditFile(p) PROVE FreshInv'
  BY <1>8 DEF EditFile, Edit, FreshInv
<1>9. CASE UNCHANGED vars
  BY <1>9, SameFresh DEF vars, storeVars, disks, shared
<1> QED BY <1>1, <1>2, <1>3, <1>4, <1>5, <1>6, <1>7, <1>8, <1>9 DEF Next, Progress

LEMMA FreshInvariant == Spec => []FreshInv
<1>1. Init => FreshInv
  BY DEF Init, StoreInit, FreshInv
<1> QED BY <1>1, NextFresh, PTL DEF Spec

(***************************************************************************)
(* What gc leaves.                                                         *)
(***************************************************************************)

(* A command at one of these steps holds the lock *)
LEMMA SweepingHolds ==
    ASSUME LockInv, NEW q \in Procs, cmd[q].at \notin {"idle", "running"}
    PROVE  holder = q
BY DEF LockInv

(* No gc is at its sweep *)
LEMMA QuietSwept ==
    ASSUME BaseInv',
           holder' = NoProc \/ cmd'[holder'].at \notin Sweeping \cup {"links", "share"} \/ cmd'[holder'].name # "gc"
    PROVE  SweepInv'
<1> SUFFICES ASSUME NEW q \in Procs, cmd'[q].name = "gc", cmd'[q].at \in Sweeping \cup {"links", "share"}
             PROVE  FALSE
  BY DEF SweepInv, SweepOK, Sweeping, Clearing
<1>1. holder' = q
  BY DEF BaseInv, LockInv, Sweeping, Clearing
<1> QED BY <1>1, ProcsAssumption

(* The store and the generations are as they were, and so is the command   *)
LEMMA SameSwept ==
    ASSUME SweepInv, UNCHANGED <<gens, disk, old, temps>>, NEW q \in Procs,
           cmd'[q].at = cmd[q].at, cmd'[q].keep = cmd[q].keep, cmd'[q].doomed = cmd[q].doomed,
           cmd'[q].path = cmd[q].path, cmd'[q].name = cmd[q].name
    PROVE  cmd'[q].name = "gc" => SweepOK(q)'
BY DEF SweepInv, SweepOK, Unreferenced, Used, Exists

LEMMA LeftDef ==
    ASSUME NEW used, NEW d
    PROVE  d \in Unreferenced(used) <=>
             \/ \E p \in Paths \ used : disk[p] # "gone" /\ d = <<"path", p>>
             \/ \E p \in Paths \ used : old[p] # "gone" /\ d = <<"old", p>>
             \/ \E p \in temps : d = <<"temp", p>>
BY DEF Unreferenced, Exists

LEMMA LeftDefNext ==
    ASSUME NEW used, NEW d
    PROVE  d \in Unreferenced(used)' <=>
             \/ \E p \in Paths \ used' : disk'[p] # "gone" /\ d = <<"path", p>>
             \/ \E p \in Paths \ used' : old'[p] # "gone" /\ d = <<"old", p>>
             \/ \E p \in temps' : d = <<"temp", p>>
BY DEF Unreferenced, Exists

LEMMA MarkSwept ==
    ASSUME BaseInv, BaseInv', NEW q \in Procs, Mark(q)
    PROVE  SweepInv'
<1>1. Chosen(q, Unreferenced(Used(cmd[q].keep)))
  BY MarkChooses
<1>2. UNCHANGED <<gens, disk, old, temps, holder>> /\ holder = q
  BY DEF Mark, Holds, storeVars, disks
<1>3. Unreferenced(Used(cmd[q].keep))' = Unreferenced(Used(cmd[q].keep))
  BY <1>1, <1>2 DEF Chosen, Unreferenced, Used, Exists
<1>4. SweepOK(q)'
  BY <1>1, <1>3 DEF SweepOK, Chosen
<1>5. \A x \in Procs \ {q} : cmd'[x].at \in {"idle", "running"}
  BY <1>2 DEF BaseInv, LockInv
<1> QED BY <1>4, <1>5 DEF SweepInv, SweepOK, Sweeping, Clearing

LEMMA SweepSwept ==
    ASSUME BaseInv, BaseInv', SweepInv, NEW q \in Procs, Sweep(q), cmd[q].name = "gc"
    PROVE  SweepInv'
<1>1. holder = q /\ cmd[q].at = "sweep" /\ UNCHANGED gens
  BY DEF Sweep, Holds
<1>2. SweepOK(q) /\ \A d \in Unreferenced(Used(cmd[q].keep)) : d \in cmd[q].doomed
  BY <1>1 DEF SweepInv, SweepOK, Sweeping, Clearing
<1>3. \A x \in Procs \ {q} : cmd'[x].at \in {"idle", "running"}
  <2>1. holder' \in {q, NoProc}
    BY <1>1 DEF Sweep, End
  <2> QED BY <2>1, ProcsAssumption DEF BaseInv, LockInv
<1>4. CASE cmd[q].doomed = {} /\ Step(q, "links") /\ UNCHANGED storeVars
  <2>1. Stepped(q, "links")
    BY <1>4, BaseTypes, StepMoves DEF CommandSteps
  <2>2. Unreferenced(Used(cmd[q].keep))' = Unreferenced(Used(cmd[q].keep))
    BY <1>1, <1>4, <2>1 DEF Stepped, Unreferenced, Used, Exists, storeVars, disks
  <2>3. SweepOK(q)'
    BY <1>2, <1>4, <2>1, <2>2 DEF SweepOK, Stepped, Sweeping, Clearing
  <2> QED BY <1>3, <2>3 DEF SweepInv, SweepOK, Sweeping, Clearing
<1>5. ASSUME NEW d \in cmd[q].doomed,
             cmd' = [cmd EXCEPT ![q].doomed = @ \ {d}, ![q].path = d[2],
                                ![q].at = IF d[1] = "path" THEN "unmeta" ELSE "sweep"],
             old' = IF d[1] = "old" THEN [old EXCEPT ![d[2]] = "gone"] ELSE old,
             temps' = IF d[1] = "temp" THEN temps \ {d[2]} ELSE temps,
             UNCHANGED disk
      PROVE  SweepInv'
  <2>1. Takes(q, d)
    BY <1>5, SweepTakes
  <2>2. PICK k \in {"path", "old", "temp"}, p \in Paths : d = <<k, p>>
    BY <2>1 DEF Takes, Doomed
  <2>3. Used(cmd[q].keep)' = Used(cmd[q].keep)
    BY <1>1, <2>1 DEF Takes, Used
  <2>4. ASSUME NEW x \in Unreferenced(Used(cmd[q].keep))'
        PROVE  x \in Unreferenced(Used(cmd[q].keep)) /\ (k # "path" => x # d)
    <3> DEFINE used == Used(cmd[q].keep)
    <3>1. used' = used /\ x \in Unreferenced(used)'
      BY <2>3
    <3> HIDE DEF used
    <3>2. \/ \E y \in Paths \ used : disk'[y] # "gone" /\ x = <<"path", y>>
          \/ \E y \in Paths \ used : old'[y] # "gone" /\ x = <<"old", y>>
          \/ \E y \in temps' : x = <<"temp", y>>
      BY <3>1, LeftDefNext DEF Unreferenced, Exists
    <3>3. x \in Unreferenced(used) /\ (k # "path" => x # d)
      BY <1>5, <2>2, <3>2, LeftDef, BaseTypes DEF DiskTypes
    <3> QED BY <3>3 DEF used
  <2>5. SweepOK(q)'
    BY <1>2, <2>1, <2>2, <2>4 DEF SweepOK, Takes, Sweeping, Clearing
  <2> QED BY <1>3, <2>5 DEF SweepInv, SweepOK, Sweeping, Clearing
<1> QED BY <1>4, <1>5 DEF Sweep

(* What one step of Remove leaves of the path *)
LEMMA RemoveStepDisk ==
    ASSUME DiskTypes, NEW p \in Paths, NEW step, NEW then, RemoveStep(p, step, then)
    PROVE  /\ UNCHANGED <<setting, old, temps>>
           /\ disk' \in [Paths -> Conditions]
           /\ \A x \in Paths \ {p} : disk'[x] = disk[x]
           /\ then = "erase" => disk'[p] = "gone"
           /\ then = "removed" /\ step = "erase" => disk'[p] = disk[p]
           /\ then = "removed" /\ step # "erase" => disk'[p] = "gone"
           /\ then = "removed" => step \in {"erase", "delete"}
           /\ then = "aside" => disk'[p] \in {disk[p], "part"} /\ (disk'[p] # disk[p] => Complete(p))
           /\ then = "delete" => setting.windows /\ disk[p] # "gone" /\ disk'[p] = "part"
<1>1. disk \in [Paths -> Conditions]
  BY DEF DiskTypes
<1>2. CASE step = "unmeta" /\ then = "aside" /\ Unmeta(p)
  BY <1>1, <1>2 DEF Unmeta, Conditions
<1>3. CASE step = "aside" /\ then = "erase" /\ MoveAside(p)
  BY <1>1, <1>3 DEF MoveAside, Conditions
<1>4. CASE step = "aside" /\ then = "delete" /\ DeleteInPlace(p)
  BY <1>1, <1>4 DEF DeleteInPlace, Conditions, Exists
<1>5. CASE /\ step \in {"erase", "delete"} /\ then = "removed"
           /\ disk' = IF step = "delete" THEN [disk EXCEPT ![p] = "gone"] ELSE disk
           /\ records' = records \ {p}
           /\ UNCHANGED <<setting, old, temps, frozen, entry, linked, edited, touched>>
  BY <1>1, <1>5 DEF Conditions
<1> QED BY <1>2, <1>3, <1>4, <1>5 DEF RemoveStep

LEMMA RemoveSwept ==
    ASSUME BaseInv, BaseInv', SweepInv, NEW q \in Procs, Remove(q), cmd[q].name = "gc"
    PROVE  SweepInv'
<1> DEFINE p == cmd[q].path
           used == Used(cmd[q].keep)
<1>1. PICK then \in {"aside", "erase", "delete", "removed"} :
             /\ RemoveStep(p, cmd[q].at, then)
             /\ Stepped(q, IF then = "removed" THEN "sweep" ELSE then)
             /\ cmd[q].at \in Clearing /\ p \in Paths
  BY RemoveMoves
<1>2. holder = q /\ holder' = q /\ UNCHANGED gens
  BY DEF Remove
<1>3. \A x \in Procs \ {q} : cmd'[x].at \in {"idle", "running"}
  BY <1>2 DEF BaseInv, LockInv
<1>4. used' = used /\ p' = p
  BY <1>1, <1>2 DEF Stepped, Used
<1>5. /\ \A d \in Unreferenced(used) : d \in cmd[q].doomed \/ d = <<"path", p>>
      /\ cmd[q].at = "erase" => disk[p] = "gone"
  BY <1>1 DEF SweepInv, SweepOK, Sweeping
<1>6. /\ UNCHANGED <<old, temps>>
      /\ \A x \in Paths \ {p} : disk'[x] = disk[x]
      /\ then \in {"erase", "removed"} => disk'[p] = "gone"
  BY <1>1, <1>5, RemoveStepDisk, BaseTypes
<1> HIDE DEF p, used
<1>7. ASSUME NEW d \in Unreferenced(used)'
      PROVE  (d \in Unreferenced(used) \/ d = <<"path", p>>) /\ (then = "removed" => d # <<"path", p>>)
  <2>1. \/ \E y \in Paths \ used : disk'[y] # "gone" /\ d = <<"path", y>>
        \/ \E y \in Paths \ used : old[y] # "gone" /\ d = <<"old", y>>
        \/ \E y \in temps : d = <<"temp", y>>
    BY <1>4, <1>6, LeftDefNext DEF Unreferenced, Exists
  <2> QED BY <1>6, <2>1, LeftDef
<1>8. SweepOK(q)'
  <2>1. \A d \in Unreferenced(Used(cmd[q].keep))' : d \in cmd[q].doomed \/ (d = <<"path", p>> /\ then # "removed")
    BY <1>5, <1>7 DEF used
  <2>2. /\ cmd'[q].at = (IF then = "removed" THEN "sweep" ELSE then)
        /\ cmd'[q].doomed = cmd[q].doomed /\ cmd'[q].path = p
    BY <1>1 DEF Stepped, p
  <2>3. cmd'[q].at \notin {"links", "share"}
    BY <2>2
  <2>4. cmd'[q].at = "erase" => disk'[cmd'[q].path] = "gone"
    BY <1>6, <2>2
  <2>5. then # "removed" => cmd'[q].at \in Clearing
    BY <2>2 DEF Clearing
  <2> QED BY <2>1, <2>2, <2>3, <2>4, <2>5 DEF SweepOK
<1> QED BY <1>3, <1>8 DEF SweepInv, SweepOK, Sweeping, Clearing

LEMMA LinksSwept ==
    ASSUME BaseInv, BaseInv', SweepInv, NEW q \in Procs, Links(q)
    PROVE  SweepInv'
<1>1. holder = q /\ cmd[q].at = "links" /\ Step(q, "share") /\ UNCHANGED <<gens, disk, old, temps, holder>>
  BY DEF Links, Holds, DropLinks
<1>2. Stepped(q, "share") /\ cmd[q].name = "gc"
  BY <1>1, BaseTypes, StepMoves DEF CommandSteps, CommandOK
<1>3. Unreferenced(Used(cmd[q].keep))' = Unreferenced(Used(cmd[q].keep))
  BY <1>1, <1>2 DEF Stepped, Unreferenced, Used, Exists
<1>4. SweepOK(q)'
  BY <1>1, <1>2, <1>3 DEF SweepInv, SweepOK, Stepped, Sweeping, Clearing
<1>5. \A x \in Procs \ {q} : cmd'[x].at \in {"idle", "running"}
  BY <1>1 DEF BaseInv, LockInv
<1> QED BY <1>4, <1>5 DEF SweepInv, SweepOK, Sweeping, Clearing

LEMMA NextSwept ==
    ASSUME BaseInv, SweepInv, [Next]_vars
    PROVE  SweepInv'
<1> BaseInv'
  BY NextBase
<1>1. ASSUME NEW r \in Paths, Work(r) PROVE SweepInv'
  <2>1. holder' # NoProc /\ cmd'[holder'].at = "jobs"
    BY <1>1, JobStepKept DEF Work, JobKept, BaseInv, LockInv, collectVars
  <2> QED BY <2>1, QuietSwept DEF Sweeping, Clearing
<1>2. ASSUME NEW q \in Procs, JobsEnd(q) \/ Stage(q) \/ Activate(q) \/ HoldSession(q) PROVE SweepInv'
  <2>1. holder' = NoProc \/ (holder' = q /\ \E at \in {"stage", "hold", "activate"} : Step(q, at))
    BY <1>2 DEF JobsEnd, Stage, Activate, HoldSession, Holds, End
  <2>2. ASSUME NEW at \in {"stage", "hold", "activate"}, Step(q, at) PROVE cmd'[q].at = at
    BY <2>2, BaseTypes, StepMoves DEF CommandSteps, Stepped
  <2> QED BY <2>1, <2>2, QuietSwept DEF Sweeping, Clearing
<1>3. ASSUME NEW q \in Procs, Roots(q) PROVE SweepInv'
  <2>1. CASE pending
    BY <1>3, <2>1, QuietSwept DEF Roots, End
  <2>2. CASE ~pending
    <3>1. cmd'[q].at = "projects" /\ holder' = q
      BY <1>3, <2>2, RootsMoves DEF Roots, Holds, Rooted
    <3> QED BY <3>1, QuietSwept DEF Sweeping, Clearing
  <2> QED BY <2>1, <2>2
<1>4. ASSUME NEW q \in Procs, RemoveGoneProjects(q) \/ Prune(q) PROVE SweepInv'
  <2>1. holder' = q /\ ((cmd'[q].at = cmd[q].at /\ cmd[q].at = "prune") \/ \E at \in {"prune", "mark"} : Step(q, at))
    BY <1>4 DEF RemoveGoneProjects, Prune, Holds
  <2>2. ASSUME NEW at \in {"prune", "mark"}, Step(q, at) PROVE cmd'[q].at = at
    BY <2>2, BaseTypes, StepMoves DEF CommandSteps, Stepped
  <2> QED BY <2>1, <2>2, QuietSwept DEF Sweeping, Clearing
<1>5. ASSUME NEW q \in Procs, Mark(q) PROVE SweepInv'
  BY <1>5, MarkSwept
<1>6. ASSUME NEW q \in Procs, Sweep(q) PROVE SweepInv'
  <2>1. CASE cmd[q].name = "gc"
    BY <1>6, <2>1, SweepSwept
  <2>2. CASE cmd[q].name # "gc"
    <3>1. CASE End(q)
      BY <3>1, QuietSwept DEF End
    <3>2. CASE ~End(q)
      <4>1. holder' = q /\ cmd'[q].name = cmd[q].name
        BY <1>6, <2>2, <3>2, SweepTakes DEF Sweep, Holds, Takes
      <4> QED BY <2>2, <4>1, QuietSwept
    <3> QED BY <3>1, <3>2
  <2> QED BY <2>1, <2>2
<1>7. ASSUME NEW q \in Procs, Remove(q) PROVE SweepInv'
  <2>1. CASE cmd[q].name = "gc"
    BY <1>7, <2>1, RemoveSwept
  <2>2. CASE cmd[q].name # "gc"
    <3>1. holder' = q /\ cmd'[q].name = cmd[q].name
      BY <1>7, RemoveMoves DEF Remove, Stepped
    <3> QED BY <2>2, <3>1, QuietSwept
  <2> QED BY <2>1, <2>2
<1>8. ASSUME NEW q \in Procs, Links(q) PROVE SweepInv'
  BY <1>8, LinksSwept
<1>9. ASSUME NEW q \in Procs, ShareUnshared(q) PROVE SweepInv'
  <2>1. CASE End(q)
    BY <2>1, QuietSwept DEF End
  <2>2. CASE \E p \in Unshared : ShareOld(p) /\ UNCHANGED <<cmd, holder, job, builder>>
    <3>1. UNCHANGED <<gens, disk, old, temps, cmd>>
      BY <1>9, <2>2 DEF ShareUnshared, ShareOld
    <3> QED BY <3>1, SameSwept DEF SweepInv
  <2> QED BY <1>9, <2>1, <2>2 DEF ShareUnshared
<1>10. ASSUME NEW q \in Procs, Scan(q) PROVE SweepInv'
  <2>1. CASE End(q)
    BY <2>1, QuietSwept DEF End
  <2>2. CASE ~End(q)
    <3>1. holder' = q /\ cmd'[q].name = cmd[q].name /\ cmd[q].name = "repair"
      BY <1>10, <2>2, BaseTypes, ScanChooses DEF Scan, Holds, CommandOK, Chosen
    <3> QED BY <3>1, QuietSwept
  <2> QED BY <2>1, <2>2
<1>11. ASSUME NEW q \in Procs, BeginInstall(q) \/ BeginShell(q) \/ BeginGC(q) \/ BeginRepair(q) PROVE SweepInv'
  <2>1. holder' = q /\ cmd'[q].at \in {"jobs", "roots", "scan"}
    BY <1>11, BeginInstallMoves, BeginShellMoves, BeginGCMoves, BeginRepairMoves DEF Begun
  <2> QED BY <2>1, QuietSwept DEF Sweeping, Clearing
<1>12. ASSUME NEW q \in Procs, EndSession(q) \/ Kill(q) PROVE SweepInv'
  <2>1. CASE holder = q
    <3>1. holder' = NoProc
      BY <1>12, <2>1, BaseTypes, ProcsAssumption DEF EndSession, Kill, LockInv
    <3> QED BY <3>1, QuietSwept
  <2>2. CASE holder # q
    <3>1. UNCHANGED <<gens, disk, old, temps>> /\ cmd' = [cmd EXCEPT ![q] = NoCmd]
      BY <1>12, <2>2 DEF EndSession, Kill, storeVars, disks
    <3>2. (\A x \in Procs \ {q} : cmd'[x] = cmd[x]) /\ cmd'[q].name = "none"
      BY <3>1, BaseTypes, EndMoves, NoCmdType
    <3> QED BY <3>1, <3>2, SameSwept DEF SweepInv
  <2> QED BY <2>1, <2>2
<1>13. CASE UNCHANGED <<gens, disk, old, temps, cmd>>
  BY <1>13, SameSwept DEF SweepInv
<1>14. ASSUME NEW f \in Projects, DeleteProject(f) PROVE SweepInv'
  BY <1>13, <1>14 DEF DeleteProject, storeVars, disks
<1>15. ASSUME NEW p \in Paths, EditFile(p) PROVE SweepInv'
  BY <1>13, <1>15 DEF EditFile, Edit, collectVars
<1>16. CASE UNCHANGED vars
  BY <1>13, <1>16 DEF vars, storeVars, disks, collectVars
<1> QED BY <1>1, <1>2, <1>3, <1>4, <1>5, <1>6, <1>7, <1>8, <1>9, <1>10, <1>11, <1>12, <1>14, <1>15, <1>16
   DEF Next, Progress

(* When gc has swept, nothing is left that no generation, session or       *)
(* exposed item uses (runGC, Unreferenced, Store.Remove), for any store    *)
(* and after any kills.                                                    *)
THEOREM GcLeavesNothing == Spec => []GcCollects
<1>1. Init => SweepInv
  BY NoCmdType DEF Init, SweepInv
<1>2. SweepInv => GcCollects
  BY DEF SweepInv, SweepOK, GcCollects
<1> QED BY <1>1, <1>2, BaseInvariant, NextSwept, PTL DEF Spec

(***************************************************************************)
(* What is in use stays: the steps of a job.                               *)
(***************************************************************************)

(* r goes on with its path p *)
JobMoves(r, p, step) ==
    /\ job[r].path = p /\ job'[r].path = p
    /\ job'[r].at = step /\ job'[r].todo = job[r].todo
    /\ \A s \in Paths \ {r} : job'[s] = job[s]

(* Two jobs are never in the build of one path *)
LEMMA OneBuild ==
    ASSUME BaseInv, NEW r \in Paths, NEW s \in Paths, InBuild(r), InBuild(s)
    PROVE  r = s
BY DEF BaseInv, BuilderInv

LEMMA JobStore ==
    ASSUME BaseInv, BaseInv', StoreInv, UNCHANGED <<setting, collectVars>>,
           NEW r \in Paths, NEW p \in Paths, NEW step \in JobSteps, JobMoves(r, p, step),
           job[r].at \in Inside, step # "idle",
           \A x \in Paths \ {p} : disk'[x] = disk[x] /\ old'[x] = old[x],
           WholeOK(p)', BuildOK(r)',
           Usable(p) => Usable(p)' \/ job[r].at \in Clearing,
           step \in Clearing => job[r].at \in Clearing \/ disk[p] # "whole",
           job[r].at \in Clearing => step \in Clearing \cup {"publish"},
           job[r].at = "publish" => step = "failed" \/ disk'[p] = "whole",
           \/ step = "failed" \/ step \in Inside \ Finishing
           \/ job[r].at \in Finishing \/ disk'[p] = "whole"
    PROVE  StoreInv'
<1>1. \A x \in Paths \ {p} : WholeOK(x)' /\ (Usable(x)' <=> Usable(x))
  BY DEF StoreInv, WholeOK, Usable
<1>2. TreesInv'
  BY DEF StoreInv, TreesInv, NoTree, Inside, JobMoves
<1>3. \A s \in Paths : BuildOK(s)'
  <2> SUFFICES ASSUME NEW s \in Paths \ {r}, InBuild(s)' PROVE BuildOK(s)'
    BY DEF BuildOK
  <2>1. job'[s] = job[s] /\ InBuild(s) /\ BuildOK(s) /\ job[s].path \in Paths
    BY PathsAssumption DEF JobMoves, InBuild, P, StoreInv, BaseInv, JobOK
  <2>2. job[s].path # p
    BY <2>1, OneBuild DEF JobMoves, InBuild, P
  <2> QED BY <2>1, <2>2 DEF BuildOK, P
<1>4. \A x \in Paths : Remaking(x) => Remaking(x)' \/ (x = p /\ (step = "failed" \/ disk'[p] = "whole"))
  <2> SUFFICES ASSUME NEW x \in Paths, NEW s \in Paths, P(s) = x, job[s].at \in Clearing \cup {"publish"}
               PROVE  Remaking(x)' \/ (x = p /\ (step = "failed" \/ disk'[p] = "whole"))
    BY DEF Remaking
  <2>1. CASE s # r
    BY <2>1 DEF Remaking, JobMoves, P
  <2>2. CASE s = r
    BY <2>2 DEF Remaking, JobMoves, P
  <2> QED BY <2>1, <2>2
<1>5. \A x \in Paths : Usable(x) => Usable(x)' \/ Remaking(x)'
  BY <1>1 DEF Remaking, JobMoves, P
<1>6. MadeInv'
  <2> SUFFICES ASSUME \A s \in Paths : job'[s].at # "failed",
                      NEW s \in Paths, NEW x \in Paths, job'[s].at # "idle", Made(s, x)'
               PROVE  Usable(x)' \/ Remaking(x)'
    BY DEF MadeInv
  <2>1. \A t \in Paths : job[t].at # "failed"
    BY DEF JobMoves, Inside
  <2>2. step # "failed"
    BY DEF JobMoves
  <2>3. CASE Made(s, x) /\ job[s].at # "idle"
    <3>1. Usable(x) \/ Remaking(x)
      BY <2>1, <2>3 DEF StoreInv, MadeInv
    <3> QED BY <1>4, <1>5, <2>2, <3>1 DEF Usable
  <2>4. CASE ~(Made(s, x) /\ job[s].at # "idle")
    <3>1. s = r
      BY <2>4 DEF Made, JobMoves, P
    <3>2. x = p /\ job[r].at \notin Finishing
      BY <2>4, <3>1 DEF Made, JobMoves, P, Inside
    <3>3. step \notin Inside \/ step \in Finishing
      BY <3>1, <3>2 DEF Made, JobMoves, P
    <3> QED BY <2>2, <3>2, <3>3 DEF Usable
  <2> QED BY <2>3, <2>4
<1>7. \A x \in Paths : InUse(x)' <=> InUse(x)
  BY DEF InUse, collectVars
<1>8. SessionInv' /\ KeepInv'
  BY DEF StoreInv, SessionInv, KeepInv, collectVars
<1>9. UseInv'
  <2> SUFFICES ASSUME "repair" \notin setting.commands PROVE HeldInv' /\ SpareInv'
    BY DEF UseInv
  <2>1. HeldInv /\ SpareInv
    BY DEF StoreInv, UseInv
  <2>2. SpareInv'
    BY <1>7, <2>1 DEF SpareInv, collectVars
  <2>3. ASSUME NEW x \in Paths, InUse(x)
        PROVE  HeldOK(x)'
    <3>1. HeldOK(x)
      BY <2>1, <2>3 DEF HeldInv
    <3>2. x = p => job[r].at \notin Clearing
      BY <3>1 DEF HeldOK, JobMoves, P
    <3>3. Usable(x)'
      BY <1>1, <3>1, <3>2 DEF HeldOK
    <3>4. ASSUME NEW s \in Paths, P(s)' = x, job'[s].at \in Clearing PROVE FALSE
      <4>1. CASE s # r
        BY <3>1, <3>4, <4>1 DEF HeldOK, JobMoves, P
      <4>2. CASE s = r
        <5>1. x = p /\ step \in Clearing /\ disk[p] # "whole"
          BY <3>2, <3>4, <4>2 DEF JobMoves, P
        <5>2. Class[p] = "artifact"
          BY <3>4, <4>2 DEF BaseInv, JobOK, Inside, StepFits, JobMoves, P, Clearing, JobSteps
        <5> QED BY <3>1, <5>1, <5>2 DEF HeldOK, Usable
      <4> QED BY <4>1, <4>2
    <3> QED BY <3>3, <3>4 DEF HeldOK
  <2>4. HeldInv'
    BY <1>7, <2>3 DEF HeldInv
  <2> QED BY <2>2, <2>4
<1> QED BY <1>1, <1>2, <1>3, <1>6, <1>8, <1>9 DEF StoreInv

(* A job in the path p, before its step *)
JobIn(r, p) ==
    /\ p \in Paths /\ P(r) = p /\ Class[p] \in Classes
    /\ JobOK(r) /\ WholeOK(p) /\ BuildOK(r)
    /\ disk \in [Paths -> Conditions] /\ old \in [Paths -> Conditions]
    /\ setting.tears => ~job[r].rebuild
    /\ setting.windows => Class[p] # "tree"

LEMMA InPath ==
    ASSUME BaseInv, StoreInv, NothingTorn, NEW r \in Paths, job[r].at \in Inside
    PROVE  JobIn(r, P(r))
<1>1. JobOK(r) /\ P(r) \in Closure[r] /\ P(r) \in Paths
  BY PathsAssumption DEF BaseInv, JobOK
<1>2. WholeOK(P(r)) /\ BuildOK(r) /\ job[r].at # "idle" /\ TreesInv
  BY <1>1 DEF StoreInv, Inside
<1>3. Class[P(r)] \in Classes /\ disk \in [Paths -> Conditions] /\ old \in [Paths -> Conditions]
  BY <1>1, PathsAssumption DEF BaseInv, CollectTypeOK, StoreTypeOK
<1> QED BY <1>1, <1>2, <1>3 DEF JobIn, TreesInv, NoTree, NothingTorn, JobOK

(* What Go keeps, whichever branch of a step it ends *)
GoKeeps(r, p) ==
    /\ \A step \in JobSteps : Go(r, step) => job'[r].at = step
    /\ (\E step \in JobSteps \ {"idle"} : Go(r, step)) =>
           JobMoves(r, p, job'[r].at) /\ job'[r].aside = job[r].aside /\ job'[r].at \in JobSteps \ {"idle"}

LEMMA GoKept ==
    ASSUME BaseInv, NEW r \in Paths, NEW p, P(r) = p
    PROVE  GoKeeps(r, p)
<1>1. StoreTypeOK
  BY DEF BaseInv, CollectTypeOK
<1>2. \A step \in JobSteps : Go(r, step) => Moved(r, step)
  BY <1>1, GoMoves
<1> QED BY <1>2 DEF Moved, GoKeeps, JobMoves, P

LEMMA UnpackStore ==
    ASSUME BaseInv, BaseInv', StoreInv, NothingTorn, NEW r \in Paths, Unpack(r), UNCHANGED <<setting, collectVars>>
    PROVE  StoreInv'
<1> PICK p : p = P(r)
  OBVIOUS
<1>1. job[r].at \in Inside
  BY DEF Unpack, At, Inside, JobSteps
<1>2. JobIn(r, p) /\ GoKeeps(r, p)
  BY <1>1, InPath, GoKept
<1>3. \E step \in JobSteps \ {"idle"} : Go(r, step)
  BY DEF Unpack, Leave, JobSteps
<1>4. JobMoves(r, p, job'[r].at) /\ job'[r].aside = job[r].aside /\ job'[r].at \in JobSteps \ {"idle"}
  BY <1>2, <1>3 DEF GoKeeps
<1>5. /\ disk' = disk /\ old' = old /\ job[r].at = "start"
      /\ job'[r].at \in {"publish", "settle", "failed"} \/ (job'[r].at = "next" /\ disk[p] = "whole")
  BY <1>2 DEF Unpack, At, Leave, Builds, Dropping, disks, Complete, Exists, GoKeeps, JobIn, WholeOK, JobOK, StepFits,
              BuildOK, InBuild, Inside, BuildSteps, Clearing, JobSteps, Conditions, Classes
<1>6. \A x \in Paths \ {p} : disk'[x] = disk[x] /\ old'[x] = old[x]
  BY <1>2, <1>5 DEF JobIn
<1>7. WholeOK(p)'
  BY <1>2, <1>5 DEF JobIn, WholeOK, JobOK, StepFits, Inside, BuildSteps, JobSteps, Clearing
<1>8. BuildOK(r)'
  BY <1>1, <1>2, <1>4, <1>5 DEF JobIn, BuildOK, InBuild, JobMoves, P, JobOK, StepFits, BuildSteps, Inside, Clearing
<1>9. Usable(p) => Usable(p)'
  BY <1>1, <1>2, <1>5 DEF JobIn, Usable, BuildOK, InBuild, P, JobOK, StepFits, BuildSteps, Inside
<1>10. /\ job[r].at \notin Clearing
       /\ job'[r].at \in Clearing => disk[p] # "whole"
       /\ job[r].at = "publish" => job'[r].at = "failed" \/ disk'[p] = "whole"
       /\ \/ job'[r].at = "failed" \/ job'[r].at \in Inside \ Finishing
          \/ job[r].at \in Finishing \/ disk'[p] = "whole"
  BY <1>2, <1>5 DEF JobIn, Clearing, Inside, JobSteps, Finishing
<1> QED BY <1>1, <1>2, <1>4, <1>6, <1>7, <1>8, <1>9, <1>10, JobStore DEF JobIn

LEMMA SettleStore ==
    ASSUME BaseInv, BaseInv', StoreInv, NothingTorn, NEW r \in Paths, Settle(r), UNCHANGED <<setting, collectVars>>
    PROVE  StoreInv'
<1> PICK p : p = P(r)
  OBVIOUS
<1>1. job[r].at \in Inside
  BY DEF Settle, At, Inside, JobSteps
<1>2. JobIn(r, p) /\ GoKeeps(r, p)
  BY <1>1, InPath, GoKept
<1>3. \E step \in JobSteps \ {"idle"} : Go(r, step)
  BY DEF Settle, Leave, JobSteps
<1>4. JobMoves(r, p, job'[r].at) /\ job'[r].aside = job[r].aside /\ job'[r].at \in JobSteps \ {"idle"}
  BY <1>2, <1>3 DEF GoKeeps
<1>5. /\ disk' = disk /\ old' = old /\ job[r].at = "settle"
      /\ job'[r].at = "publish" \/ (job'[r].at = "unmeta" /\ disk[p] # "whole")
  BY <1>2 DEF Settle, At, Leave, Builds, Dropping, disks, Complete, Exists, GoKeeps, JobIn, WholeOK, JobOK, StepFits,
              BuildOK, InBuild, Inside, BuildSteps, Clearing, JobSteps, Conditions, Classes
<1>6. \A x \in Paths \ {p} : disk'[x] = disk[x] /\ old'[x] = old[x]
  BY <1>2, <1>5 DEF JobIn
<1>7. WholeOK(p)'
  BY <1>2, <1>5 DEF JobIn, WholeOK, JobOK, StepFits, Inside, BuildSteps, JobSteps, Clearing
<1>8. BuildOK(r)'
  BY <1>1, <1>2, <1>4, <1>5 DEF JobIn, BuildOK, InBuild, JobMoves, P, JobOK, StepFits, BuildSteps, Inside, Clearing
<1>9. Usable(p) => Usable(p)'
  BY <1>1, <1>2, <1>5 DEF JobIn, Usable, BuildOK, InBuild, P, JobOK, StepFits, BuildSteps, Inside
<1>10. /\ job[r].at \notin Clearing
       /\ job'[r].at \in Clearing => disk[p] # "whole"
       /\ job[r].at = "publish" => job'[r].at = "failed" \/ disk'[p] = "whole"
       /\ \/ job'[r].at = "failed" \/ job'[r].at \in Inside \ Finishing
          \/ job[r].at \in Finishing \/ disk'[p] = "whole"
  BY <1>2, <1>5 DEF JobIn, Clearing, Inside, JobSteps, Finishing
<1> QED BY <1>1, <1>2, <1>4, <1>6, <1>7, <1>8, <1>9, <1>10, JobStore DEF JobIn

LEMMA PublishStore ==
    ASSUME BaseInv, BaseInv', StoreInv, NothingTorn, NEW r \in Paths, Publish(r), UNCHANGED <<setting, collectVars>>
    PROVE  StoreInv'
<1> PICK p : p = P(r)
  OBVIOUS
<1>1. job[r].at \in Inside
  BY DEF Publish, At, Inside, JobSteps
<1>2. JobIn(r, p) /\ GoKeeps(r, p)
  BY <1>1, InPath, GoKept
<1>3. \E step \in JobSteps \ {"idle"} : Go(r, step)
  BY DEF Publish, Leave, JobSteps
<1>4. JobMoves(r, p, job'[r].at) /\ job'[r].aside = job[r].aside /\ job'[r].at \in JobSteps \ {"idle"}
  BY <1>2, <1>3 DEF GoKeeps
<1>5. /\ old' = old /\ job[r].at = "publish"
      /\ \/ disk' = [disk EXCEPT ![p] = "whole"] /\ job'[r].at \in {"next", "share"}
         \/ disk' = disk /\ job'[r].at = "next" /\ disk[p] = "whole"
         \/ disk' = disk /\ job'[r].at = "failed"
  BY <1>2 DEF Publish, At, Leave, Builds, Dropping, disks, Complete, Exists, GoKeeps, JobIn, WholeOK, JobOK, StepFits,
              BuildOK, InBuild, Inside, BuildSteps, Clearing, JobSteps, Conditions, Classes
<1>6. \A x \in Paths \ {p} : disk'[x] = disk[x] /\ old'[x] = old[x]
  BY <1>2, <1>5 DEF JobIn
<1>7. WholeOK(p)'
  BY <1>2, <1>5 DEF JobIn, WholeOK, JobOK, StepFits, Inside, BuildSteps, JobSteps, Clearing
<1>8. BuildOK(r)'
  BY <1>1, <1>2, <1>4, <1>5 DEF JobIn, BuildOK, InBuild, JobMoves, P, JobOK, StepFits, BuildSteps, Inside, Clearing
<1>9. Usable(p) => Usable(p)'
  BY <1>1, <1>2, <1>5 DEF JobIn, Usable, BuildOK, InBuild, P, JobOK, StepFits, BuildSteps, Inside
<1>10. /\ job[r].at \notin Clearing
       /\ job'[r].at \in Clearing => disk[p] # "whole"
       /\ job[r].at = "publish" => job'[r].at = "failed" \/ disk'[p] = "whole"
       /\ \/ job'[r].at = "failed" \/ job'[r].at \in Inside \ Finishing
          \/ job[r].at \in Finishing \/ disk'[p] = "whole"
  BY <1>2, <1>5 DEF JobIn, Clearing, Inside, JobSteps, Finishing
<1> QED BY <1>1, <1>2, <1>4, <1>6, <1>7, <1>8, <1>9, <1>10, JobStore DEF JobIn

LEMMA ShareNewStore ==
    ASSUME BaseInv, BaseInv', StoreInv, NothingTorn, NEW r \in Paths, ShareNew(r), UNCHANGED <<setting, collectVars>>
    PROVE  StoreInv'
<1> PICK p : p = P(r)
  OBVIOUS
<1>1. job[r].at \in Inside
  BY DEF ShareNew, At, Inside, JobSteps
<1>2. JobIn(r, p) /\ GoKeeps(r, p)
  BY <1>1, InPath, GoKept
<1>3. \E step \in JobSteps \ {"idle"} : Go(r, step)
  BY DEF ShareNew, Leave, JobSteps
<1>4. JobMoves(r, p, job'[r].at) /\ job'[r].aside = job[r].aside /\ job'[r].at \in JobSteps \ {"idle"}
  BY <1>2, <1>3 DEF GoKeeps
<1>5. /\ disk' = disk /\ old' = old /\ job[r].at = "share" /\ job'[r].at = "freeze"
  BY <1>2 DEF ShareNew, At, Leave, Builds, Dropping, disks, Complete, Exists, GoKeeps, JobIn, WholeOK, JobOK, StepFits,
              BuildOK, InBuild, Inside, BuildSteps, Clearing, JobSteps, Conditions, Classes
<1>6. \A x \in Paths \ {p} : disk'[x] = disk[x] /\ old'[x] = old[x]
  BY <1>2, <1>5 DEF JobIn
<1>7. WholeOK(p)'
  BY <1>2, <1>5 DEF JobIn, WholeOK, JobOK, StepFits, Inside, BuildSteps, JobSteps, Clearing
<1>8. BuildOK(r)'
  BY <1>1, <1>2, <1>4, <1>5 DEF JobIn, BuildOK, InBuild, JobMoves, P, JobOK, StepFits, BuildSteps, Inside, Clearing
<1>9. Usable(p) => Usable(p)'
  BY <1>1, <1>2, <1>5 DEF JobIn, Usable, BuildOK, InBuild, P, JobOK, StepFits, BuildSteps, Inside
<1>10. /\ job[r].at \notin Clearing
       /\ job'[r].at \in Clearing => disk[p] # "whole"
       /\ job[r].at = "publish" => job'[r].at = "failed" \/ disk'[p] = "whole"
       /\ \/ job'[r].at = "failed" \/ job'[r].at \in Inside \ Finishing
          \/ job[r].at \in Finishing \/ disk'[p] = "whole"
  BY <1>2, <1>5 DEF JobIn, Clearing, Inside, JobSteps, Finishing
<1> QED BY <1>1, <1>2, <1>4, <1>6, <1>7, <1>8, <1>9, <1>10, JobStore DEF JobIn

LEMMA FreezeStore ==
    ASSUME BaseInv, BaseInv', StoreInv, NothingTorn, NEW r \in Paths, Freeze(r), UNCHANGED <<setting, collectVars>>
    PROVE  StoreInv'
<1> PICK p : p = P(r)
  OBVIOUS
<1>1. job[r].at \in Inside
  BY DEF Freeze, At, Inside, JobSteps
<1>2. JobIn(r, p) /\ GoKeeps(r, p)
  BY <1>1, InPath, GoKept
<1>3. \E step \in JobSteps \ {"idle"} : Go(r, step)
  BY DEF Freeze, Leave, JobSteps
<1>4. JobMoves(r, p, job'[r].at) /\ job'[r].aside = job[r].aside /\ job'[r].at \in JobSteps \ {"idle"}
  BY <1>2, <1>3 DEF GoKeeps
<1>5. /\ disk' = disk /\ old' = old /\ job[r].at = "freeze" /\ job'[r].at \in {"finish", "next", "undo", "failed"}
  BY <1>2 DEF Freeze, At, Leave, Builds, Dropping, disks, Complete, Exists, GoKeeps, JobIn, WholeOK, JobOK, StepFits,
              BuildOK, InBuild, Inside, BuildSteps, Clearing, JobSteps, Conditions, Classes
<1>6. \A x \in Paths \ {p} : disk'[x] = disk[x] /\ old'[x] = old[x]
  BY <1>2, <1>5 DEF JobIn
<1>7. WholeOK(p)'
  BY <1>2, <1>5 DEF JobIn, WholeOK, JobOK, StepFits, Inside, BuildSteps, JobSteps, Clearing
<1>8. BuildOK(r)'
  BY <1>1, <1>2, <1>4, <1>5 DEF JobIn, BuildOK, InBuild, JobMoves, P, JobOK, StepFits, BuildSteps, Inside, Clearing
<1>9. Usable(p) => Usable(p)'
  BY <1>1, <1>2, <1>5 DEF JobIn, Usable, BuildOK, InBuild, P, JobOK, StepFits, BuildSteps, Inside
<1>10. /\ job[r].at \notin Clearing
       /\ job'[r].at \in Clearing => disk[p] # "whole"
       /\ job[r].at = "publish" => job'[r].at = "failed" \/ disk'[p] = "whole"
       /\ \/ job'[r].at = "failed" \/ job'[r].at \in Inside \ Finishing
          \/ job[r].at \in Finishing \/ disk'[p] = "whole"
  BY <1>2, <1>5 DEF JobIn, Clearing, Inside, JobSteps, Finishing
<1> QED BY <1>1, <1>2, <1>4, <1>6, <1>7, <1>8, <1>9, <1>10, JobStore DEF JobIn

LEMMA SubstituteStore ==
    ASSUME BaseInv, BaseInv', StoreInv, NothingTorn, NEW r \in Paths, Substitute(r), UNCHANGED <<setting, collectVars>>
    PROVE  StoreInv'
<1> PICK p : p = P(r)
  OBVIOUS
<1>1. job[r].at \in Inside
  BY DEF Substitute, At, Inside, JobSteps
<1>2. JobIn(r, p) /\ GoKeeps(r, p)
  BY <1>1, InPath, GoKept
<1>3. \E step \in JobSteps \ {"idle"} : Go(r, step)
  BY DEF Substitute, Leave, JobSteps
<1>4. JobMoves(r, p, job'[r].at) /\ job'[r].aside = job[r].aside /\ job'[r].at \in JobSteps \ {"idle"}
  BY <1>2, <1>3 DEF GoKeeps
<1>5. /\ old' = old /\ job[r].at = "cache"
      /\ \/ disk' = disk /\ job'[r].at \in {"failed", "recover"}
         \/ disk' = disk /\ job'[r].at = "next" /\ disk[p] = "whole"
         \/ disk' = [disk EXCEPT ![p] = "whole"] /\ job'[r].at = "share"
  BY <1>2 DEF Substitute, At, Leave, Builds, Dropping, disks, Complete, Exists, GoKeeps, JobIn, WholeOK, JobOK, StepFits,
              BuildOK, InBuild, Inside, BuildSteps, Clearing, JobSteps, Conditions, Classes
<1>6. \A x \in Paths \ {p} : disk'[x] = disk[x] /\ old'[x] = old[x]
  BY <1>2, <1>5 DEF JobIn
<1>7. WholeOK(p)'
  BY <1>2, <1>5 DEF JobIn, WholeOK, JobOK, StepFits, Inside, BuildSteps, JobSteps, Clearing
<1>8. BuildOK(r)'
  BY <1>1, <1>2, <1>4, <1>5 DEF JobIn, BuildOK, InBuild, JobMoves, P, JobOK, StepFits, BuildSteps, Inside, Clearing
<1>9. Usable(p) => Usable(p)'
  BY <1>1, <1>2, <1>5 DEF JobIn, Usable, BuildOK, InBuild, P, JobOK, StepFits, BuildSteps, Inside
<1>10. /\ job[r].at \notin Clearing
       /\ job'[r].at \in Clearing => disk[p] # "whole"
       /\ job[r].at = "publish" => job'[r].at = "failed" \/ disk'[p] = "whole"
       /\ \/ job'[r].at = "failed" \/ job'[r].at \in Inside \ Finishing
          \/ job[r].at \in Finishing \/ disk'[p] = "whole"
  BY <1>2, <1>5 DEF JobIn, Clearing, Inside, JobSteps, Finishing
<1> QED BY <1>1, <1>2, <1>4, <1>6, <1>7, <1>8, <1>9, <1>10, JobStore DEF JobIn

LEMMA RecoverStore ==
    ASSUME BaseInv, BaseInv', StoreInv, NothingTorn, NEW r \in Paths, Recover(r), UNCHANGED <<setting, collectVars>>
    PROVE  StoreInv'
<1> PICK p : p = P(r)
  OBVIOUS
<1>1. job[r].at \in Inside
  BY DEF Recover, At, Inside, JobSteps
<1>2. JobIn(r, p) /\ GoKeeps(r, p)
  BY <1>1, InPath, GoKept
<1>3. \E step \in JobSteps \ {"idle"} : Go(r, step)
  BY DEF Recover, Leave, JobSteps
<1>4. JobMoves(r, p, job'[r].at) /\ job'[r].aside = job[r].aside /\ job'[r].at \in JobSteps \ {"idle"}
  BY <1>2, <1>3 DEF GoKeeps
<1>5. /\ old' = old /\ job[r].at = "recover"
      /\ \/ disk' = disk /\ job'[r].at = "source"
         \/ disk' = [disk EXCEPT ![p] = "gone"] /\ job'[r].at = "restore" /\ old[p] = "whole"
  BY <1>2 DEF Recover, At, Leave, Builds, Dropping, disks, Complete, Exists, GoKeeps, JobIn, WholeOK, JobOK, StepFits,
              BuildOK, InBuild, Inside, BuildSteps, Clearing, JobSteps, Conditions, Classes
<1>6. \A x \in Paths \ {p} : disk'[x] = disk[x] /\ old'[x] = old[x]
  BY <1>2, <1>5 DEF JobIn
<1>7. WholeOK(p)'
  BY <1>2, <1>5 DEF JobIn, WholeOK, JobOK, StepFits, Inside, BuildSteps, JobSteps, Clearing
<1>8. BuildOK(r)'
  BY <1>1, <1>2, <1>4, <1>5 DEF JobIn, BuildOK, InBuild, JobMoves, P, JobOK, StepFits, BuildSteps, Inside, Clearing
<1>9. Usable(p) => Usable(p)'
  BY <1>1, <1>2, <1>5 DEF JobIn, Usable, BuildOK, InBuild, P, JobOK, StepFits, BuildSteps, Inside
<1>10. /\ job[r].at \notin Clearing
       /\ job'[r].at \in Clearing => disk[p] # "whole"
       /\ job[r].at = "publish" => job'[r].at = "failed" \/ disk'[p] = "whole"
       /\ \/ job'[r].at = "failed" \/ job'[r].at \in Inside \ Finishing
          \/ job[r].at \in Finishing \/ disk'[p] = "whole"
  BY <1>2, <1>5 DEF JobIn, Clearing, Inside, JobSteps, Finishing
<1> QED BY <1>1, <1>2, <1>4, <1>6, <1>7, <1>8, <1>9, <1>10, JobStore DEF JobIn

LEMMA RestoreStore ==
    ASSUME BaseInv, BaseInv', StoreInv, NothingTorn, NEW r \in Paths, Restore(r), UNCHANGED <<setting, collectVars>>
    PROVE  StoreInv'
<1> PICK p : p = P(r)
  OBVIOUS
<1>1. job[r].at \in Inside
  BY DEF Restore, At, Inside, JobSteps
<1>2. JobIn(r, p) /\ GoKeeps(r, p)
  BY <1>1, InPath, GoKept
<1>3. \E step \in JobSteps \ {"idle"} : Go(r, step)
  BY DEF Restore, Leave, JobSteps
<1>4. JobMoves(r, p, job'[r].at) /\ job'[r].aside = job[r].aside /\ job'[r].at \in JobSteps \ {"idle"}
  BY <1>2, <1>3 DEF GoKeeps
<1>5. /\ job[r].at = "restore" /\ job'[r].at = "source"
      /\ disk' = [disk EXCEPT ![p] = "whole"] /\ old' = [old EXCEPT ![p] = "gone"]
  BY <1>2 DEF Restore, At, Leave, Builds, Dropping, disks, Complete, Exists, GoKeeps, JobIn, WholeOK, JobOK, StepFits,
              BuildOK, InBuild, Inside, BuildSteps, Clearing, JobSteps, Conditions, Classes
<1>6. \A x \in Paths \ {p} : disk'[x] = disk[x] /\ old'[x] = old[x]
  BY <1>2, <1>5 DEF JobIn
<1>7. WholeOK(p)'
  BY <1>2, <1>5 DEF JobIn, WholeOK, JobOK, StepFits, Inside, BuildSteps, JobSteps, Clearing
<1>8. BuildOK(r)'
  BY <1>1, <1>2, <1>4, <1>5 DEF JobIn, BuildOK, InBuild, JobMoves, P, JobOK, StepFits, BuildSteps, Inside, Clearing
<1>9. Usable(p) => Usable(p)'
  BY <1>1, <1>2, <1>5 DEF JobIn, Usable, BuildOK, InBuild, P, JobOK, StepFits, BuildSteps, Inside
<1>10. /\ job[r].at \notin Clearing
       /\ job'[r].at \in Clearing => disk[p] # "whole"
       /\ job[r].at = "publish" => job'[r].at = "failed" \/ disk'[p] = "whole"
       /\ \/ job'[r].at = "failed" \/ job'[r].at \in Inside \ Finishing
          \/ job[r].at \in Finishing \/ disk'[p] = "whole"
  BY <1>2, <1>5 DEF JobIn, Clearing, Inside, JobSteps, Finishing
<1> QED BY <1>1, <1>2, <1>4, <1>6, <1>7, <1>8, <1>9, <1>10, JobStore DEF JobIn

LEMMA FetchSourceStore ==
    ASSUME BaseInv, BaseInv', StoreInv, NothingTorn, NEW r \in Paths, FetchSource(r), UNCHANGED <<setting, collectVars>>
    PROVE  StoreInv'
<1> PICK p : p = P(r)
  OBVIOUS
<1>1. job[r].at \in Inside
  BY DEF FetchSource, At, Inside, JobSteps
<1>2. JobIn(r, p) /\ GoKeeps(r, p)
  BY <1>1, InPath, GoKept
<1>3. \E step \in JobSteps \ {"idle"} : Go(r, step)
  BY DEF FetchSource, Leave, JobSteps
<1>4. JobMoves(r, p, job'[r].at) /\ job'[r].aside = job[r].aside /\ job'[r].at \in JobSteps \ {"idle"}
  BY <1>2, <1>3 DEF GoKeeps
<1>5. /\ disk' = disk /\ old' = old /\ job[r].at = "source"
      /\ \/ job'[r].at \in {"next", "dropOld"} /\ disk[p] = "whole"
         \/ job'[r].at = "mkdir" /\ disk[p] # "whole"
         \/ job'[r].at = "failed"
  BY <1>2 DEF FetchSource, At, Leave, Builds, Dropping, disks, Complete, Exists, GoKeeps, JobIn, WholeOK, JobOK, StepFits,
              BuildOK, InBuild, Inside, BuildSteps, Clearing, JobSteps, Conditions, Classes
<1>6. \A x \in Paths \ {p} : disk'[x] = disk[x] /\ old'[x] = old[x]
  BY <1>2, <1>5 DEF JobIn
<1>7. WholeOK(p)'
  BY <1>2, <1>5 DEF JobIn, WholeOK, JobOK, StepFits, Inside, BuildSteps, JobSteps, Clearing
<1>8. BuildOK(r)'
  BY <1>1, <1>2, <1>4, <1>5 DEF JobIn, BuildOK, InBuild, JobMoves, P, JobOK, StepFits, BuildSteps, Inside, Clearing
<1>9. Usable(p) => Usable(p)'
  BY <1>1, <1>2, <1>5 DEF JobIn, Usable, BuildOK, InBuild, P, JobOK, StepFits, BuildSteps, Inside
<1>10. /\ job[r].at \notin Clearing
       /\ job'[r].at \in Clearing => disk[p] # "whole"
       /\ job[r].at = "publish" => job'[r].at = "failed" \/ disk'[p] = "whole"
       /\ \/ job'[r].at = "failed" \/ job'[r].at \in Inside \ Finishing
          \/ job[r].at \in Finishing \/ disk'[p] = "whole"
  BY <1>2, <1>5 DEF JobIn, Clearing, Inside, JobSteps, Finishing
<1> QED BY <1>1, <1>2, <1>4, <1>6, <1>7, <1>8, <1>9, <1>10, JobStore DEF JobIn

LEMMA DropOldStore ==
    ASSUME BaseInv, BaseInv', StoreInv, NothingTorn, NEW r \in Paths, DropOld(r), UNCHANGED <<setting, collectVars>>
    PROVE  StoreInv'
<1> PICK p : p = P(r)
  OBVIOUS
<1>1. job[r].at \in Inside
  BY DEF DropOld, At, Inside, JobSteps
<1>2. JobIn(r, p) /\ GoKeeps(r, p)
  BY <1>1, InPath, GoKept
<1>3. \E step \in JobSteps \ {"idle"} : Go(r, step)
  BY DEF DropOld, Leave, JobSteps
<1>4. JobMoves(r, p, job'[r].at) /\ job'[r].aside = job[r].aside /\ job'[r].at \in JobSteps \ {"idle"}
  BY <1>2, <1>3 DEF GoKeeps
<1>5. /\ disk' = disk /\ job[r].at = "dropOld" /\ job'[r].at = "setAside"
      /\ \E left \in Conditions \ {"torn"} : old' = [old EXCEPT ![p] = left]
  <2>1. job[r].at = "dropOld" /\ job'[r].at = "setAside"
    BY <1>2 DEF DropOld, At, GoKeeps, JobSteps
  <2>2. ~setting.tears /\ old[p] \in Conditions \ {"torn"}
    BY <1>2, <2>1 DEF JobIn, JobOK, WholeOK
  <2>3. PICK left \in Dropping(old[p]) : Builds(r, disk[p], left)
    BY <1>2 DEF DropOld, JobIn
  <2>4. left \in Conditions \ {"torn"}
    BY <2>2, <2>3 DEF Dropping, Conditions
  <2> QED BY <1>2, <2>1, <2>3, <2>4 DEF Builds, JobIn
<1>6. \A x \in Paths \ {p} : disk'[x] = disk[x] /\ old'[x] = old[x]
  BY <1>2, <1>5 DEF JobIn
<1>7. WholeOK(p)'
  BY <1>2, <1>5 DEF JobIn, WholeOK, JobOK, StepFits, Inside, BuildSteps, JobSteps, Clearing
<1>8. BuildOK(r)'
  BY <1>1, <1>2, <1>4, <1>5 DEF JobIn, BuildOK, InBuild, JobMoves, P, JobOK, StepFits, BuildSteps, Inside, Clearing
<1>9. Usable(p) => Usable(p)'
  BY <1>1, <1>2, <1>5 DEF JobIn, Usable, BuildOK, InBuild, P, JobOK, StepFits, BuildSteps, Inside
<1>10. /\ job[r].at \notin Clearing
       /\ job'[r].at \in Clearing => disk[p] # "whole"
       /\ job[r].at = "publish" => job'[r].at = "failed" \/ disk'[p] = "whole"
       /\ \/ job'[r].at = "failed" \/ job'[r].at \in Inside \ Finishing
          \/ job[r].at \in Finishing \/ disk'[p] = "whole"
  BY <1>2, <1>5 DEF JobIn, Clearing, Inside, JobSteps, Finishing
<1> QED BY <1>1, <1>2, <1>4, <1>6, <1>7, <1>8, <1>9, <1>10, JobStore DEF JobIn

LEMMA MkdirStore ==
    ASSUME BaseInv, BaseInv', StoreInv, NothingTorn, NEW r \in Paths, Mkdir(r), UNCHANGED <<setting, collectVars>>
    PROVE  StoreInv'
<1> PICK p : p = P(r)
  OBVIOUS
<1>1. job[r].at \in Inside
  BY DEF Mkdir, At, Inside, JobSteps
<1>2. JobIn(r, p) /\ GoKeeps(r, p)
  BY <1>1, InPath, GoKept
<1>3. \E step \in JobSteps \ {"idle"} : Go(r, step)
  BY DEF Mkdir, Leave, JobSteps
<1>4. JobMoves(r, p, job'[r].at) /\ job'[r].aside = job[r].aside /\ job'[r].at \in JobSteps \ {"idle"}
  BY <1>2, <1>3 DEF GoKeeps
<1>5. /\ old' = old /\ job[r].at = "mkdir" /\ job'[r].at = "steps"
      /\ disk' = [disk EXCEPT ![p] = "part"]
  BY <1>2 DEF Mkdir, At, Leave, Builds, Dropping, disks, Complete, Exists, GoKeeps, JobIn, WholeOK, JobOK, StepFits,
              BuildOK, InBuild, Inside, BuildSteps, Clearing, JobSteps, Conditions, Classes
<1>6. \A x \in Paths \ {p} : disk'[x] = disk[x] /\ old'[x] = old[x]
  BY <1>2, <1>5 DEF JobIn
<1>7. WholeOK(p)'
  BY <1>2, <1>5 DEF JobIn, WholeOK, JobOK, StepFits, Inside, BuildSteps, JobSteps, Clearing
<1>8. BuildOK(r)'
  BY <1>1, <1>2, <1>4, <1>5 DEF JobIn, BuildOK, InBuild, JobMoves, P, JobOK, StepFits, BuildSteps, Inside, Clearing
<1>9. Usable(p) => Usable(p)'
  BY <1>1, <1>2, <1>5 DEF JobIn, Usable, BuildOK, InBuild, P, JobOK, StepFits, BuildSteps, Inside
<1>10. /\ job[r].at \notin Clearing
       /\ job'[r].at \in Clearing => disk[p] # "whole"
       /\ job[r].at = "publish" => job'[r].at = "failed" \/ disk'[p] = "whole"
       /\ \/ job'[r].at = "failed" \/ job'[r].at \in Inside \ Finishing
          \/ job[r].at \in Finishing \/ disk'[p] = "whole"
  BY <1>2, <1>5 DEF JobIn, Clearing, Inside, JobSteps, Finishing
<1> QED BY <1>1, <1>2, <1>4, <1>6, <1>7, <1>8, <1>9, <1>10, JobStore DEF JobIn

LEMMA StepsStore ==
    ASSUME BaseInv, BaseInv', StoreInv, NothingTorn, NEW r \in Paths, Steps(r), UNCHANGED <<setting, collectVars>>
    PROVE  StoreInv'
<1> PICK p : p = P(r)
  OBVIOUS
<1>1. job[r].at \in Inside
  BY DEF Steps, At, Inside, JobSteps
<1>2. JobIn(r, p) /\ GoKeeps(r, p)
  BY <1>1, InPath, GoKept
<1>3. \E step \in JobSteps \ {"idle"} : Go(r, step)
  BY DEF Steps, Leave, JobSteps
<1>4. JobMoves(r, p, job'[r].at) /\ job'[r].aside = job[r].aside /\ job'[r].at \in JobSteps \ {"idle"}
  BY <1>2, <1>3 DEF GoKeeps
<1>5. /\ old' = old /\ job[r].at = "steps"
      /\ \/ disk' = [disk EXCEPT ![p] = "whole"] /\ job'[r].at = "share"
         \/ disk' = [disk EXCEPT ![p] = "gone"] /\ job'[r].at = "undo"
  BY <1>2 DEF Steps, At, Leave, Builds, Dropping, disks, Complete, Exists, GoKeeps, JobIn, WholeOK, JobOK, StepFits,
              BuildOK, InBuild, Inside, BuildSteps, Clearing, JobSteps, Conditions, Classes
<1>6. \A x \in Paths \ {p} : disk'[x] = disk[x] /\ old'[x] = old[x]
  BY <1>2, <1>5 DEF JobIn
<1>7. WholeOK(p)'
  BY <1>2, <1>5 DEF JobIn, WholeOK, JobOK, StepFits, Inside, BuildSteps, JobSteps, Clearing
<1>8. BuildOK(r)'
  BY <1>1, <1>2, <1>4, <1>5 DEF JobIn, BuildOK, InBuild, JobMoves, P, JobOK, StepFits, BuildSteps, Inside, Clearing
<1>9. Usable(p) => Usable(p)'
  BY <1>1, <1>2, <1>5 DEF JobIn, Usable, BuildOK, InBuild, P, JobOK, StepFits, BuildSteps, Inside
<1>10. /\ job[r].at \notin Clearing
       /\ job'[r].at \in Clearing => disk[p] # "whole"
       /\ job[r].at = "publish" => job'[r].at = "failed" \/ disk'[p] = "whole"
       /\ \/ job'[r].at = "failed" \/ job'[r].at \in Inside \ Finishing
          \/ job[r].at \in Finishing \/ disk'[p] = "whole"
  BY <1>2, <1>5 DEF JobIn, Clearing, Inside, JobSteps, Finishing
<1> QED BY <1>1, <1>2, <1>4, <1>6, <1>7, <1>8, <1>9, <1>10, JobStore DEF JobIn

LEMMA UndoStore ==
    ASSUME BaseInv, BaseInv', StoreInv, NothingTorn, NEW r \in Paths, Undo(r), UNCHANGED <<setting, collectVars>>
    PROVE  StoreInv'
<1> PICK p : p = P(r)
  OBVIOUS
<1>1. job[r].at \in Inside
  BY DEF Undo, At, Inside, JobSteps
<1>2. JobIn(r, p) /\ GoKeeps(r, p)
  BY <1>1, InPath, GoKept
<1>3. \E step \in JobSteps \ {"idle"} : Go(r, step)
  BY DEF Undo, Leave, JobSteps
<1>4. JobMoves(r, p, job'[r].at) /\ job'[r].aside = job[r].aside /\ job'[r].at \in JobSteps \ {"idle"}
  BY <1>2, <1>3 DEF GoKeeps
<1>5. /\ old' = old /\ job[r].at = "undo"
      /\ \/ disk' = disk /\ job'[r].at = "failed"
         \/ /\ old[p] = "whole" /\ job'[r].at = "putBack"
            /\ \E left \in Conditions \ {"torn"} : disk' = [disk EXCEPT ![p] = left]
  BY <1>2 DEF Undo, At, Leave, Builds, Dropping, disks, Complete, Exists, GoKeeps, JobIn, WholeOK, JobOK, StepFits,
              BuildOK, InBuild, Inside, BuildSteps, Clearing, JobSteps, Conditions, Classes
<1>6. \A x \in Paths \ {p} : disk'[x] = disk[x] /\ old'[x] = old[x]
  BY <1>2, <1>5 DEF JobIn
<1>7. WholeOK(p)'
  BY <1>2, <1>5 DEF JobIn, WholeOK, JobOK, StepFits, Inside, BuildSteps, JobSteps, Clearing
<1>8. BuildOK(r)'
  BY <1>1, <1>2, <1>4, <1>5 DEF JobIn, BuildOK, InBuild, JobMoves, P, JobOK, StepFits, BuildSteps, Inside, Clearing
<1>9. Usable(p) => Usable(p)'
  BY <1>1, <1>2, <1>5 DEF JobIn, Usable, BuildOK, InBuild, P, JobOK, StepFits, BuildSteps, Inside
<1>10. /\ job[r].at \notin Clearing
       /\ job'[r].at \in Clearing => disk[p] # "whole"
       /\ job[r].at = "publish" => job'[r].at = "failed" \/ disk'[p] = "whole"
       /\ \/ job'[r].at = "failed" \/ job'[r].at \in Inside \ Finishing
          \/ job[r].at \in Finishing \/ disk'[p] = "whole"
  BY <1>2, <1>5 DEF JobIn, Clearing, Inside, JobSteps, Finishing
<1> QED BY <1>1, <1>2, <1>4, <1>6, <1>7, <1>8, <1>9, <1>10, JobStore DEF JobIn

LEMMA PutBackStore ==
    ASSUME BaseInv, BaseInv', StoreInv, NothingTorn, NEW r \in Paths, PutBack(r), UNCHANGED <<setting, collectVars>>
    PROVE  StoreInv'
<1> PICK p : p = P(r)
  OBVIOUS
<1>1. job[r].at \in Inside
  BY DEF PutBack, At, Inside, JobSteps
<1>2. JobIn(r, p) /\ GoKeeps(r, p)
  BY <1>1, InPath, GoKept
<1>3. \E step \in JobSteps \ {"idle"} : Go(r, step)
  BY DEF PutBack, Leave, JobSteps
<1>4. JobMoves(r, p, job'[r].at) /\ job'[r].aside = job[r].aside /\ job'[r].at \in JobSteps \ {"idle"}
  BY <1>2, <1>3 DEF GoKeeps
<1>5. /\ job[r].at = "putBack" /\ job'[r].at = "failed"
      /\ disk' = [disk EXCEPT ![p] = "whole"] /\ old' = [old EXCEPT ![p] = "gone"]
  BY <1>2 DEF PutBack, At, Leave, Builds, Dropping, disks, Complete, Exists, GoKeeps, JobIn, WholeOK, JobOK, StepFits,
              BuildOK, InBuild, Inside, BuildSteps, Clearing, JobSteps, Conditions, Classes
<1>6. \A x \in Paths \ {p} : disk'[x] = disk[x] /\ old'[x] = old[x]
  BY <1>2, <1>5 DEF JobIn
<1>7. WholeOK(p)'
  BY <1>2, <1>5 DEF JobIn, WholeOK, JobOK, StepFits, Inside, BuildSteps, JobSteps, Clearing
<1>8. BuildOK(r)'
  BY <1>1, <1>2, <1>4, <1>5 DEF JobIn, BuildOK, InBuild, JobMoves, P, JobOK, StepFits, BuildSteps, Inside, Clearing
<1>9. Usable(p) => Usable(p)'
  BY <1>1, <1>2, <1>5 DEF JobIn, Usable, BuildOK, InBuild, P, JobOK, StepFits, BuildSteps, Inside
<1>10. /\ job[r].at \notin Clearing
       /\ job'[r].at \in Clearing => disk[p] # "whole"
       /\ job[r].at = "publish" => job'[r].at = "failed" \/ disk'[p] = "whole"
       /\ \/ job'[r].at = "failed" \/ job'[r].at \in Inside \ Finishing
          \/ job[r].at \in Finishing \/ disk'[p] = "whole"
  BY <1>2, <1>5 DEF JobIn, Clearing, Inside, JobSteps, Finishing
<1> QED BY <1>1, <1>2, <1>4, <1>6, <1>7, <1>8, <1>9, <1>10, JobStore DEF JobIn

LEMMA FinishStore ==
    ASSUME BaseInv, BaseInv', StoreInv, NothingTorn, NEW r \in Paths, Finish(r), UNCHANGED <<setting, collectVars>>
    PROVE  StoreInv'
<1> PICK p : p = P(r)
  OBVIOUS
<1>1. job[r].at \in Inside
  BY DEF Finish, At, Inside, JobSteps
<1>2. JobIn(r, p) /\ GoKeeps(r, p)
  BY <1>1, InPath, GoKept
<1>3. \E step \in JobSteps \ {"idle"} : Go(r, step)
  BY DEF Finish, Leave, JobSteps
<1>4. JobMoves(r, p, job'[r].at) /\ job'[r].aside = job[r].aside /\ job'[r].at \in JobSteps \ {"idle"}
  BY <1>2, <1>3 DEF GoKeeps
<1>5. /\ disk' = disk /\ job[r].at = "finish" /\ job'[r].at \in {"finished", "next"}
      /\ old' = old \/ \E left \in Conditions \ {"torn"} : old' = [old EXCEPT ![p] = left]
  BY <1>2 DEF Finish, At, Leave, Builds, Dropping, disks, Complete, Exists, GoKeeps, JobIn, WholeOK, JobOK, StepFits,
              BuildOK, InBuild, Inside, BuildSteps, Clearing, JobSteps, Conditions, Classes
<1>6. \A x \in Paths \ {p} : disk'[x] = disk[x] /\ old'[x] = old[x]
  BY <1>2, <1>5 DEF JobIn
<1>7. WholeOK(p)'
  BY <1>2, <1>5 DEF JobIn, WholeOK, JobOK, StepFits, Inside, BuildSteps, JobSteps, Clearing
<1>8. BuildOK(r)'
  BY <1>1, <1>2, <1>4, <1>5 DEF JobIn, BuildOK, InBuild, JobMoves, P, JobOK, StepFits, BuildSteps, Inside, Clearing
<1>9. Usable(p) => Usable(p)'
  BY <1>1, <1>2, <1>5 DEF JobIn, Usable, BuildOK, InBuild, P, JobOK, StepFits, BuildSteps, Inside
<1>10. /\ job[r].at \notin Clearing
       /\ job'[r].at \in Clearing => disk[p] # "whole"
       /\ job[r].at = "publish" => job'[r].at = "failed" \/ disk'[p] = "whole"
       /\ \/ job'[r].at = "failed" \/ job'[r].at \in Inside \ Finishing
          \/ job[r].at \in Finishing \/ disk'[p] = "whole"
  BY <1>2, <1>5 DEF JobIn, Clearing, Inside, JobSteps, Finishing
<1> QED BY <1>1, <1>2, <1>4, <1>6, <1>7, <1>8, <1>9, <1>10, JobStore DEF JobIn

LEMMA FinishedStore ==
    ASSUME BaseInv, BaseInv', StoreInv, NothingTorn, NEW r \in Paths, Finished(r), UNCHANGED <<setting, collectVars>>
    PROVE  StoreInv'
<1> PICK p : p = P(r)
  OBVIOUS
<1>1. job[r].at \in Inside
  BY DEF Finished, At, Inside, JobSteps
<1>2. JobIn(r, p) /\ GoKeeps(r, p)
  BY <1>1, InPath, GoKept
<1>3. \E step \in JobSteps \ {"idle"} : Go(r, step)
  BY DEF Finished, Leave, JobSteps
<1>4. JobMoves(r, p, job'[r].at) /\ job'[r].aside = job[r].aside /\ job'[r].at \in JobSteps \ {"idle"}
  BY <1>2, <1>3 DEF GoKeeps
<1>5. /\ disk' = disk /\ job[r].at = "finished" /\ job'[r].at = "next"
      /\ old' = [old EXCEPT ![p] = "gone"]
  BY <1>2 DEF Finished, At, Leave, Builds, Dropping, disks, Complete, Exists, GoKeeps, JobIn, WholeOK, JobOK, StepFits,
              BuildOK, InBuild, Inside, BuildSteps, Clearing, JobSteps, Conditions, Classes
<1>6. \A x \in Paths \ {p} : disk'[x] = disk[x] /\ old'[x] = old[x]
  BY <1>2, <1>5 DEF JobIn
<1>7. WholeOK(p)'
  BY <1>2, <1>5 DEF JobIn, WholeOK, JobOK, StepFits, Inside, BuildSteps, JobSteps, Clearing
<1>8. BuildOK(r)'
  BY <1>1, <1>2, <1>4, <1>5 DEF JobIn, BuildOK, InBuild, JobMoves, P, JobOK, StepFits, BuildSteps, Inside, Clearing
<1>9. Usable(p) => Usable(p)'
  BY <1>1, <1>2, <1>5 DEF JobIn, Usable, BuildOK, InBuild, P, JobOK, StepFits, BuildSteps, Inside
<1>10. /\ job[r].at \notin Clearing
       /\ job'[r].at \in Clearing => disk[p] # "whole"
       /\ job[r].at = "publish" => job'[r].at = "failed" \/ disk'[p] = "whole"
       /\ \/ job'[r].at = "failed" \/ job'[r].at \in Inside \ Finishing
          \/ job[r].at \in Finishing \/ disk'[p] = "whole"
  BY <1>2, <1>5 DEF JobIn, Clearing, Inside, JobSteps, Finishing
<1> QED BY <1>1, <1>2, <1>4, <1>6, <1>7, <1>8, <1>9, <1>10, JobStore DEF JobIn

(* Remove, of what a delete that stopped halfway left *)
LEMMA ClearStore ==
    ASSUME BaseInv, BaseInv', StoreInv, NothingTorn, NEW r \in Paths, Clear(r), UNCHANGED <<setting, collectVars>>
    PROVE  StoreInv'
<1> PICK p : p = P(r)
  OBVIOUS
<1>1. PICK then \in {"aside", "erase", "delete", "removed"} :
        /\ RemoveStep(p, job[r].at, then)
        /\ Go(r, IF then = "removed" THEN "publish" ELSE then)
  BY DEF Clear
<1>2. PICK step : step = IF then = "removed" THEN "publish" ELSE then
  OBVIOUS
<1>3. job[r].at \in Clearing /\ job[r].at \in Inside /\ step \in Clearing \cup {"publish"}
  BY <1>1, <1>2 DEF RemoveStep, Clearing, Inside, JobSteps
<1>4. JobIn(r, p) /\ GoKeeps(r, p) /\ step \in JobSteps \ {"idle"} /\ step \in Inside \ Finishing
  BY <1>3, InPath, GoKept DEF Clearing, Inside, JobSteps, Finishing
<1>5. JobMoves(r, p, step) /\ job'[r].at = step
  BY <1>1, <1>2, <1>4 DEF GoKeeps
<1>6. /\ old' = old /\ \A x \in Paths \ {p} : disk'[x] = disk[x]
      /\ disk'[p] \in {disk[p], "part", "gone"}
  BY <1>1, <1>4, BaseTypes, RemoveStepDisk DEF JobIn
<1>7. Class[p] = "artifact"
  BY <1>3, <1>4 DEF JobIn, JobOK, StepFits
<1>8. WholeOK(p)'
  BY <1>4, <1>6, <1>7 DEF JobIn, WholeOK
<1>9. BuildOK(r)'
  BY <1>5, <1>7 DEF BuildOK, InBuild, JobMoves, P
<1>10. step \in JobSteps /\ step # "idle" /\ p \in Paths
  BY <1>4 DEF JobIn
<1>11. job[r].at # "publish"
  BY <1>3 DEF Clearing
<1> QED BY <1>3, <1>4, <1>5, <1>6, <1>8, <1>9, <1>10, <1>11, JobStore

LEMMA SetAsideStore ==
    ASSUME BaseInv, BaseInv', StoreInv, NothingTorn, NEW r \in Paths, SetAside(r), UNCHANGED <<setting, collectVars>>
    PROVE  StoreInv'
<1> PICK p : p = P(r)
  OBVIOUS
<1>1. job[r].at = "setAside" /\ job[r].at \in Inside
  BY DEF SetAside, At, Inside, JobSteps
<1>2. JobIn(r, p) /\ p \in Paths
  BY <1>1, InPath DEF JobIn
<1>3. JobMoves(r, p, "mkdir")
  BY SetAsideKept DEF JobMoves, P, JobKept
<1>4. disk[p] = "whole" /\ Class[p] = "build"
  BY <1>1, <1>2 DEF JobIn, BuildOK, InBuild, P, JobOK, StepFits, BuildSteps
<1>5. /\ disk' = [disk EXCEPT ![p] = "gone"] /\ old' = [old EXCEPT ![p] = "whole"]
      /\ disk'[p] = "gone" /\ old'[p] = "whole"
      /\ \A x \in Paths \ {p} : disk'[x] = disk[x] /\ old'[x] = old[x]
  BY <1>2, <1>4 DEF SetAside, Builds, JobIn
<1>6. WholeOK(p)'
  BY <1>4, <1>5 DEF WholeOK
<1>7. BuildOK(r)'
  BY <1>3, <1>5 DEF BuildOK, InBuild, JobMoves, P
<1>8. Usable(p)'
  BY <1>4, <1>5 DEF Usable
<1>9. "mkdir" \in JobSteps /\ "mkdir" \in Inside \ Finishing /\ "mkdir" \notin Clearing
  BY DEF JobSteps, Inside, Finishing, Clearing
<1>10. job[r].at \notin Clearing
  BY <1>1 DEF Clearing
<1> QED BY <1>1, <1>2, <1>3, <1>5, <1>6, <1>7, <1>8, <1>9, <1>10, JobStore

(* What Pick does to its job *)
Picked(r) ==
    /\ \A s \in Paths \ {r} : job'[s] = job[s]
    /\ \/ job'[r].at = "done" /\ job'[r].todo = {} /\ job[r].todo = {}
       \/ \E p \in job[r].todo :
            /\ job'[r].path = p /\ job'[r].todo = job[r].todo \ {p} /\ ~job'[r].aside
            /\ job'[r].at = IF Class[p] = "build" THEN "cache" ELSE "start"

LEMMA PickMoves ==
    ASSUME BaseInv, NEW r \in Paths, Pick(r)
    PROVE  Picked(r) /\ job[r].at = "next" /\ UNCHANGED disks
<1>1. job \in [Paths -> JobStates] /\ job[r] \in JobStates /\ job[r].at = "next" /\ UNCHANGED disks /\ StoreTypeOK
  BY BaseTypes DEF Pick, At, BaseInv, CollectTypeOK
<1>2. CASE job[r].todo = {} /\ Go(r, "done")
  <2>1. Moved(r, "done")
    BY <1>1, <1>2, GoMoves DEF JobSteps
  <2> QED BY <1>1, <1>2, <2>1 DEF Moved, Picked
<1>3. ASSUME NEW p \in job[r].todo,
             job' = [job EXCEPT ![r].path = p, ![r].todo = @ \ {p}, ![r].aside = FALSE,
                                ![r].at = IF Class[p] = "build" THEN "cache" ELSE "start"]
      PROVE  Picked(r)
  <2> DEFINE j == [job[r] EXCEPT !.path = p, !.todo = @ \ {p}, !.aside = FALSE,
                                 !.at = IF Class[p] = "build" THEN "cache" ELSE "start"]
  <2>1. job' = [job EXCEPT ![r] = j]
    BY <1>3
  <2>2. j.path = p /\ j.todo = job[r].todo \ {p} /\ ~j.aside /\ j.at = (IF Class[p] = "build" THEN "cache" ELSE "start")
    BY <1>1 DEF JobStates
  <2> HIDE DEF j
  <2> QED BY <1>1, <2>1, <2>2 DEF Picked
<1> QED BY <1>1, <1>2, <1>3 DEF Pick

LEMMA PickStore ==
    ASSUME BaseInv, BaseInv', StoreInv, NEW r \in Paths, Pick(r), UNCHANGED <<setting, collectVars>>
    PROVE  StoreInv'
<1>1. Picked(r) /\ job[r].at = "next" /\ disk' = disk /\ old' = old
  BY PickMoves DEF disks
<1>2. \A s \in Paths \ {r} : job'[s] = job[s]
  BY <1>1 DEF Picked
<1>3. job'[r].at \in {"done", "cache", "start"}
  BY <1>1 DEF Picked
<1>4. \A p \in Paths : WholeOK(p)' /\ (Usable(p)' <=> Usable(p))
  BY <1>1 DEF StoreInv, WholeOK, Usable
<1>5. TreesInv'
  BY <1>1, <1>2 DEF StoreInv, TreesInv, NoTree
<1>6. \A s \in Paths : BuildOK(s)'
  <2>1. \A s \in Paths \ {r} : BuildOK(s)'
    BY <1>1, <1>2 DEF StoreInv, BuildOK, InBuild, P
  <2>2. BuildOK(r)'
    BY <1>1, <1>3 DEF BuildOK, Picked, InBuild, Inside
  <2> QED BY <2>1, <2>2
<1>7. \A p \in Paths : Remaking(p) => Remaking(p)'
  BY <1>1, <1>2 DEF Remaking, P, Clearing
<1>8. \A s, p \in Paths : job'[s].at # "idle" /\ Made(s, p)' => job[s].at # "idle" /\ Made(s, p)
  <2> SUFFICES ASSUME NEW p \in Paths, Made(r, p)' PROVE Made(r, p)
    BY <1>1, <1>2 DEF Made, P
  <2> QED BY <1>1 DEF Made, Picked, P, Inside, JobSteps, Finishing
<1>9. MadeInv'
  <2>1. (\A s \in Paths : job'[s].at # "failed") => \A s \in Paths : job[s].at # "failed"
    BY <1>1, <1>2
  <2> QED BY <1>4, <1>7, <1>8, <2>1 DEF StoreInv, MadeInv
<1>10. \A p \in Paths : InUse(p)' <=> InUse(p)
  BY DEF InUse, collectVars
<1>11. SessionInv' /\ KeepInv' /\ (SpareInv => SpareInv')
  BY <1>10 DEF StoreInv, SessionInv, KeepInv, SpareInv, collectVars
<1>12. HeldInv => HeldInv'
  <2>1. \A p \in Paths : HeldOK(p) => HeldOK(p)'
    BY <1>2, <1>3, <1>4 DEF HeldOK, P, Clearing
  <2> QED BY <1>10, <2>1 DEF HeldInv
<1> QED BY <1>4, <1>5, <1>6, <1>9, <1>11, <1>12 DEF StoreInv, UseInv

LEMMA WorkStore ==
    ASSUME BaseInv, BaseInv', StoreInv, NothingTorn, NEW r \in Paths, Work(r)
    PROVE  StoreInv'
<1>1. JobStep(r) /\ UNCHANGED <<setting, collectVars>>
  BY JobStepKept DEF Work, JobKept
<1> QED BY <1>1, PickStore, UnpackStore, SettleStore, ClearStore, PublishStore, ShareNewStore, FreezeStore,
           SubstituteStore, RecoverStore, RestoreStore, FetchSourceStore, DropOldStore, SetAsideStore,
           MkdirStore, StepsStore, UndoStore, PutBackStore, FinishStore, FinishedStore DEF JobStep

(***************************************************************************)
(* What is in use stays: the steps of a command.                           *)
(***************************************************************************)

(* Only the command that holds the lock prunes or sweeps *)
LEMMA QuietKeeps ==
    ASSUME BaseInv',
           holder' = NoProc \/ cmd'[holder'].at \notin {"projects", "prune", "mark"}
    PROVE  KeepInv'
BY ProcsAssumption DEF BaseInv, LockInv, KeepInv

LEMMA QuietSpares ==
    ASSUME BaseInv',
           holder' = NoProc \/ cmd'[holder'].at \notin Sweeping
    PROVE  SpareInv'
<1> SUFFICES ASSUME NEW q \in Procs, cmd'[q].at \in Sweeping PROVE FALSE
  BY DEF SpareInv
<1>1. holder' = q
  BY DEF BaseInv, LockInv, Sweeping, Clearing
<1> QED BY <1>1, ProcsAssumption

(* The session of each program that goes on *)
LEMMA SessionsKept ==
    ASSUME SessionInv, NEW q \in Procs,
           \A x \in Procs \ {q} : cmd'[x] = cmd[x] /\ (cmd[x].at = "running" => sessions'[x] = sessions[x]),
           cmd'[q].at = "running" => sessions'[q] = ClosureOf(cmd'[q].roots)
    PROVE  SessionInv'
BY DEF SessionInv, ClosureOf

(* Nothing new is in use *)
LEMMA NoNewUse ==
    ASSUME NEW q \in Procs, \A x \in Procs \ {q} : cmd'[x] = cmd[x],
           \/ cmd'[q].at \notin Holding
           \/ cmd[q].at \in Holding /\ cmd'[q].roots = cmd[q].roots,
           \A g \in gens' : g \in gens \/ (cmd[q].at \in Holding /\ g[2] = cmd[q].roots)
    PROVE  \A p \in Paths : InUse(p)' => InUse(p)
BY DEF InUse, ClosureOf

(* The store and the jobs are as they were *)
LEMMA SameStore ==
    ASSUME StoreInv, UNCHANGED <<setting, disk, old, job>>, SessionInv', KeepInv',
           "repair" \notin setting.commands => SpareInv' /\ \A p \in Paths : InUse(p)' => InUse(p)
    PROVE  StoreInv'
<1>1. \A p \in Paths : WholeOK(p)' /\ (Usable(p)' <=> Usable(p)) /\ (Remaking(p)' <=> Remaking(p))
  BY DEF StoreInv, WholeOK, Usable, Remaking, P
<1>2. TreesInv' /\ \A r \in Paths : BuildOK(r)'
  BY DEF StoreInv, TreesInv, NoTree, BuildOK, InBuild, P
<1>3. MadeInv'
  BY <1>1 DEF StoreInv, MadeInv, Made, P
<1>4. UseInv'
  <2> SUFFICES ASSUME "repair" \notin setting.commands, NEW p \in Paths, InUse(p)' PROVE HeldOK(p)'
    BY DEF UseInv, HeldInv
  <2>1. HeldOK(p)
    BY DEF StoreInv, UseInv, HeldInv
  <2> QED BY <1>1, <2>1 DEF HeldOK, P
<1> QED BY <1>1, <1>2, <1>3, <1>4 DEF StoreInv

(* No job runs *)
LEMMA QuietStore ==
    ASSUME \A p \in Paths : WholeOK(p)', \A r \in Paths : job'[r].at = "idle", SessionInv', KeepInv',
           "repair" \notin setting'.commands => SpareInv' /\ \A p \in Paths : InUse(p)' => Usable(p)'
    PROVE  StoreInv'
<1>1. TreesInv' /\ MadeInv' /\ \A r \in Paths : BuildOK(r)'
  BY DEF TreesInv, MadeInv, BuildOK, InBuild, Inside
<1>2. UseInv'
  BY DEF UseInv, HeldInv, HeldOK, Clearing
<1> QED BY <1>1, <1>2 DEF StoreInv

LEMMA HeldUsable ==
    ASSUME StoreInv, "repair" \notin setting.commands
    PROVE  SpareInv /\ \A p \in Paths : InUse(p) => Usable(p)
BY DEF StoreInv, UseInv, HeldInv, HeldOK

LEMMA BeginJobsStore ==
    ASSUME BaseInv, BaseInv', StoreInv, NothingTorn, NEW q \in Procs, NEW roots \in setting.wants,
           NEW rebuild \in BOOLEAN, StartJobs(roots, rebuild), rebuild => "rebuild" \in setting.commands,
           UNCHANGED <<disks, builder, sessions>>, holder = NoProc, holder' = q,
           \A x \in Procs \ {q} : cmd'[x] = cmd[x], cmd'[q].at = "jobs", gens' \subseteq gens
    PROVE  StoreInv'
<1>1. disk' = disk /\ old' = old /\ setting' = setting /\ builder' = {} /\ roots \subseteq Paths
  BY NoJobs, BaseTypes, SettingsAssumption DEF disks, JobsIdle, DiskTypes
<1>2. /\ \A r \in Paths : job'[r].at = (IF r \in roots THEN "next" ELSE "idle")
      /\ \A r \in roots : job'[r].todo = Closure[r]
  BY <1>1, JobsBegin
<1>3. \A p \in Paths : WholeOK(p)' /\ (Usable(p)' <=> Usable(p))
  BY <1>1 DEF StoreInv, WholeOK, Usable
<1>4. TreesInv'
  BY <1>1, <1>2 DEF TreesInv, NothingTorn, NoTree
<1>5. \A r \in Paths : BuildOK(r)'
  BY <1>2 DEF BuildOK, InBuild, Inside
<1>6. MadeInv'
  BY <1>2 DEF MadeInv, Made
<1>7. SessionInv' /\ KeepInv' /\ SpareInv'
  BY SessionsKept, QuietKeeps, QuietSpares DEF StoreInv, Sweeping, Clearing
<1>8. \A p \in Paths : InUse(p)' => InUse(p)
  BY NoNewUse DEF Holding
<1>9. UseInv'
  <2>1. \A r \in Paths : job'[r].at \notin Clearing
    BY <1>2 DEF Clearing
  <2> QED BY <1>1, <1>3, <1>7, <1>8, <2>1, HeldUsable DEF UseInv, HeldInv, HeldOK
<1> QED BY <1>3, <1>4, <1>5, <1>6, <1>7, <1>9 DEF StoreInv

LEMMA BeginInstallStore ==
    ASSUME BaseInv, BaseInv', StoreInv, NothingTorn, NEW q \in Procs, BeginInstall(q) \/ BeginShell(q)
    PROVE  StoreInv'
<1>1. CASE BeginInstall(q)
  <2>1. PICK name \in {"install", "rebuild"}, f \in Profiles, roots \in SUBSET Paths :
             /\ name \in setting.commands /\ roots \in setting.wants
             /\ Begun(q, name, "jobs", f, roots)
             /\ holder = NoProc /\ holder' = q
             /\ StartJobs(roots, name = "rebuild")
             /\ gens' = gens \ staged
             /\ UNCHANGED <<disks, builder, sessions>>
    BY <1>1, BeginInstallMoves
  <2>2. CASE name = "rebuild"
    <3>1. StartJobs(roots, TRUE)
      BY <2>1, <2>2
    <3> QED BY <2>1, <2>2, <3>1, BeginJobsStore DEF Begun
  <2>3. CASE name = "install"
    <3>1. StartJobs(roots, FALSE)
      BY <2>1, <2>3
    <3> QED BY <2>1, <2>3, <3>1, BeginJobsStore DEF Begun
  <2> QED BY <2>2, <2>3
<1>2. CASE BeginShell(q)
  <2>1. PICK roots \in SUBSET Paths :
             /\ roots \in setting.wants /\ Begun(q, "shell", "jobs", "", roots)
             /\ holder = NoProc /\ holder' = q /\ StartJobs(roots, FALSE)
             /\ UNCHANGED <<disks, builder, gens, sessions>>
    BY <1>2, BeginShellMoves
  <2> QED BY <2>1, BeginJobsStore DEF Begun
<1> QED BY <1>1, <1>2

(* The jobs have made what the command wants *)
LEMMA JobsEndStore ==
    ASSUME BaseInv, BaseInv', StoreInv, NEW q \in Procs, JobsEnd(q)
    PROVE  StoreInv'
<1>1. /\ holder = q /\ cmd[q].at = "jobs" /\ disk' = disk /\ old' = old /\ setting' = setting /\ gens' = gens
      /\ job' = [r \in Paths |-> Idle] /\ sessions' = sessions
  BY DEF JobsEnd, Holds, disks
<1>2. \A r \in Paths : job'[r].at = "idle"
  BY <1>1 DEF Idle
<1>3. \A p \in Paths : WholeOK(p)' /\ (Usable(p)' <=> Usable(p))
  BY <1>1 DEF StoreInv, WholeOK, Usable
<1>4. CASE End(q)
  <2>1. cmd'[q].at = "idle" /\ holder' = NoProc /\ \A x \in Procs \ {q} : cmd'[x] = cmd[x]
    BY <1>4, EndMoves, BaseTypes DEF End
  <2>2. SessionInv' /\ KeepInv' /\ SpareInv' /\ \A p \in Paths : InUse(p)' => InUse(p)
    BY <1>1, <2>1, SessionsKept, QuietKeeps, QuietSpares, NoNewUse DEF StoreInv, Holding
  <2> QED BY <1>1, <1>2, <1>3, <2>2, QuietStore, HeldUsable
<1>5. CASE ~End(q)
  <2>1. /\ \A r \in cmd[q].roots : job[r].at = "done"
        /\ \E at \in {"hold", "stage"} : Step(q, at)
        /\ holder' = q
    BY <1>1, <1>5 DEF JobsEnd, At
  <2>2. PICK at \in {"hold", "stage"} : Stepped(q, at)
    BY <2>1, StepMoves, BaseTypes DEF CommandSteps
  <2>3. /\ cmd'[q].at \in {"hold", "stage"} /\ cmd'[q].roots = cmd[q].roots /\ cmd[q].roots \subseteq Paths
        /\ \A x \in Procs \ {q} : cmd'[x] = cmd[x]
    BY <2>2, BaseTypes DEF Stepped, CommandStates
  <2>4. SessionInv' /\ KeepInv' /\ SpareInv'
    BY <1>1, <2>1, <2>3, SessionsKept, QuietKeeps, QuietSpares DEF StoreInv, Sweeping, Clearing
  <2>5. \A r \in Paths : job[r].at \in {"idle", "done"}
    BY <1>1, <2>1, ProcsAssumption DEF BaseInv, LockInv
  <2>6. ASSUME NEW r \in cmd[q].roots, NEW p \in Closure[r] PROVE Usable(p)
    <3>1. r \in Paths /\ p \in Paths /\ job[r].at = "done"
      BY <2>1, <2>3, <2>6, PathsAssumption
    <3>2. Made(r, p)
      BY <3>1 DEF Made, BaseInv, JobOK, Inside
    <3>3. ~Remaking(p)
      BY <2>5 DEF Remaking, Clearing
    <3> QED BY <2>5, <3>1, <3>2, <3>3 DEF StoreInv, MadeInv
  <2>7. ASSUME NEW p \in Paths, InUse(p)' PROVE InUse(p) \/ \E r \in cmd[q].roots : p \in Closure[r]
    BY <1>1, <2>3, <2>7 DEF InUse, ClosureOf
  <2> QED BY <1>1, <1>2, <1>3, <2>4, <2>6, <2>7, QuietStore, HeldUsable
<1> QED BY <1>4, <1>5

LEMMA StageStore ==
    ASSUME BaseInv, BaseInv', StoreInv, NEW q \in Procs, Stage(q)
    PROVE  StoreInv'
<1>1. /\ holder = q /\ cmd[q].at = "stage" /\ holder' = q /\ UNCHANGED <<setting, disk, old, job, sessions>>
      /\ gens' = gens \cup {<<cmd[q].profile, cmd[q].roots>>} /\ Step(q, "activate")
  BY DEF Stage, Holds, storeVars, disks
<1>2. Stepped(q, "activate")
  BY <1>1, StepMoves, BaseTypes DEF CommandSteps
<1>3. SessionInv' /\ KeepInv' /\ SpareInv'
  BY <1>1, <1>2, SessionsKept, QuietKeeps, QuietSpares DEF StoreInv, Stepped, Sweeping, Clearing
<1>4. \A p \in Paths : InUse(p)' => InUse(p)
  BY <1>1, <1>2, NoNewUse DEF Stepped, Holding
<1> QED BY <1>1, <1>3, <1>4, SameStore

(* A command that ends, or is killed, leaves no more in use *)
LEMMA EndStore ==
    ASSUME BaseInv, BaseInv', StoreInv, NEW q \in Procs, cmd' = [cmd EXCEPT ![q] = NoCmd],
           UNCHANGED <<setting, disk, old, job>>, gens' \subseteq gens, holder' \in {holder, NoProc},
           \A x \in Procs \ {q} : cmd[x].at = "running" => sessions'[x] = sessions[x]
    PROVE  StoreInv'
<1>1. cmd'[q].at = "idle" /\ \A x \in Procs \ {q} : cmd'[x] = cmd[x]
  BY EndMoves, BaseTypes
<1>2. SessionInv'
  BY <1>1, SessionsKept DEF StoreInv
<1>3. KeepInv'
  BY <1>1 DEF StoreInv, KeepInv, ClosureOf
<1>4. \A p \in Paths : InUse(p)' => InUse(p)
  BY <1>1, NoNewUse DEF Holding
<1>5. SpareInv => SpareInv'
  BY <1>1, <1>4 DEF SpareInv, Sweeping, Clearing
<1> QED BY <1>2, <1>3, <1>4, <1>5, SameStore, HeldUsable

(* A step of gc up to its list of what goes *)
LEMMA RootsStore ==
    ASSUME BaseInv, BaseInv', StoreInv, NEW q \in Procs, Roots(q)
    PROVE  StoreInv'
<1>1. /\ holder = q /\ cmd[q].at = "roots" /\ UNCHANGED <<setting, disk, old, job, gens>>
  BY DEF Roots, Holds, storeVars, disks
<1>2. CASE pending
  BY <1>1, <1>2, EndStore DEF Roots, End
<1>3. CASE ~pending
  <2>1. Rooted(q) /\ holder' = q /\ sessions' = [x \in Procs |-> IF Running(x) THEN sessions[x] ELSE {}]
    BY <1>1, <1>3, RootsMoves DEF Roots
  <2>2. cmd'[q].at = "projects" /\ cmd'[q].keep = LiveRoots /\ \A x \in Procs \ {q} : cmd'[x] = cmd[x]
    BY <2>1 DEF Rooted
  <2>3. \A x \in Procs \ {q} : cmd[x].at = "running" => sessions'[x] = sessions[x]
    BY <2>1 DEF Running
  <2>4. SessionInv' /\ SpareInv'
    BY <2>1, <2>2, <2>3, SessionsKept, QuietSpares DEF StoreInv, Sweeping, Clearing
  <2>5. ASSUME NEW x \in Procs, cmd'[x].at = "running" PROVE ClosureOf(cmd'[x].roots) \subseteq LiveRoots
    <3>1. x # q /\ cmd[x].at = "running" /\ cmd'[x] = cmd[x]
      BY <2>2, <2>5
    <3>2. sessions[x] = ClosureOf(cmd'[x].roots)
      BY <3>1 DEF StoreInv, SessionInv
    <3>3. sessions[x] \subseteq SessionRoots
      BY <3>1 DEF SessionRoots, Running
    <3> QED BY <3>2, <3>3 DEF LiveRoots
  <2>6. \A x \in Procs \ {q} : cmd'[x].at \in {"idle", "running"}
    BY <1>1, <2>2, BaseTypes DEF LockInv
  <2>7. KeepInv'
    BY <2>2, <2>5, <2>6 DEF KeepInv, ClosureOf
  <2>8. \A p \in Paths : InUse(p)' => InUse(p)
    BY <1>1, <2>2, NoNewUse DEF Holding
  <2> QED BY <1>1, <2>4, <2>7, <2>8, SameStore
<1> QED BY <1>2, <1>3

LEMMA PruneStore ==
    ASSUME BaseInv, BaseInv', StoreInv, NEW q \in Procs, RemoveGoneProjects(q) \/ Prune(q)
    PROVE  StoreInv'
<1>1. /\ holder = q /\ cmd[q].at \in {"projects", "prune"} /\ holder' = q
      /\ UNCHANGED <<setting, disk, old, job, sessions>> /\ gens' \subseteq gens
      /\ cmd' = cmd \/ \E at \in {"prune", "mark"} : Step(q, at)
  BY DEF RemoveGoneProjects, Prune, Holds, storeVars, disks
<1>2. /\ cmd'[q].at \in {"prune", "projects", "mark"} /\ cmd'[q].keep = cmd[q].keep
      /\ \A x \in Procs \ {q} : cmd'[x] = cmd[x]
  <2>1. ASSUME NEW at \in {"prune", "mark"}, Step(q, at) PROVE Stepped(q, at)
    BY <2>1, StepMoves, BaseTypes DEF CommandSteps
  <2> QED BY <1>1, <2>1 DEF Stepped
<1>3. SessionInv' /\ SpareInv'
  BY <1>1, <1>2, SessionsKept, QuietSpares DEF StoreInv, Sweeping, Clearing
<1>4. \A x \in Procs \ {q} : cmd'[x].at \in {"idle", "running"}
  BY <1>1, <1>2, BaseTypes DEF LockInv
<1>5. KeepInv'
  BY <1>1, <1>2, <1>4 DEF StoreInv, KeepInv, ClosureOf
<1>6. \A p \in Paths : InUse(p)' => InUse(p)
  BY <1>1, <1>2, NoNewUse DEF Holding
<1> QED BY <1>1, <1>3, <1>5, <1>6, SameStore

(* What is in the list is in no generation and in no session *)
LEMMA MarkStore ==
    ASSUME BaseInv, BaseInv', StoreInv, NEW q \in Procs, Mark(q)
    PROVE  StoreInv'
<1>1. /\ holder = q /\ cmd[q].at = "mark" /\ holder' = q
      /\ UNCHANGED <<setting, disk, old, job, sessions, gens, temps>>
  BY DEF Mark, Holds, storeVars, disks
<1>2. Chosen(q, Unreferenced(Used(cmd[q].keep)))
  BY MarkChooses
<1>3. /\ cmd'[q].at = "sweep" /\ cmd'[q].doomed = Unreferenced(Used(cmd[q].keep))
      /\ \A x \in Procs \ {q} : cmd'[x] = cmd[x]
  BY <1>2 DEF Chosen
<1>4. \A x \in Procs \ {q} : cmd'[x].at \in {"idle", "running"}
  BY <1>1, <1>3, BaseTypes DEF LockInv
<1>5. SessionInv' /\ KeepInv'
  BY <1>1, <1>3, SessionsKept, QuietKeeps DEF StoreInv
<1>6. \A p \in Paths : InUse(p)' => InUse(p)
  BY <1>1, <1>3, NoNewUse DEF Holding
<1>7. \A p \in Paths : InUse(p)' => p \in Used(cmd[q].keep)
  <2> SUFFICES ASSUME NEW p \in Paths, InUse(p)' PROVE p \in Used(cmd[q].keep)
    OBVIOUS
  <2>1. CASE \E g \in gens' : p \in ClosureOf(g[2])
    BY <1>1, <2>1 DEF Used, ClosureOf
  <2>2. ASSUME NEW x \in Procs, cmd'[x].at \in Holding, p \in ClosureOf(cmd'[x].roots) PROVE p \in Used(cmd[q].keep)
    <3>1. x # q /\ cmd[x].at = "running" /\ cmd'[x] = cmd[x]
      BY <1>3, <1>4, <2>2 DEF Holding
    <3>2. ClosureOf(cmd[x].roots) \subseteq cmd[q].keep
      BY <1>1, <3>1 DEF StoreInv, KeepInv
    <3> QED BY <2>2, <3>1, <3>2 DEF Used
  <2>3. (\E g \in gens' : p \in ClosureOf(g[2])) \/ \E x \in Procs : cmd'[x].at \in Holding /\ p \in ClosureOf(cmd'[x].roots)
    BY DEF InUse, ClosureOf
  <2> QED BY <2>1, <2>2, <2>3
<1>8. \A p \in Paths : InUse(p)' => <<"path", p>> \notin cmd'[q].doomed /\ <<"old", p>> \notin cmd'[q].doomed
  BY <1>3, <1>7, LeftDef
<1>9. SpareInv'
  BY <1>3, <1>4, <1>8 DEF SpareInv, Sweeping, Clearing
<1> QED BY <1>1, <1>5, <1>6, <1>9, SameStore

LEMMA ScanStore ==
    ASSUME BaseInv, BaseInv', StoreInv, NEW q \in Procs, Scan(q)
    PROVE  StoreInv'
<1>1. /\ holder = q /\ cmd[q].at = "scan" /\ UNCHANGED <<setting, disk, old, job, gens, sessions>>
  BY DEF Scan, Holds, storeVars, disks
<1>2. CASE End(q)
  BY <1>1, <1>2, EndStore DEF End
<1>3. CASE ~End(q)
  <2>1. holder' = q /\ "repair" \in setting.commands /\ cmd'[q].at = "sweep" /\ \A x \in Procs \ {q} : cmd'[x] = cmd[x]
    BY <1>1, <1>3, ScanChooses, BaseTypes DEF Chosen, CommandOK
  <2>2. SessionInv' /\ KeepInv'
    BY <1>1, <2>1, SessionsKept, QuietKeeps DEF StoreInv
  <2> QED BY <1>1, <2>1, <2>2, SameStore
<1> QED BY <1>2, <1>3

LEMMA SweepStore ==
    ASSUME BaseInv, BaseInv', StoreInv, NEW q \in Procs, Sweep(q)
    PROVE  StoreInv'
<1>1. holder = q /\ cmd[q].at = "sweep" /\ UNCHANGED <<gens, sessions>>
  BY DEF Sweep, Holds
<1>2. CASE UNCHANGED storeVars /\ End(q)
  BY <1>1, <1>2, EndStore DEF End, storeVars, disks
<1>3. CASE UNCHANGED storeVars /\ Step(q, "links") /\ UNCHANGED holder
  <2>1. Stepped(q, "links")
    BY <1>3, StepMoves, BaseTypes DEF CommandSteps
  <2>2. SessionInv' /\ KeepInv' /\ SpareInv' /\ \A p \in Paths : InUse(p)' => InUse(p)
    BY <1>1, <1>3, <2>1, SessionsKept, QuietKeeps, QuietSpares, NoNewUse
       DEF StoreInv, Stepped, Sweeping, Clearing, Holding
  <2> QED BY <1>3, <2>2, SameStore DEF storeVars, disks
<1>4. ASSUME NEW d \in cmd[q].doomed,
             cmd' = [cmd EXCEPT ![q].doomed = @ \ {d}, ![q].path = d[2],
                                ![q].at = IF d[1] = "path" THEN "unmeta" ELSE "sweep"],
             old' = IF d[1] = "old" THEN [old EXCEPT ![d[2]] = "gone"] ELSE old,
             UNCHANGED <<setting, disk, job, holder>>
      PROVE  StoreInv'
  <2>1. Takes(q, d)
    BY <1>4, SweepTakes
  <2>2. PICK k \in {"path", "old", "temp"}, x \in Paths : d = <<k, x>>
    BY <2>1 DEF Takes, Doomed
  <2>3. /\ cmd'[q].at \in {"unmeta", "sweep"} /\ cmd'[q].doomed = cmd[q].doomed \ {d}
        /\ cmd'[q].at = "unmeta" => k = "path"
        /\ cmd'[q].path = x /\ \A y \in Procs \ {q} : cmd'[y] = cmd[y]
    BY <2>1, <2>2 DEF Takes
  <2>4. \A p \in Paths : old'[p] = old[p] \/ (p = x /\ k = "old" /\ old'[p] = "gone")
    BY <1>4, <2>2, BaseTypes DEF DiskTypes
  <2>5. \A p \in Paths : WholeOK(p)'
    BY <1>4, <2>4 DEF StoreInv, WholeOK
  <2>6. \A r \in Paths : job'[r].at = "idle"
    BY <1>1, <1>4, NoJobs DEF JobsIdle
  <2>7. SessionInv' /\ KeepInv' /\ \A p \in Paths : InUse(p)' => InUse(p)
    BY <1>1, <1>4, <2>3, SessionsKept, QuietKeeps, NoNewUse DEF StoreInv, Holding
  <2>8. ASSUME "repair" \notin setting.commands
        PROVE  SpareInv' /\ \A p \in Paths : InUse(p)' => Usable(p)'
    <3>1. SpareInv /\ \A p \in Paths : InUse(p) => Usable(p)
      BY <2>8, HeldUsable
    <3>2. \A p \in Paths : InUse(p) => d # <<"path", p>> /\ d # <<"old", p>>
                                       /\ <<"path", p>> \notin cmd[q].doomed /\ <<"old", p>> \notin cmd[q].doomed
      BY <1>1, <3>1 DEF SpareInv, Sweeping, Clearing
    <3>3. \A p \in Paths : InUse(p)' => /\ <<"path", p>> \notin cmd'[q].doomed /\ <<"old", p>> \notin cmd'[q].doomed
                                        /\ cmd'[q].at \in Clearing => p # cmd'[q].path
      BY <2>2, <2>3, <2>7, <3>2 DEF Clearing
    <3>4. \A y \in Procs \ {q} : cmd'[y].at \in {"idle", "running"}
      BY <1>1, <2>3, BaseTypes DEF LockInv
    <3>5. SpareInv'
      BY <3>3, <3>4 DEF SpareInv, Sweeping, Clearing
    <3>6. \A p \in Paths : InUse(p)' => Usable(p)'
      BY <1>4, <2>2, <2>4, <2>7, <3>1, <3>2 DEF Usable
    <3> QED BY <3>5, <3>6
  <2> QED BY <1>4, <2>5, <2>6, <2>7, <2>8, QuietStore
<1> QED BY <1>2, <1>3, <1>4 DEF Sweep

LEMMA RemoveStore ==
    ASSUME BaseInv, BaseInv', StoreInv, NEW q \in Procs, Remove(q)
    PROVE  StoreInv'
<1> PICK x : x = cmd[q].path
  OBVIOUS
<1>1. PICK then \in {"aside", "erase", "delete", "removed"} :
             /\ RemoveStep(x, cmd[q].at, then)
             /\ Stepped(q, IF then = "removed" THEN "sweep" ELSE then)
             /\ cmd[q].at \in Clearing /\ x \in Paths
  BY RemoveMoves
<1>2. holder = q /\ holder' = q /\ UNCHANGED <<job, gens, sessions>>
  BY DEF Remove
<1>3. /\ cmd'[q].at \in Sweeping /\ cmd'[q].doomed = cmd[q].doomed /\ cmd'[q].path = x
      /\ \A y \in Procs \ {q} : cmd'[y] = cmd[y]
  BY <1>1 DEF Stepped, Sweeping, Clearing
<1>4. /\ setting' = setting /\ old' = old
      /\ \A p \in Paths \ {x} : disk'[p] = disk[p]
      /\ disk'[x] \in {disk[x], "gone"} \/ (disk'[x] = "part" /\ (Complete(x) \/ (setting.windows /\ disk[x] # "gone")))
  BY <1>1, BaseTypes, RemoveStepDisk
<1>5. \A p \in Paths : WholeOK(p)'
  BY <1>1, <1>4 DEF StoreInv, WholeOK, Complete
<1>6. \A r \in Paths : job'[r].at = "idle"
  BY <1>1, <1>2, NoJobs DEF JobsIdle, Clearing
<1>7. SessionInv' /\ KeepInv' /\ \A p \in Paths : InUse(p)' => InUse(p)
  BY <1>2, <1>3, SessionsKept, QuietKeeps, NoNewUse DEF StoreInv, Holding, Sweeping, Clearing
<1>8. ASSUME "repair" \notin setting.commands
      PROVE  SpareInv' /\ \A p \in Paths : InUse(p)' => Usable(p)'
  <2>1. SpareInv /\ \A p \in Paths : InUse(p) => Usable(p)
    BY <1>8, HeldUsable
  <2>2. \A p \in Paths : InUse(p) => /\ <<"path", p>> \notin cmd[q].doomed /\ <<"old", p>> \notin cmd[q].doomed
                                     /\ p # x
    BY <1>1, <2>1 DEF SpareInv, Sweeping
  <2>3. \A y \in Procs \ {q} : cmd'[y].at \in {"idle", "running"}
    BY <1>2, <1>3, BaseTypes DEF LockInv
  <2>4. SpareInv'
    BY <1>3, <1>7, <2>2, <2>3 DEF SpareInv, Sweeping, Clearing
  <2> QED BY <1>4, <1>7, <2>1, <2>2, <2>4 DEF Usable
<1> QED BY <1>4, <1>5, <1>6, <1>7, <1>8, QuietStore

LEMMA KillStore ==
    ASSUME BaseInv, BaseInv', StoreInv, NEW q \in Procs, Kill(q)
    PROVE  StoreInv'
<1>1. cmd' = [cmd EXCEPT ![q] = NoCmd] /\ UNCHANGED <<gens, sessions>>
  BY DEF Kill
<1>2. CASE holder # q \/ cmd[q].at # "jobs"
  BY <1>1, <1>2, EndStore DEF Kill, storeVars, disks
<1>3. CASE holder = q /\ cmd[q].at = "jobs"
  <2>1. Abandon /\ holder' = NoProc
    BY <1>3 DEF Kill
  <2>2. /\ UNCHANGED <<setting, disk, old>> /\ \A r \in Paths : job'[r].at = "idle"
    BY <2>1, AllIdle DEF Abandon
  <2>3. \A p \in Paths : WholeOK(p)' /\ (Usable(p)' <=> Usable(p))
    BY <2>2 DEF StoreInv, WholeOK, Usable
  <2>4. cmd'[q].at = "idle" /\ \A x \in Procs \ {q} : cmd'[x] = cmd[x]
    BY <1>1, EndMoves, BaseTypes
  <2>5. SessionInv' /\ KeepInv' /\ SpareInv' /\ \A p \in Paths : InUse(p)' => InUse(p)
    BY <1>1, <2>1, <2>4, SessionsKept, QuietKeeps, QuietSpares, NoNewUse DEF StoreInv, Holding
  <2> QED BY <2>2, <2>3, <2>5, QuietStore, HeldUsable
<1> QED BY <1>2, <1>3

(* The machine is the same for ever *)
LEMMA SettingKept ==
    ASSUME BaseInv, [Next]_vars
    PROVE  setting' = setting
<1>1. ASSUME NEW r \in Paths, Work(r) PROVE setting' = setting
  BY <1>1, JobStepKept DEF Work, JobKept
<1>2. ASSUME NEW q \in Procs,
             \/ JobsEnd(q) \/ Stage(q) \/ Activate(q) \/ HoldSession(q)
             \/ Roots(q) \/ RemoveGoneProjects(q) \/ Prune(q) \/ Mark(q) \/ Scan(q)
             \/ BeginInstall(q) \/ BeginShell(q) \/ BeginGC(q) \/ BeginRepair(q) \/ EndSession(q)
      PROVE  setting' = setting
  BY <1>2 DEF JobsEnd, Stage, Activate, HoldSession, Roots, RemoveGoneProjects, Prune, Mark, Scan,
              BeginInstall, BeginShell, BeginGC, BeginRepair, EndSession, storeVars, disks
<1>3. ASSUME NEW q \in Procs, Sweep(q) \/ Links(q) \/ ShareUnshared(q) \/ Kill(q) PROVE setting' = setting
  BY <1>3 DEF Sweep, Links, DropLinks, ShareUnshared, ShareOld, Kill, Abandon, storeVars, disks
<1>4. ASSUME NEW q \in Procs, Remove(q) PROVE setting' = setting
  BY <1>4, RemoveMoves, RemoveStepTypes, BaseTypes
<1>5. ASSUME NEW f \in Projects, DeleteProject(f) PROVE setting' = setting
  BY <1>5 DEF DeleteProject, storeVars, disks
<1>6. ASSUME NEW p \in Paths, EditFile(p) PROVE setting' = setting
  BY <1>6 DEF EditFile, Edit
<1>7. CASE UNCHANGED vars
  BY <1>7 DEF vars, storeVars, disks
<1> QED BY <1>1, <1>2, <1>3, <1>4, <1>5, <1>6, <1>7 DEF Next, Progress

LEMMA NextStore ==
    ASSUME BaseInv, StoreInv, NothingTorn, [Next]_vars
    PROVE  StoreInv' /\ NothingTorn'
<1> BaseInv'
  BY NextBase
<1>1. ASSUME NEW q \in Procs, Activate(q) \/ EndSession(q) PROVE StoreInv'
  <2>1. /\ cmd' = [cmd EXCEPT ![q] = NoCmd] /\ UNCHANGED <<setting, disk, old, job, gens>> /\ holder' \in {holder, NoProc}
        /\ \A x \in Procs \ {q} : sessions'[x] = sessions[x]
    BY <1>1, BaseTypes DEF Activate, EndSession, End, storeVars, disks, CollectTypes
  <2> QED BY <2>1, EndStore
<1>2. ASSUME NEW q \in Procs, HoldSession(q) PROVE StoreInv'
  <2>1. /\ holder' = NoProc /\ cmd[q].at = "hold" /\ Step(q, "running")
        /\ sessions' = [sessions EXCEPT ![q] = ClosureOf(cmd[q].roots)]
        /\ UNCHANGED <<setting, disk, old, job, gens>>
    BY <1>2 DEF HoldSession, Holds, storeVars, disks
  <2>2. Stepped(q, "running")
    BY <2>1, StepMoves, BaseTypes DEF CommandSteps
  <2>3. sessions'[q] = ClosureOf(cmd'[q].roots) /\ \A x \in Procs \ {q} : sessions'[x] = sessions[x]
    BY <2>1, <2>2, BaseTypes DEF CollectTypes, Stepped, ClosureOf
  <2>4. SessionInv' /\ KeepInv' /\ SpareInv' /\ \A p \in Paths : InUse(p)' => InUse(p)
    BY <2>1, <2>2, <2>3, SessionsKept, QuietKeeps, QuietSpares, NoNewUse DEF StoreInv, Stepped, Holding
  <2> QED BY <2>1, <2>4, SameStore
<1>3. ASSUME NEW q \in Procs, BeginGC(q) \/ BeginRepair(q) PROVE StoreInv'
  <2>1. /\ holder' = q /\ cmd'[q].at \in {"roots", "scan"} /\ \A x \in Procs \ {q} : cmd'[x] = cmd[x]
    BY <1>3, BeginGCMoves, BeginRepairMoves DEF Begun
  <2>2. UNCHANGED <<setting, disk, old, job, gens, sessions>>
    BY <1>3 DEF BeginGC, BeginRepair, storeVars, disks
  <2>3. SessionInv' /\ KeepInv' /\ SpareInv' /\ \A p \in Paths : InUse(p)' => InUse(p)
    BY <2>1, <2>2, SessionsKept, QuietKeeps, QuietSpares, NoNewUse DEF StoreInv, Holding, Sweeping, Clearing
  <2> QED BY <2>2, <2>3, SameStore
<1>4. ASSUME UNCHANGED <<setting, disk, old, job, cmd, gens, sessions>> PROVE StoreInv'
  <2>1. SessionInv' /\ KeepInv' /\ (\A p \in Paths : InUse(p)' <=> InUse(p))
    BY <1>4 DEF StoreInv, SessionInv, KeepInv, ClosureOf, InUse
  <2>2. SpareInv => SpareInv'
    BY <1>4, <2>1 DEF SpareInv
  <2>3. "repair" \notin setting.commands => SpareInv' /\ \A p \in Paths : InUse(p)' => InUse(p)
    BY <2>1, <2>2, HeldUsable
  <2>4. UNCHANGED <<setting, disk, old, job>>
    BY <1>4
  <2> QED BY <2>1, <2>3, <2>4, SameStore
<1>5. ASSUME NEW q \in Procs, Links(q) PROVE StoreInv'
  <2>1. holder' = q /\ Step(q, "share") /\ UNCHANGED <<setting, disk, old, job, gens, sessions>>
    BY <1>5 DEF Links, Holds, DropLinks
  <2>2. Stepped(q, "share")
    BY <2>1, StepMoves, BaseTypes DEF CommandSteps
  <2>3. SessionInv' /\ KeepInv' /\ SpareInv' /\ \A p \in Paths : InUse(p)' => InUse(p)
    BY <2>1, <2>2, SessionsKept, QuietKeeps, QuietSpares, NoNewUse DEF StoreInv, Stepped, Holding, Sweeping, Clearing
  <2> QED BY <2>1, <2>3, SameStore
<1>6. ASSUME NEW q \in Procs, ShareUnshared(q) PROVE StoreInv'
  <2>1. CASE End(q) /\ UNCHANGED storeVars
    BY <1>6, <2>1, EndStore DEF ShareUnshared, Holds, End, storeVars, disks
  <2>2. CASE \E p \in Unshared : ShareOld(p) /\ UNCHANGED <<cmd, holder, job, builder>>
    BY <1>4, <1>6, <2>2 DEF ShareUnshared, ShareOld
  <2> QED BY <1>6, <2>1, <2>2 DEF ShareUnshared
<1>7. ASSUME NEW f \in Projects, DeleteProject(f) PROVE StoreInv'
  BY <1>4, <1>7 DEF DeleteProject, storeVars, disks
<1>8. ASSUME NEW p \in Paths, EditFile(p) PROVE StoreInv'
  BY <1>4, <1>8 DEF EditFile, Edit, collectVars
<1>9. ASSUME UNCHANGED vars PROVE StoreInv'
  BY <1>4, <1>9 DEF vars, storeVars, disks, collectVars
<1>10. StoreInv'
  BY <1>1, <1>2, <1>3, <1>5, <1>6, <1>7, <1>8, <1>9, WorkStore, BeginInstallStore, JobsEndStore, StageStore,
     RootsStore, PruneStore, MarkStore, ScanStore, SweepStore, RemoveStore, KillStore DEF Next, Progress
<1>11. setting' = setting
  BY SettingKept
<1> QED BY <1>10, <1>11 DEF NothingTorn, NoTree

LEMMA InitStore == Init => StoreInv
<1> SUFFICES ASSUME Init PROVE StoreInv
  OBVIOUS
<1>1. /\ \A p \in Paths : disk[p] = "gone" /\ old[p] = "gone"
      /\ \A r \in Paths : job[r].at = "idle"
      /\ gens = {} /\ \A q \in Procs : cmd[q].at = "idle"
  BY NoCmdType DEF Init, StoreInit, Idle
<1>2. \A p \in Paths : WholeOK(p)
  BY <1>1 DEF WholeOK
<1>3. TreesInv /\ MadeInv /\ SessionInv /\ KeepInv /\ \A r \in Paths : BuildOK(r)
  BY <1>1 DEF TreesInv, MadeInv, SessionInv, KeepInv, BuildOK, InBuild, Inside
<1>4. HeldInv /\ SpareInv
  BY <1>1 DEF HeldInv, InUse, Holding, SpareInv, Sweeping, Clearing
<1> QED BY <1>2, <1>3, <1>4 DEF StoreInv, UseInv

(* In a store where no deletion that stops halfway can be taken for a      *)
(* package, every path that a generation or a running program uses stays   *)
(* there, and no package gets the bytes of an edited file of another: for  *)
(* any packages, processes and profiles, after any kills.                  *)
THEOREM StoreKeeps == Spec /\ NothingTorn => []StoreHolds
<1>1. Init => StoreInv /\ BaseInv
  BY InitStore, InitBase
<1>2. BaseInv /\ FreshInv /\ StoreInv => StoreHolds
  <2> SUFFICES ASSUME BaseInv, FreshInv, StoreInv PROVE StoreHolds
    OBVIOUS
  <2>1. CollectTypeOK
    BY DEF BaseInv
  <2>2. "repair" \notin setting.commands => \A p \in Paths : InUse(p) => Usable(p)
    BY HeldUsable
  <2>3. \A p \in Used({}) : p \in Paths /\ InUse(p)
    BY <2>1, PathsAssumption DEF Used, InUse, ClosureOf, CollectTypeOK, Generations
  <2>4. UsedIsWhole
    BY <2>2, <2>3 DEF UsedIsWhole
  <2>5. \A q \in Procs : cmd[q].at = "running" => \A p \in ClosureOf(cmd[q].roots) : p \in Paths /\ InUse(p)
    <3> SUFFICES ASSUME NEW q \in Procs, cmd[q].at = "running", NEW p \in ClosureOf(cmd[q].roots)
                 PROVE  p \in Paths /\ InUse(p)
      OBVIOUS
    <3>1. cmd[q].roots \subseteq Paths
      BY BaseTypes DEF CommandStates
    <3>2. p \in Paths
      BY <3>1, ClosurePaths
    <3> QED BY <3>2 DEF InUse, Holding
  <2>6. SessionsHeld
    BY <2>2, <2>5 DEF SessionsHeld
  <2>7. FreshIsTrue
    BY DEF FreshIsTrue, FreshInv, Bytes, BaseInv, CollectTypeOK, StoreTypeOK
  <2> QED BY <2>1, <2>4, <2>6, <2>7 DEF StoreHolds
<1> QED BY <1>1, <1>2, BaseInvariant, FreshInvariant, NextStore, PTL DEF Spec

(* What the comment of complete says (internal/store/store.go) holds in    *)
(* such a store: when no command runs, a path with its meta file has all   *)
(* its files, whatever the last command was killed at.                     *)
THEOREM MetaMeansWhole == Spec /\ NothingTorn => []CompleteIsWhole
<1>1. StoreInv => CompleteIsWhole
  BY DEF StoreInv, WholeOK, CompleteIsWhole
<1>2. Init => StoreInv /\ BaseInv
  BY InitStore, InitBase
<1> QED BY <1>1, <1>2, BaseInvariant, NextStore, PTL DEF Spec

============================================================================
