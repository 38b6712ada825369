------------------------------ MODULE Collect ------------------------------
(***************************************************************************)
(* The processes of oku that use the store: the commands that change the   *)
(* machine one at a time, the programs that run from it, and gc, which     *)
(* deletes what nothing uses.                                              *)
(*                                                                         *)
(*   src/internal/busy/busy.go          Lock                               *)
(*   src/internal/cli/busy.go           exclusive, oneAtATime              *)
(*   src/internal/cli/gc.go             runGC                              *)
(*   src/internal/cli/gc_projects.go    removeGoneProjects                 *)
(*   src/internal/cli/roots.go          holdSession, liveRoots             *)
(*   src/internal/cli/du.go             storeHolders                       *)
(*   src/internal/cli/shell.go          openRefs                           *)
(*   src/internal/cli/verify.go         runVerify --repair                 *)
(*   src/internal/profile/profile.go    Prune, Delete                      *)
(*                                                                         *)
(* Change models a change of the machine in full.  Here it is what gc has  *)
(* to respect of it: the generation that is staged and then activated, and *)
(* the record of a change that did not finish.  A generation is its        *)
(* profile and the roots it holds.                                         *)
(***************************************************************************)
EXTENDS Store

CONSTANTS
    Procs,      \* the processes
    NoProc,     \* no process
    Profiles,   \* the profiles
    Projects,   \* the profiles that belong to a project
    System      \* the roots that place an item of the system scope

ASSUME ProcsAssumption ==
    /\ NoProc \notin Procs
    /\ Projects \subseteq Profiles
    /\ System \subseteq Paths
    /\ \A s \in Settings : s.procs \subseteq Procs /\ s.profiles \subseteq Profiles

VARIABLES
    holder,     \* the process that holds the lock of the machine
    cmd,        \* the command each process runs, and where it is
    gens,       \* the generations on disk
    current,    \* the roots of the active generation of each profile
    pending,    \* a change is recorded and did not finish
    staged,     \* the generation that this change made
    sessions,   \* the store paths in the session file of each process
    exposed,    \* the roots that the ledger's items lead into
    gone        \* the projects whose folder is gone

collectVars == <<holder, cmd, gens, current, pending, staged, sessions, exposed, gone>>
vars == <<storeVars, collectVars>>

NoCmd == [name |-> "none", at |-> "idle", profile |-> "", roots |-> {},
          keep |-> {}, doomed |-> {}, path |-> ""]

CommandSteps == {"idle", "jobs", "stage", "activate", "hold", "running",
                 "roots", "projects", "prune", "mark", "scan",
                 "sweep", "unmeta", "aside", "erase", "delete", "links", "share"}

Generations == Profiles \X SUBSET Paths

(* What gc deletes: a store path, its <path>.old, its directories .tmp-* *)
Doomed == {"path", "old", "temp"} \X Paths

CommandStates == [name : CommandNames \cup {"none"}, at : CommandSteps, profile : Profiles \cup {""},
                  roots : SUBSET Paths, keep : SUBSET Paths, doomed : SUBSET Doomed,
                  path : Paths \cup {""}]

(* Every variable holds a value of its kind. *)
CollectTypeOK ==
    /\ StoreTypeOK
    /\ holder \in Procs \cup {NoProc}
    /\ gens \subseteq Generations
    /\ pending \in BOOLEAN
    /\ staged \subseteq Generations
    /\ current \in [Profiles -> SUBSET Paths]
    /\ sessions \in [Procs -> SUBSET Paths]
    /\ exposed \subseteq Paths
    /\ gone \subseteq Projects
    /\ cmd \in [Procs -> CommandStates]

Init ==
    /\ StoreInit
    /\ holder = NoProc
    /\ cmd = [q \in Procs |-> NoCmd]
    /\ gens = {}
    /\ current = [f \in Profiles |-> {}]
    /\ pending = FALSE
    /\ staged = {}
    /\ sessions = [q \in Procs |-> {}]
    /\ exposed = {}
    /\ gone = {}

(***************************************************************************)
(* What is in use.                                                         *)
(***************************************************************************)

ClosureOf(roots) == UNION {Closure[r] : r \in roots}

(* storeHolders: what the generations hold, and what else is in use *)
Used(keep) == keep \cup UNION {ClosureOf(g[2]) : g \in gens}

Running(q) == cmd[q].at # "idle"

(* exposedRoots: the closure of an item comes from a generation that has it *)
ExposedRoots ==
    exposed \cup UNION {Closure[r] : r \in {x \in exposed : \E g \in gens : x \in g[2]}}

(* sessionRoots: the records of the processes that run *)
SessionRoots == UNION {sessions[q] : q \in {x \in Procs : Running(x)}}

(* LiveRoots that leaves the sessions out *)
LiveRootsExposed == ExposedRoots

(* liveRoots *)
LiveRoots == ExposedRoots \cup SessionRoots

(***************************************************************************)
(* The lock, which the OS releases when the process ends.                  *)
(***************************************************************************)

Take(q) ==
    /\ q \in setting.procs
    /\ holder = NoProc
    /\ cmd[q].at = "idle"
    /\ holder' = q

Holds(q, at) == holder = q /\ cmd[q].at = at

Step(q, at) == cmd' = [cmd EXCEPT ![q].at = at]

End(q) ==
    /\ cmd' = [cmd EXCEPT ![q] = NoCmd]
    /\ holder' = NoProc

(***************************************************************************)
(* Commands that install.                                                  *)
(***************************************************************************)

StartJobs(roots, rebuild) ==
    job' = [r \in Paths |->
              IF r \in roots
              THEN [Idle EXCEPT !.at = "next", !.todo = Closure[r],
                                !.rebuild = rebuild /\ Class[r] = "build"]
              ELSE Idle]

(* add, remove, sync, update or rollback.  It first undoes a change that   *)
(* did not finish, which discards the generation that the change staged.   *)
BeginInstall(q) ==
    \E name \in setting.commands \cap {"install", "rebuild"},
       f \in setting.profiles \ gone, roots \in setting.wants :
        /\ Take(q)
        /\ gens' = gens \ staged
        /\ pending' = FALSE
        /\ staged' = {}
        /\ cmd' = [cmd EXCEPT ![q] = [NoCmd EXCEPT !.name = name, !.at = "jobs",
                                                   !.profile = f, !.roots = roots]]
        /\ StartJobs(roots, name = "rebuild")
        /\ UNCHANGED <<disks, builder, current, sessions, exposed, gone>>

(* oku shell and oku run *)
BeginShell(q) ==
    \E roots \in setting.wants \ {{}} :
        /\ "shell" \in setting.commands
        /\ Take(q)
        /\ cmd' = [cmd EXCEPT ![q] = [NoCmd EXCEPT !.name = "shell", !.at = "jobs", !.roots = roots]]
        /\ StartJobs(roots, FALSE)
        /\ UNCHANGED <<disks, builder, gens, current, pending, staged, sessions, exposed, gone>>

Work(r) ==
    /\ JobStep(r)
    /\ UNCHANGED collectVars

(* Every job has ended.  One that failed fails the command. *)
JobsEnd(q) ==
    /\ Holds(q, "jobs")
    /\ \A r \in cmd[q].roots : job[r].at \in {"done", "failed"}
    /\ IF \E r \in cmd[q].roots : At(r, "failed")
       THEN End(q)
       ELSE /\ Step(q, IF cmd[q].name = "shell" THEN "hold" ELSE "stage")
            /\ UNCHANGED holder
    /\ job' = [r \in Paths |-> Idle]
    /\ UNCHANGED <<disks, builder, gens, current, pending, staged, sessions, exposed, gone>>

(* The change is recorded before its generation is on disk *)
Stage(q) ==
    LET g == <<cmd[q].profile, cmd[q].roots>>
    IN  /\ Holds(q, "stage")
        /\ pending' = TRUE
        /\ staged' = {g} \ gens
        /\ gens' = gens \cup {g}
        /\ Step(q, "activate")
        /\ UNCHANGED <<storeVars, holder, current, sessions, exposed, gone>>

(* The switch, and the items of the user's profile: a change of the system *)
(* scope that the user declines leaves them as they are                    *)
Activate(q) ==
    /\ Holds(q, "activate")
    /\ current' = [current EXCEPT ![cmd[q].profile] = cmd[q].roots]
    /\ pending' = FALSE
    /\ staged' = {}
    /\ \/ UNCHANGED exposed
       \/ cmd[q].profile \notin Projects /\ exposed' = cmd[q].roots \cap System
    /\ End(q)
    /\ UNCHANGED <<storeVars, gens, sessions, gone>>

(* holdSession, while the lock is held; the program runs without the lock *)
HoldSession(q) ==
    /\ Holds(q, "hold")
    /\ sessions' = [sessions EXCEPT ![q] = ClosureOf(cmd[q].roots)]
    /\ Step(q, "running")
    /\ holder' = NoProc
    /\ UNCHANGED <<storeVars, gens, current, pending, staged, exposed, gone>>

EndSession(q) ==
    /\ cmd[q].at = "running"
    /\ sessions' = [sessions EXCEPT ![q] = {}]
    /\ cmd' = [cmd EXCEPT ![q] = NoCmd]
    /\ UNCHANGED <<storeVars, holder, gens, current, pending, staged, exposed, gone>>

(***************************************************************************)
(* gc.                                                                     *)
(***************************************************************************)

BeginGC(q) ==
    /\ "gc" \in setting.commands
    /\ Take(q)
    /\ cmd' = [cmd EXCEPT ![q] = [NoCmd EXCEPT !.name = "gc", !.at = "roots"]]
    /\ UNCHANGED <<storeVars, gens, current, pending, staged, sessions, exposed, gone>>

(* gc refuses to run after a change that did not finish.  It looks up the  *)
(* roots before any generation goes, and drops the records of the          *)
(* processes that ended.                                                   *)
Roots(q) ==
    /\ Holds(q, "roots")
    /\ IF pending
       THEN End(q) /\ UNCHANGED sessions
       ELSE /\ cmd' = [cmd EXCEPT ![q].at = "projects", ![q].keep = LiveRoots]
            /\ sessions' = [x \in Procs |-> IF Running(x) THEN sessions[x] ELSE {}]
            /\ UNCHANGED holder
    /\ UNCHANGED <<storeVars, gens, current, pending, staged, exposed, gone>>

(* removeGoneProjects: each takes its profile with it *)
RemoveGoneProjects(q) ==
    /\ Holds(q, "projects")
    /\ gens' = {g \in gens : g[1] \notin gone}
    /\ current' = [f \in Profiles |-> IF f \in gone THEN {} ELSE current[f]]
    /\ Step(q, "prune")
    /\ UNCHANGED <<storeVars, holder, pending, staged, sessions, exposed, gone>>

(* Prune, for any --keep and --older-than: it never deletes the active one *)
Prune(q) ==
    /\ Holds(q, "prune")
    /\ \/ \E g \in gens :
            /\ g[2] # current[g[1]]
            /\ gens' = gens \ {g}
            /\ UNCHANGED cmd
       \/ Step(q, "mark") /\ UNCHANGED gens
    /\ UNCHANGED <<storeVars, holder, current, pending, staged, sessions, exposed, gone>>

(* Unreferenced: <path>.old stays while <path> is in use, and every .tmp-* *)
(* is of a process that was killed                                         *)
Unreferenced(used) ==
    {<<"path", p>> : p \in {x \in Paths \ used : Exists(x)}}
    \cup {<<"old", p>> : p \in {x \in Paths \ used : old[x] # "gone"}}
    \cup {<<"temp", p>> : p \in temps}

(* Mark that passes over what is not a package *)
MarkPackages(q) ==
    /\ Holds(q, "mark")
    /\ cmd' = [cmd EXCEPT ![q].at = "sweep",
                 ![q].doomed = {d \in Unreferenced(Used(cmd[q].keep)) : d[1] = "path"}]
    /\ UNCHANGED <<storeVars, holder, gens, current, pending, staged, sessions, exposed, gone>>

(* The store paths to delete are those in no generation that is left *)
Mark(q) ==
    /\ Holds(q, "mark")
    /\ cmd' = [cmd EXCEPT ![q].at = "sweep", ![q].doomed = Unreferenced(Used(cmd[q].keep))]
    /\ UNCHANGED <<storeVars, holder, gens, current, pending, staged, sessions, exposed, gone>>

(* Remove of each.  What is not a package of its own goes in one step. *)
Sweep(q) ==
    /\ Holds(q, "sweep")
    /\ \/ /\ cmd[q].doomed = {}
          /\ IF cmd[q].name = "gc"
             THEN Step(q, "links") /\ UNCHANGED holder
             ELSE End(q)
          /\ UNCHANGED storeVars
       \/ \E d \in cmd[q].doomed :
            /\ cmd' = [cmd EXCEPT ![q].doomed = @ \ {d}, ![q].path = d[2],
                                  ![q].at = IF d[1] = "path" THEN "unmeta" ELSE "sweep"]
            /\ old' = IF d[1] = "old" THEN [old EXCEPT ![d[2]] = "gone"] ELSE old
            /\ temps' = IF d[1] = "temp" THEN temps \ {d[2]} ELSE temps
            /\ UNCHANGED <<setting, disk, frozen, entry, linked, edited, touched, records,
                           job, builder, holder>>
    /\ UNCHANGED <<gens, current, pending, staged, sessions, exposed, gone>>

Remove(q) ==
    /\ holder = q
    /\ \E then \in {"aside", "erase", "delete", "removed"} :
        /\ RemoveStep(cmd[q].path, cmd[q].at, then)
        /\ Step(q, IF then = "removed" THEN "sweep" ELSE then)
    /\ UNCHANGED <<job, builder, holder, gens, current, pending, staged, sessions, exposed, gone>>

(* DropLinks, and Share of each path that has no record *)
Links(q) ==
    /\ Holds(q, "links")
    /\ DropLinks
    /\ Step(q, "share")
    /\ UNCHANGED <<job, builder, holder, gens, current, pending, staged, sessions, exposed, gone>>

ShareUnshared(q) ==
    /\ Holds(q, "share")
    /\ \/ \E p \in Unshared : ShareOld(p) /\ UNCHANGED <<cmd, holder, job, builder>>
       \/ Unshared = {} /\ End(q) /\ UNCHANGED storeVars
    /\ UNCHANGED <<gens, current, pending, staged, sessions, exposed, gone>>

(***************************************************************************)
(* oku verify --repair: the packages of the profile with a file that is    *)
(* not as oku recorded it go, and the next sync installs them again.       *)
(***************************************************************************)

Changed(p) == disk[p] = "torn" \/ (p \in Big /\ Bytes(p) # "true")

BeginRepair(q) ==
    \E f \in setting.profiles :
        /\ "repair" \in setting.commands
        /\ Take(q)
        /\ cmd' = [cmd EXCEPT ![q] = [NoCmd EXCEPT !.name = "repair", !.at = "scan", !.profile = f]]
        /\ UNCHANGED <<storeVars, gens, current, pending, staged, sessions, exposed, gone>>

(* Only packages are checked, and one without its meta file stops it *)
Scan(q) ==
    LET packages == {p \in ClosureOf(current[cmd[q].profile]) : Class[p] # "tree"}
    IN  /\ Holds(q, "scan")
        /\ IF \E p \in packages : ~Complete(p)
           THEN End(q)
           ELSE /\ cmd' = [cmd EXCEPT ![q].at = "sweep",
                             ![q].doomed = {<<"path", p>> : p \in {x \in packages : Changed(x)}}]
                /\ UNCHANGED holder
        /\ UNCHANGED <<storeVars, gens, current, pending, staged, sessions, exposed, gone>>

(***************************************************************************)
(* What happens around oku.                                                *)
(***************************************************************************)

(* The process is killed at any moment *)
Kill(q) ==
    /\ Running(q)
    /\ cmd' = [cmd EXCEPT ![q] = NoCmd]
    /\ IF holder # q
       THEN UNCHANGED <<storeVars, holder>>
       ELSE /\ holder' = NoProc
            /\ IF cmd[q].at = "jobs"
               THEN Abandon
               ELSE /\ temps' = IF cmd[q].at = "erase" THEN temps \cup {cmd[q].path} ELSE temps
                    /\ UNCHANGED <<setting, disk, old, frozen, entry, linked, edited, touched,
                                   records, job, builder>>
    /\ UNCHANGED <<gens, current, pending, staged, sessions, exposed, gone>>

DeleteProject(f) ==
    /\ f \in (setting.profiles \cap Projects) \ gone
    /\ gone' = gone \cup {f}
    /\ UNCHANGED <<storeVars, holder, cmd, gens, current, pending, staged, sessions, exposed>>

EditFile(p) ==
    /\ Edit(p)
    /\ UNCHANGED collectVars

(* What a command that holds the lock does next *)
Progress ==
    \/ \E r \in Paths : Work(r)
    \/ \E q \in Procs :
        \/ JobsEnd(q) \/ Stage(q) \/ Activate(q) \/ HoldSession(q)
        \/ Roots(q) \/ RemoveGoneProjects(q) \/ Prune(q) \/ Mark(q) \/ Sweep(q) \/ Remove(q)
        \/ Links(q) \/ ShareUnshared(q) \/ Scan(q)

Next ==
    \/ Progress
    \/ \E q \in Procs :
        \/ BeginInstall(q) \/ BeginShell(q) \/ BeginGC(q) \/ BeginRepair(q)
        \/ EndSession(q) \/ Kill(q)
    \/ \E f \in Projects : DeleteProject(f)
    \/ \E p \in Paths : EditFile(p)

Spec == Init /\ [][Next]_vars

(***************************************************************************)
(* Properties.                                                             *)
(***************************************************************************)

(* What is there to run: a rebuild that is under way, or was interrupted,  *)
(* has the old build aside                                                 *)
Usable(p) == disk[p] = "whole" \/ (Class[p] = "build" /\ old[p] = "whole")

(* Every store path that a generation holds, with its deps, is there: no   *)
(* gc, crash, failed build or parallel install takes it away.  Only        *)
(* verify --repair removes a package that is in use.                       *)
UsedIsWhole ==
    "repair" \notin setting.commands =>
        \A p \in Used({}) : Usable(p)

(* The store paths of a program that oku shell or oku run started stay for *)
(* as long as it runs, although it holds no lock.                          *)
SessionsHeld ==
    "repair" \notin setting.commands =>
        \A q \in Procs : cmd[q].at = "running" => \A p \in ClosureOf(cmd[q].roots) : Usable(p)

(* A package holds the bytes it was made with until someone edits a file   *)
(* of it: sharing never gives it the bytes of an edited file of another.   *)
FreshIsTrue ==
    \A p \in Big : disk[p] = "whole" /\ p \notin touched => Bytes(p) = "true"

(* The store keeps what is used and gives no package the bytes of another: *)
(* UsedIsWhole, SessionsHeld and FreshIsTrue, with every variable of its   *)
(* kind.                                                                   *)
StoreHolds == CollectTypeOK /\ UsedIsWhole /\ SessionsHeld /\ FreshIsTrue

(* When gc has swept the store, all that is left is in use: no package, no *)
(* <path>.old and no directory of a killed process stays behind.           *)
GcCollects ==
    \A q \in Procs :
        cmd[q].name = "gc" /\ cmd[q].at \in {"links", "share"} =>
            Unreferenced(Used(cmd[q].keep)) = {}

(* A command that holds the lock can always go on: no job waits for a      *)
(* build that never gives buildMu back, and none for a job that failed.    *)
CommandsGoOn == holder # NoProc => ENABLED Progress

(* What the comment of complete says: a path with its meta file holds a    *)
(* whole package, since oku deletes that file first.  So it does for the   *)
(* next command, whatever the last one was killed at.                      *)
CompleteIsWhole == holder = NoProc => \A p \in Paths : disk[p] # "torn"

(* What commands.md says of gc: a service that a declined --system change  *)
(* left in place keeps its package and its deps.                           *)
ExposedKept == \A r \in exposed : \A p \in Closure[r] : Usable(p)

(* What paths.md says of a crashed build: oku deletes it and builds again. *)
(* So an install fails only when a download or a step of it fails.         *)
InstallWorks == setting.failing = {} => \A r \in Paths : job[r].at # "failed"

============================================================================
