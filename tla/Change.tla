------------------------------- MODULE Change -------------------------------
(***************************************************************************)
(* One change of the machine: add, remove, sync, update, sync <list-ref>   *)
(* and rollback, from the staged generation to the end of the apply, with  *)
(* its revert in the same process and its recovery by a later one.         *)
(*                                                                         *)
(*   src/internal/cli/change.go        apply, plan, revert, recoverPending *)
(*   src/internal/profile/profile.go   stage, Activate, Discard, Prune     *)
(*   src/internal/cli/generations.go   runRollback                         *)
(*   src/internal/cli/reconcile.go, add.go, remove.go, sync.go, adopt.go   *)
(*                                                                         *)
(* The lock of internal/busy lets one process at a time change the         *)
(* machine, so one process is enough here.  It dies anywhere, any step of  *)
(* it may fail, and meanwhile the user edits the lists and the targets.    *)
(*                                                                         *)
(* What a generation holds and what its oku.lock pins is one member of     *)
(* Contents.  Which one a list resolves to is decided elsewhere, so a      *)
(* command may reach any.                                                  *)
(***************************************************************************)
EXTENDS Expose, Integers

CONSTANTS
    Contents,   \* what a generation may hold
    MaxGen,     \* bound: the highest number of a generation
    Texts,      \* the texts of oku.toml
    NoFile,     \* a list or a lock that does not exist
    NoGen,      \* a generation that does not exist
    NoPending,  \* there is no pending.toml
    System,     \* the targets in system scope
    Commands,   \* the commands that this instance runs
    Failing,    \* the steps that may fail
    MaxFaults,  \* bound: failures and crashes in a behaviour
    MaxEdits    \* bound: edits of the lists and the targets by the user

ASSUME MaxGenAssumption == MaxGen \in Nat

ASSUME BoundAssumption == MaxFaults \in Nat /\ MaxEdits \in Nat

ASSUME ContentsAssumption == Contents \subseteq Wants

(* Only apps and fonts, and services, can be in system scope *)
ASSUME SystemAssumption == System \subseteq {t \in Targets : Kind[t] = "app"}

ASSUME NoneAssumption ==
    /\ NoFile \notin Texts \cup Contents
    /\ NoGen \notin Contents
    /\ NoPending \notin Contents \cup {Empty, NoGen}

VARIABLES
    gens,       \* what each generation of the profile holds
    current,    \* the active one, 0 for none
    list,       \* oku.toml
    lock,       \* oku.lock
    pend,       \* pending.toml
    step,       \* where the running command is
    chg,        \* its change
    p,          \* its copy of pending.toml
    faults,     \* failures and crashes so far
    edits       \* edits by the user so far

diskVars == <<gens, current, list, lock, pend>>

changeVars == <<gens, current, list, lock, pend, step, chg, p, faults, edits>>

vars == <<exposeVars, changeVars>>

-----------------------------------------------------------------------------
Numbers == 1..MaxGen

ListTexts == Texts \cup {NoFile}

LockTexts == Contents \cup {NoFile}

SavedLists == [list : ListTexts, lock : LockTexts]

NoLists == [list |-> NoFile, lock |-> NoFile]

(* pending.toml.  Project is left out: this is the global profile. *)
Pending ==
    [from : 0..MaxGen, to : 0..MaxGen, staged : BOOLEAN, elevated : BOOLEAN,
     before : SavedLists, started : SavedLists,
     committing : BOOLEAN, done : BOOLEAN]

ASSUME PendingAssumption == NoPending \notin Pending

(* change, with the adoption that wrote the lists before it.  writes says  *)
(* that the commit edits oku.toml as well as oku.lock.                     *)
ChangeRec ==
    [to : 0..MaxGen, staged : BOOLEAN, writes : BOOLEAN, lock : LockTexts,
     adopted : BOOLEAN, before : SavedLists]

NoChange == [to |-> 0, staged |-> FALSE, writes |-> FALSE, lock |-> NoFile,
             adopted |-> FALSE, before |-> NoLists]

Existing == {g \in Numbers : gens[g] # NoGen}

(* nextGeneration: one more than the highest number that exists *)
IsNext(n) ==
    /\ \A g \in Existing : g < n
    /\ n = 1 \/ n - 1 \in Existing

ContentOf(g) == IF g = 0 THEN Empty ELSE gens[g]

(* keepSystem: without administrator rights, system scope stays as the     *)
(* ledger has it.                                                          *)
KeepSystem(w) == [t \in Targets |-> IF t \in System THEN ledger[t].source ELSE w[t]]

(* wantedItems of generation g, and what of it a change may apply *)
Wanted(g, elevated) ==
    IF elevated THEN ContentOf(g) ELSE KeepSystem(ContentOf(g))

(* pendingSystem *)
PendingSystem(g) == \E t \in System : ledger[t].source # ContentOf(g)[t]

(* The process returns to the shell *)
Exit ==
    /\ step' = "idle"
    /\ chg' = NoChange
    /\ p' = NoPending

Goto(s) == step' = s /\ UNCHANGED <<chg, p>>

(* A mutant of Return: sync <list-ref> leaves the lists it adopted *)
ReturnAdopted == Exit

(* A command ends: "oku sync <list-ref>" that did not commit takes its     *)
(* lists away again before it returns.                                     *)
Return == IF chg.adopted THEN Goto("unadoptList") ELSE Exit

-----------------------------------------------------------------------------
(* The commands, up to the change they ask apply for.                      *)

Ready == step = "idle" /\ pend = NoPending

(* adopt writes oku.toml and then oku.lock.  It needs a machine without a  *)
(* global oku.toml.                                                        *)
AdoptList(l) ==
    /\ "adopt" \in Commands
    /\ Ready
    /\ list = NoFile
    /\ list' = l
    /\ step' = "adoptLock"
    /\ chg' = [NoChange EXCEPT !.before = [list |-> list, lock |-> lock]]
    /\ UNCHANGED <<gens, current, lock, pend, p, faults, edits, exposeVars>>

AdoptLock(c) ==
    /\ step = "adoptLock"
    /\ lock' = c
    /\ step' = "stage"
    /\ chg' = [chg EXCEPT !.adopted = TRUE]
    /\ UNCHANGED <<gens, current, list, pend, p, faults, edits, exposeVars>>

(* A command that resolved its packages to content c stages the next       *)
(* generation: stage, after the installs.                                  *)
StageGeneration(c, writes) ==
    /\ \E n \in Numbers :
        /\ IsNext(n)
        /\ gens' = [gens EXCEPT ![n] = c]
        /\ chg' = [chg EXCEPT !.to = n, !.staged = TRUE, !.writes = writes, !.lock = c]
    /\ step' = "plan"
    /\ UNCHANGED <<current, list, lock, pend, p, faults, edits, exposeVars>>

(* add and remove stage a generation, and their commit edits oku.toml *)
AddOrRemove(c) ==
    /\ "add" \in Commands
    /\ Ready
    /\ StageGeneration(c, TRUE)

(* add of a package that has nothing for this platform, and remove of one  *)
(* that is not installed, write the lists and keep the generation.         *)
PinOnly(c) ==
    /\ "pin" \in Commands
    /\ Ready
    /\ chg' = [chg EXCEPT !.to = current, !.staged = FALSE, !.writes = TRUE, !.lock = c]
    /\ step' = "plan"
    /\ UNCHANGED <<diskVars, p, faults, edits, exposeVars>>

(* sync and update: Replace stages nothing when the active generation      *)
(* holds the same with the same lock.  Their commit writes oku.toml when a *)
(* package was narrowed to some platforms.                                 *)
SyncOrUpdate(c, narrows) ==
    /\ \/ Ready /\ "sync" \in Commands
       \/ step = "stage"
    /\ IF current # 0 /\ ContentOf(current) = c
       THEN /\ chg' = [chg EXCEPT !.to = current, !.staged = FALSE,
                                 !.writes = narrows, !.lock = c]
            /\ step' = "plan"
            /\ UNCHANGED <<diskVars, p, faults, edits, exposeVars>>
       ELSE StageGeneration(c, narrows)

(* A sync that fails before its change, in an install for example *)
InstallFails ==
    /\ step = "stage"
    /\ Return
    /\ UNCHANGED <<diskVars, faults, edits, exposeVars>>

(* rollback [generation]: without a number it is the generation that the   *)
(* active one replaced or, when that is gone, the one numbered before.     *)
Rollback(g) ==
    /\ "rollback" \in Commands
    /\ Ready
    /\ current \in Existing
    /\ g \in Existing \ {current}
    /\ chg' = [NoChange EXCEPT !.to = g, !.lock = gens[g]]
    /\ step' = "plan"
    /\ UNCHANGED <<diskVars, p, faults, edits, exposeVars>>

(* A mutant of PruneGeneration: gc runs while a change is pending *)
PruneGenerationPending(g) ==
    /\ "gc" \in Commands
    /\ step = "idle"
    /\ g \in Existing \ {current}
    /\ gens' = [gens EXCEPT ![g] = NoGen]
    /\ UNCHANGED <<current, list, lock, pend, step, chg, p, faults, edits, exposeVars>>

(* gc deletes a generation that is not active, one at a time.  It refuses  *)
(* to run while a change is pending.                                       *)
PruneGeneration(g) ==
    /\ "gc" \in Commands
    /\ Ready
    /\ g \in Existing \ {current}
    /\ gens' = [gens EXCEPT ![g] = NoGen]
    /\ UNCHANGED <<current, list, lock, pend, step, chg, p, faults, edits, exposeVars>>

-----------------------------------------------------------------------------
(* apply.                                                                  *)

(* A mutant of Plan: a revert goes to the generation numbered before *)
PlanFromBefore(agree) ==
    LET found == [list |-> list, lock |-> lock]
    IN  /\ step = "plan"
        /\ p' = [from |-> current - 1, to |-> chg.to, staged |-> chg.staged,
                 elevated |-> agree, before |-> found, started |-> found,
                 committing |-> FALSE, done |-> FALSE]
        /\ pend' = p'
        /\ step' = "activate"
        /\ UNCHANGED <<gens, current, list, lock, chg, faults, edits, exposeVars>>

(* plan: it checks the change and writes pending.toml.  agree says whether *)
(* the user asked for system scope and agreed to the list of it.           *)
Plan(agree) ==
    LET elevated == agree /\ PendingSystem(chg.to)
        found == [list |-> list, lock |-> lock]
    IN  /\ step = "plan"
        /\ Edited(ledger) = {}
        /\ Check(ledger, Wanted(chg.to, elevated))
        /\ p' = [from |-> current, to |-> chg.to, staged |-> chg.staged,
                 elevated |-> elevated,
                 before |-> IF chg.adopted THEN chg.before ELSE found,
                 started |-> found, committing |-> FALSE, done |-> FALSE]
        /\ pend' = p'
        /\ step' = "activate"
        /\ UNCHANGED <<gens, current, list, lock, chg, faults, edits, exposeVars>>

(* The plan refuses, or was a dry run.  apply discards the generation. *)
PlanStops ==
    /\ step = "plan"
    /\ Goto("discard")
    /\ UNCHANGED <<diskVars, faults, edits, exposeVars>>

Discard(g) == gens' = IF g \in Numbers THEN [gens EXCEPT ![g] = NoGen] ELSE gens

DiscardStaged ==
    /\ step = "discard"
    /\ IF chg.staged THEN Discard(chg.to) ELSE UNCHANGED gens
    /\ Return
    /\ UNCHANGED <<current, list, lock, pend, faults, edits, exposeVars>>

(* Activate points "current" at the new generation *)
Activate ==
    /\ step = "activate"
    /\ current' = chg.to
    /\ Goto("sync")
    /\ UNCHANGED <<gens, list, lock, pend, faults, edits, exposeVars>>

(* placeExposed *)
SyncBegins ==
    /\ step = "sync"
    /\ Begin(Wanted(chg.to, p.elevated))
    /\ UNCHANGED changeVars

SyncEnds ==
    /\ step = "sync"
    /\ End
    /\ Goto("committing")
    /\ UNCHANGED <<diskVars, faults, edits>>

(* pending.toml says that oku writes the lists from now on *)
StartCommit ==
    /\ step = "committing"
    /\ p' = [p EXCEPT !.committing = TRUE]
    /\ pend' = p'
    /\ step' = "commitList"
    /\ UNCHANGED <<gens, current, list, lock, chg, faults, edits, exposeVars>>

CommitList ==
    /\ step = "commitList"
    /\ IF chg.writes THEN list' \in Texts ELSE UNCHANGED list
    /\ Goto("commitLock")
    /\ UNCHANGED <<gens, current, lock, pend, faults, edits, exposeVars>>

(* The commit is over once oku.lock is written, and so is the adoption *)
CommitLock ==
    /\ step = "commitLock"
    /\ lock' = chg.lock
    /\ step' = "finish"
    /\ chg' = [chg EXCEPT !.adopted = FALSE]
    /\ UNCHANGED <<gens, current, list, pend, p, faults, edits, exposeVars>>

(* The change is over when pending.toml is deleted *)
Finish ==
    /\ step = "finish"
    /\ pend' = NoPending
    /\ Exit
    /\ UNCHANGED <<gens, current, list, lock, faults, edits, exposeVars>>

-----------------------------------------------------------------------------
(* revert, by the process whose change failed or by the next command.      *)

(* A mutant of Restored: the revert does not look at what the list holds *)
RestoredAlways(now, before, started) == before

(* restoreLists for one file: it keeps a list that holds edits made since  *)
(* the change found it, unless the change had begun to write it.           *)
Restored(now, before, started) ==
    IF ~p.committing /\ now # started THEN now ELSE before

(* Mutants of UndoList and UndoLock: the revert leaves one of the files *)
UndoListSkipped ==
    /\ step = "undoList"
    /\ Goto("undoLock")
    /\ UNCHANGED <<diskVars, faults, edits, exposeVars>>

UndoList ==
    /\ step = "undoList"
    /\ list' = Restored(list, p.before.list, p.started.list)
    /\ Goto("undoLock")
    /\ UNCHANGED <<gens, current, lock, pend, faults, edits, exposeVars>>

UndoLock ==
    /\ step = "undoLock"
    /\ lock' = Restored(lock, p.before.lock, p.started.lock)
    /\ Goto("undoActivate")
    /\ UNCHANGED <<gens, current, list, pend, faults, edits, exposeVars>>

(* A mutant of UndoActivate: the revert leaves what the change exposed *)
UndoActivateOnly ==
    /\ step = "undoActivate"
    /\ current' = p.from
    /\ Goto("undoDiscard")
    /\ UNCHANGED <<gens, list, lock, pend, faults, edits, exposeVars>>

UndoActivate ==
    /\ step = "undoActivate"
    /\ current' = p.from
    /\ Goto("undoSync")
    /\ UNCHANGED <<gens, list, lock, pend, faults, edits, exposeVars>>

(* A mutant of UndoSyncBegins: the revert goes into system scope without   *)
(* being asked to.                                                         *)
UndoSyncBeginsFully ==
    /\ step = "undoSync"
    /\ Begin(ContentOf(p.from))
    /\ UNCHANGED changeVars

UndoSyncBegins ==
    /\ step = "undoSync"
    /\ Begin(Wanted(p.from, p.elevated))
    /\ UNCHANGED changeVars

UndoSyncEnds ==
    /\ step = "undoSync"
    /\ End
    /\ Goto("undoDiscard")
    /\ UNCHANGED <<diskVars, faults, edits>>

UndoDiscard ==
    /\ step = "undoDiscard"
    /\ IF p.staged THEN Discard(p.to) ELSE UNCHANGED gens
    /\ Goto("undoFinish")
    /\ UNCHANGED <<current, list, lock, pend, faults, edits, exposeVars>>

(* A mutant of UndoFinish: pending.toml stays after a revert *)
UndoFinishKept ==
    /\ step = "undoFinish"
    /\ Return
    /\ UNCHANGED <<diskVars, faults, edits, exposeVars>>

UndoFinish ==
    /\ step = "undoFinish"
    /\ pend' = NoPending
    /\ Return
    /\ UNCHANGED <<gens, current, list, lock, faults, edits, exposeVars>>

(* recoverPending, the first thing every command that changes the machine  *)
(* does.                                                                   *)
Recover ==
    /\ step = "idle"
    /\ pend # NoPending
    /\ IF pend.done
       THEN pend' = NoPending /\ UNCHANGED <<step, chg, p>>
       ELSE p' = pend /\ step' = "undoList" /\ UNCHANGED <<pend, chg>>
    /\ UNCHANGED <<gens, current, list, lock, faults, edits, exposeVars>>

(* restoreLists of a sync <list-ref> that failed or was a dry run *)
UnadoptList ==
    /\ step = "unadoptList"
    /\ list' = chg.before.list
    /\ Goto("unadoptLock")
    /\ UNCHANGED <<gens, current, lock, pend, faults, edits, exposeVars>>

UnadoptLock ==
    /\ step = "unadoptLock"
    /\ lock' = chg.before.lock
    /\ Exit
    /\ UNCHANGED <<gens, current, list, pend, faults, edits, exposeVars>>

-----------------------------------------------------------------------------
(* What goes wrong.                                                        *)

Fault == faults < MaxFaults /\ faults' = faults + 1

(* Where a command goes when the step it is at fails and leaves nothing    *)
(* done.  A failed revert returns with pending.toml in place.              *)
OnFailure ==
    [s \in {"discard", "activate", "commitList", "commitLock",
            "undoList", "undoLock", "undoActivate", "undoDiscard", "undoFinish"} |->
        IF s \in {"activate", "commitList", "commitLock"} THEN "undoList" ELSE "return"]

StepFails ==
    /\ step \in DOMAIN OnFailure \cap Failing
    /\ Fault
    /\ IF OnFailure[step] = "return" THEN Return ELSE Goto(OnFailure[step])
    /\ UNCHANGED <<diskVars, edits, exposeVars>>

(* A failed write of the lists by adopt or by the restore that follows it  *)
(* ends the command.                                                       *)
AdoptFails ==
    /\ step \in {"adoptLock", "unadoptList", "unadoptLock"} \cap Failing
    /\ Fault
    /\ Exit
    /\ UNCHANGED <<diskVars, edits, exposeVars>>

(* writePending fails after apply set Committing: the revert that follows  *)
(* has it set, and pending.toml does not.                                  *)
StartCommitFails ==
    /\ step \in {"committing"} \cap Failing
    /\ Fault
    /\ p' = [p EXCEPT !.committing = TRUE]
    /\ step' = "undoList"
    /\ UNCHANGED <<diskVars, chg, edits, exposeVars>>

(* pending.toml cannot be deleted: apply marks it done, which may fail too *)
FinishFails ==
    /\ step \in {"finish"} \cap Failing
    /\ Fault
    /\ pend' \in {pend, [p EXCEPT !.done = TRUE]}
    /\ Exit
    /\ UNCHANGED <<gens, current, list, lock, edits, exposeVars>>

(* Sync returns an error: apply reverts, and a revert returns *)
SyncFailed ==
    /\ IF step = "sync" THEN Goto("undoList") ELSE Return
    /\ UNCHANGED <<diskVars, edits>>

SyncRefused ==
    /\ \/ step = "sync" /\ Refused(Wanted(chg.to, p.elevated))
       \/ step = "undoSync" /\ Refused(Wanted(p.from, p.elevated))
    /\ SyncFailed
    /\ UNCHANGED faults

SyncBlocked ==
    /\ step \in {"sync", "undoSync"}
    /\ Blocked
    /\ SyncFailed
    /\ UNCHANGED faults

SyncAborts ==
    /\ step \in {"sync", "undoSync"} \cap Failing
    /\ Abort
    /\ SyncFailed
    /\ Fault

(* oku is killed *)
Crash ==
    /\ step # "idle"
    /\ "crash" \in Failing
    /\ Fault
    /\ Exit
    /\ IF sync = "off" THEN UNCHANGED exposeVars ELSE Abort
    /\ UNCHANGED <<diskVars, edits>>

(* The user edits the lists at any time, and a target while no Sync runs *)
EditList(l) ==
    /\ edits < MaxEdits
    /\ edits' = edits + 1
    /\ l # list
    /\ list' = l
    /\ UNCHANGED <<gens, current, lock, pend, step, chg, p, faults, exposeVars>>

EditLock(c) ==
    /\ edits < MaxEdits
    /\ edits' = edits + 1
    /\ c # lock
    /\ lock' = c
    /\ UNCHANGED <<gens, current, list, pend, step, chg, p, faults, exposeVars>>

EditTarget(t, v) ==
    /\ edits < MaxEdits
    /\ edits' = edits + 1
    /\ Touch(t, v)
    /\ UNCHANGED <<diskVars, step, chg, p, faults>>

-----------------------------------------------------------------------------
ChangeInit ==
    /\ Init
    /\ gens = [g \in Numbers |-> NoGen]
    /\ current = 0
    /\ list \in ListTexts
    /\ lock = NoFile
    /\ pend = NoPending
    /\ step = "idle"
    /\ chg = NoChange
    /\ p = NoPending
    /\ faults = 0
    /\ edits = 0

Command ==
    \/ \E l \in Texts : AdoptList(l)
    \/ \E c \in Contents : AdoptLock(c) \/ AddOrRemove(c) \/ PinOnly(c)
    \/ \E c \in Contents, narrows \in BOOLEAN : SyncOrUpdate(c, narrows)
    \/ InstallFails
    \/ \E g \in Numbers : Rollback(g) \/ PruneGeneration(g)

Apply ==
    \/ \E agree \in BOOLEAN : Plan(agree)
    \/ DiscardStaged \/ Activate
    \/ SyncBegins \/ SyncEnds
    \/ StartCommit \/ CommitList \/ CommitLock \/ Finish

Revert ==
    \/ UndoList \/ UndoLock \/ UndoActivate
    \/ UndoSyncBegins \/ UndoSyncEnds
    \/ UndoDiscard \/ UndoFinish
    \/ UnadoptList \/ UnadoptLock

Failure ==
    \/ StepFails \/ AdoptFails \/ StartCommitFails \/ FinishFails
    \/ SyncAborts \/ Crash

Setback == PlanStops \/ SyncRefused \/ SyncBlocked

SyncItem == SyncStep /\ UNCHANGED changeVars

User ==
    \/ \E l \in ListTexts : EditList(l)
    \/ \E c \in LockTexts : EditLock(c)
    \/ \E t \in Targets, v \in UserValues \cup {Nothing} : EditTarget(t, v)

ChangeNext ==
    Command \/ Apply \/ SyncItem \/ Revert \/ Recover \/ Setback \/ Failure \/ User

ChangeSpec == ChangeInit /\ [][ChangeNext]_vars

(* A command that runs goes on until it ends or dies, and the user runs    *)
(* another one some day, which recovers first.                             *)
Progress == Apply \/ SyncItem \/ Revert \/ Recover \/ Setback

FairChangeSpec == ChangeSpec /\ WF_vars(Progress)

-----------------------------------------------------------------------------
ChangeTypeOK ==
    /\ TypeOK
    /\ gens \in [Numbers -> Contents \cup {NoGen}]
    /\ current \in 0..MaxGen
    /\ list \in ListTexts
    /\ lock \in LockTexts
    /\ pend \in Pending \cup {NoPending}
    /\ step \in {"idle", "adoptLock", "stage", "plan", "discard", "activate",
                 "sync", "committing", "commitList", "commitLock", "finish",
                 "undoList", "undoLock", "undoActivate", "undoSync",
                 "undoDiscard", "undoFinish", "unadoptList", "unadoptLock"}
    /\ chg \in ChangeRec
    /\ p \in Pending \cup {NoPending}
    /\ faults \in 0..MaxFaults
    /\ edits \in 0..MaxEdits

(* A change has begun and neither finished nor been undone *)
InFlight == pend # NoPending /\ ~pend.done

Quiet == step = "idle" /\ pend = NoPending

(* "current" never points at a generation that is gone, nor does the       *)
(* generation that a revert has to activate again ever go away, whichever  *)
(* of Discard, Prune, a second revert and a crash come in between.         *)
GenerationsKept ==
    /\ current \in Existing \cup {0}
    /\ InFlight => pend.from \in Existing \cup {0}

(* While no change is under way and the user edited nothing, oku.lock pins *)
(* what the active generation holds: no crash or failed step leaves the    *)
(* lock of one generation beside another.  Two commands write a lock of    *)
(* their own: one that pins a package without installing it, and a         *)
(* sync <list-ref> that is killed before its change.                       *)
LockMatches ==
    Quiet /\ edits = 0 /\ current # 0 /\ Commands \cap {"pin", "adopt"} = {}
        => lock = ContentOf(current)

(* While no change is under way, what the ledger holds in user scope is    *)
(* what the active generation wants, for apps and settings, whatever       *)
(* failed, died and was reverted before.                                   *)
LedgerMatches ==
    Quiet => \A t \in Targets \ System :
                Kind[t] \in {"app", "setting"}
                    => Holds(ledger, t, ContentOf(current)[t])

(* While no change is under way and the user touched nothing, each link of *)
(* the active generation is in its place and no other link of oku's is.    *)
LinksMatch ==
    Quiet /\ edits = 0 =>
        \A t \in Targets \ System :
            Kind[t] = "link" =>
                machine[t] = IF ContentOf(current)[t] # Nothing
                             THEN ContentOf(current)[t] ELSE own[t]

(* The lock, the ledger and the machine agree with the active generation:  *)
(* LockMatches, LedgerMatches and LinksMatch.                              *)
StateMatches == LockMatches /\ LedgerMatches /\ LinksMatch

(* A change whose user did not agree to administrator rights changes       *)
(* nothing in system scope, and neither does its revert or its recovery by *)
(* a later command.                                                        *)
SystemScopeKept ==
    [][\A t \in System :
         ledger'[t] # ledger[t] \/ machine'[t] # machine[t]
            => edits' # edits \/ p.elevated]_vars

(* Change implements Switch: an interrupted change counts as not made, up  *)
(* to the moment pending.toml goes away or says that it is done.           *)
Adopting == step = "adoptLock" \/ chg.adopted

Abstract == INSTANCE Switch WITH
    Contents <- Contents \cup {Empty},
    None <- NoPending,
    Withdrawn <- NoGen,
    asked <- IF InFlight
             THEN IF pend.to \in Existing \cup {0} THEN ContentOf(pend.to) ELSE NoGen
             ELSE NoPending,
    content <- ContentOf(IF InFlight THEN pend.from ELSE current),
    toml <- IF InFlight THEN pend.before.list
            ELSE IF Adopting THEN chg.before.list ELSE list,
    locked <- IF InFlight THEN pend.before.lock
              ELSE IF Adopting THEN chg.before.lock ELSE lock,
    count <- edits

ImplementsSwitch == Abstract!SwitchSpec

(* B527: a revert keeps a list that the user edited since the change found *)
(* it, as long as pending.toml does not say that oku began to write the    *)
(* lists.                                                                  *)
EditsSurvive ==
    [][/\ step \in {"undoList", "undoLock"}
       /\ InFlight
       /\ ~pend.committing
       => /\ list # pend.started.list => list' = list \/ edits' # edits
          /\ lock # pend.started.lock => lock' = lock \/ edits' # edits]_vars

(* "a sync that fails before its change commits has to take them away      *)
(* again" (newSyncCmd): the list and the lock that sync <list-ref> adopted *)
(* do not outlive a command that did not commit them, whichever step of    *)
(* the apply or the revert failed, unless oku is killed or cannot write    *)
(* the lists themselves.                                                   *)
AdoptionUndone ==
    [][/\ Adopting
       /\ step' = "idle"
       /\ edits = 0
       /\ faults' = faults
       => list' = chg.before.list /\ lock' = chg.before.lock]_vars

(* A change that began is finished or undone in the end, as long as oku is *)
(* run again and the failures stop.                                        *)
ChangesEnd == InFlight ~> ~InFlight

-----------------------------------------------------------------------------
(* What the repository says of a change and the code does not keep.        *)

(* B132, B133: what fails or is killed is undone.  While no change is      *)
(* under way and the user touched nothing, what the ledger holds is on the *)
(* machine.                                                                *)
ExposedIsPlaced ==
    Quiet /\ edits = 0 =>
        \A t \in Targets :
            Kind[t] \in {"app", "setting"} /\ Held(ledger, t)
                => machine[t] = ledger[t].source
=============================================================================
