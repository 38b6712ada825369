---------------------------- MODULE ChangeProofs ----------------------------
(***************************************************************************)
(* Proofs about Change for every bound on generations, failures and edits  *)
(* and every set of commands and of steps that may fail.                   *)
(*                                                                         *)
(* GenerationsKept is not inductive: that a Discard never deletes the      *)
(* generation to go back to rests on the staged one being another, and     *)
(* that a revert by a later process goes to the right one on pending.toml  *)
(* and the process agreeing on the change.  ChangeInv says so, step by     *)
(* step of the command.                                                    *)
(*                                                                         *)
(* StateMatches rests on two more invariants.  ShownInv: what the machine  *)
(* shows is the generation that a Sync of apply or of revert was for, and  *)
(* Sync ends only when memory, ledger and links agree on it.  ListsInv:    *)
(* pending.toml has the lists as they were found, and oku writes them only *)
(* after it says so.  With both, every step of Change is a step of Switch  *)
(* or changes nothing that Switch sees.                                    *)
(***************************************************************************)
EXTENDS Change, ExposeProofs

ApplySteps == {"activate", "sync", "committing", "commitList", "commitLock", "finish"}

UndoSteps == {"undoList", "undoLock", "undoActivate", "undoSync", "undoDiscard", "undoFinish"}

(* The types of what Change adds to Expose *)
ChangeTypes ==
    /\ gens \in [Numbers -> Contents \cup {NoGen}]
    /\ current \in 0..MaxGen
    /\ list \in ListTexts
    /\ lock \in LockTexts
    /\ pend \in Pending \cup {NoPending}
    /\ step \in {"idle", "adoptLock", "stage", "plan", "discard",
                 "unadoptList", "unadoptLock"} \cup ApplySteps \cup UndoSteps
    /\ chg \in ChangeRec
    /\ p \in Pending \cup {NoPending}
    /\ faults \in 0..MaxFaults
    /\ edits \in 0..MaxEdits

(* The process and pending.toml agree on the change.  Committing is not    *)
(* among what they agree on: see StartCommitFails.                         *)
SameChange ==
    /\ InFlight
    /\ p \in Pending
    /\ ~p.done
    /\ p.from = pend.from
    /\ p.to = pend.to
    /\ p.staged = pend.staged
    /\ p.elevated = pend.elevated

(* No change is in flight before its plan is written *)
Planning == step \in {"adoptLock", "stage", "plan", "discard"} => pend = NoPending

(* The generation to activate exists and, when it is staged, is new *)
Planned ==
    step \in {"plan", "discard"} =>
        chg.to \in Existing \cup {0} /\ (chg.staged => chg.to # current)

Applying ==
    step \in ApplySteps => SameChange /\ chg.to = pend.to /\ chg.to \in Existing \cup {0}

Undoing == step \in UndoSteps => SameChange

Undone == step \in {"undoSync", "undoDiscard", "undoFinish"} => current = p.from

StagedApart == InFlight /\ pend.staged => pend.to # pend.from

(* Sync runs only within the change or its revert *)
SyncRuns == sync # "off" => step \in {"sync", "undoSync"}

ChangeInv ==
    /\ ChangeTypes
    /\ GenerationsKept
    /\ Planning
    /\ Planned
    /\ Applying
    /\ Undoing
    /\ Undone
    /\ StagedApart
    /\ SyncRuns

(* Without administrator rights, the running Sync has nothing to do in     *)
(* system scope.                                                           *)
SystemIdle ==
    sync # "off" /\ ~p.elevated =>
        \A t \in System :
            /\ goal[t] = items[t].source
            /\ items[t] = ledger[t]
            /\ sync = "place" => at # t

-----------------------------------------------------------------------------
(* What a recorded generation wants is a wanted content *)
LEMMA ContentType ==
    ASSUME ChangeTypes, NEW g \in Existing \cup {0}
    PROVE  ContentOf(g) \in Wants
BY ContentsAssumption DEF ChangeTypes, ContentOf, Existing, Wants, Empty

(* wantedItems and keepSystem return a wanted content *)
LEMMA WantedType ==
    ASSUME ChangeTypes, TypeOK, NEW g \in Existing \cup {0}, NEW elevated
    PROVE  Wanted(g, elevated) \in Wants
<1>1. ContentOf(g) \in Wants
  BY ContentType
<1>2. KeepSystem(ContentOf(g)) \in Wants
  BY <1>1 DEF KeepSystem, Wants, TypeOK, Ledgers, Item
<1> QED
  BY <1>1, <1>2 DEF Wanted

-----------------------------------------------------------------------------
(* The change of a process that does nothing *)
LEMMA NoChangeType == NoChange \in ChangeRec /\ NoLists \in SavedLists
BY MaxGenAssumption DEF NoChange, ChangeRec, NoLists, SavedLists, ListTexts, LockTexts

(* Where a command goes when it is over: to the shell, or to the restore   *)
(* of the lists that it adopted.                                           *)
LEMMA ReturnType ==
    ASSUME ChangeTypes, Exit \/ Return
    PROVE  /\ step' \in {"idle", "unadoptList"}
           /\ chg' \in ChangeRec
           /\ p' \in Pending \cup {NoPending}
BY NoChangeType DEF Return, Exit, Goto, ChangeTypes

(* No change is under way on a machine where oku never ran *)
LEMMA ChangeInitInv == ChangeInit => ChangeInv
<1> SUFFICES ASSUME ChangeInit PROVE ChangeInv
  OBVIOUS
<1>1. ChangeTypes
  BY MaxGenAssumption, BoundAssumption
     DEF ChangeInit, ChangeTypes, ChangeRec, NoChange, NoLists, SavedLists,
         ListTexts, LockTexts
<1> QED
  BY <1>1 DEF ChangeInit, Init, ChangeInv, GenerationsKept, InFlight, Planning, Planned,
              Applying, ApplySteps, Undoing, UndoSteps, Undone, StagedApart, SyncRuns

(* The commands, up to the plan of their change *)
LEMMA CommandInv ==
    ASSUME ChangeInv, Command
    PROVE  ChangeInv'
<1> USE DEF ChangeInv
<1> DEFINE Rest == /\ GenerationsKept /\ Planning /\ Planned /\ Applying /\ Undoing
                   /\ Undone /\ StagedApart /\ SyncRuns
<1>1. ASSUME NEW l \in Texts, AdoptList(l) PROVE ChangeInv'
  <2>1. ChangeTypes'
    <3>1. [list |-> list, lock |-> lock] \in SavedLists
      BY DEF ChangeTypes, SavedLists
    <3>2. chg' \in ChangeRec
      BY <1>1, <3>1, NoChangeType DEF AdoptList, ChangeRec
    <3> QED
      BY <1>1, <3>2 DEF AdoptList, ChangeTypes, ListTexts
  <2>2. Rest'
    BY <1>1 DEF AdoptList, Ready, exposeVars, ChangeTypes, GenerationsKept, InFlight, Existing,
                Planning, Planned, Applying, ApplySteps, Undoing, UndoSteps,
                Undone, StagedApart, SyncRuns
  <2> QED
    BY <2>1, <2>2
<1>2. ASSUME NEW c \in Contents, AdoptLock(c) PROVE ChangeInv'
  <2>1. ChangeTypes'
    BY <1>2 DEF AdoptLock, ChangeTypes, ChangeRec, LockTexts
  <2>2. Rest'
    BY <1>2 DEF AdoptLock, exposeVars, ChangeTypes, GenerationsKept, InFlight, Existing,
                Planning, Planned, Applying, ApplySteps, Undoing, UndoSteps,
                Undone, StagedApart, SyncRuns
  <2> QED
    BY <2>1, <2>2
<1>3. ASSUME NEW c \in Contents, NEW w \in BOOLEAN, StageGeneration(c, w), pend = NoPending,
             sync = "off"
      PROVE  ChangeInv'
  <2>1. PICK n \in Numbers :
            /\ IsNext(n)
            /\ gens' = [gens EXCEPT ![n] = c]
            /\ chg' = [chg EXCEPT !.to = n, !.staged = TRUE, !.writes = w, !.lock = c]
    BY <1>3 DEF StageGeneration
  <2>2. /\ step' = "plan"
        /\ UNCHANGED <<current, list, lock, pend, p, faults, edits, exposeVars>>
    BY <1>3 DEF StageGeneration
  <2>4. ChangeTypes'
    <3>1. n \in 0..MaxGen /\ c \in LockTexts
      BY DEF LockTexts, Numbers
    <3>2. chg' \in ChangeRec
      BY <2>1, <3>1 DEF ChangeTypes, ChangeRec
    <3> QED
      BY <2>1, <2>2, <3>2 DEF ChangeTypes
  <2>5. /\ Existing' = Existing \cup {n}
        /\ n # current
        /\ chg'.to = n
    <3>1. Existing' = Existing \cup {n}
      BY <2>1, NoneAssumption DEF ChangeTypes, Existing
    <3>2. n # current
      BY <2>1, MaxGenAssumption DEF IsNext, GenerationsKept, Numbers, Existing
    <3>3. chg'.to = n
      BY <2>1 DEF ChangeTypes, ChangeRec
    <3> QED
      BY <3>1, <3>2, <3>3
  <2>6. Rest'
    BY <1>3, <2>2, <2>5
       DEF exposeVars, GenerationsKept, InFlight, Planning, Planned, Applying, ApplySteps,
           Undoing, UndoSteps, Undone, StagedApart, SyncRuns
  <2> QED
    BY <2>4, <2>6
<1>4. ASSUME NEW c \in Contents, AddOrRemove(c) PROVE ChangeInv'
  BY <1>4, <1>3 DEF AddOrRemove, Ready, SyncRuns
<1>5. ASSUME NEW c \in Contents, NEW w \in BOOLEAN, pend = NoPending, sync = "off",
             chg' = [chg EXCEPT !.to = current, !.staged = FALSE, !.writes = w, !.lock = c],
             step' = "plan",
             UNCHANGED <<diskVars, p, faults, edits, exposeVars>>
      PROVE  ChangeInv'
  <2>1. ChangeTypes'
    BY <1>5 DEF diskVars, ChangeTypes, ChangeRec, LockTexts
  <2>2. chg'.to = current /\ chg'.staged = FALSE
    BY <1>5 DEF ChangeTypes, ChangeRec
  <2>3. Rest'
    BY <1>5, <2>2
       DEF diskVars, exposeVars, GenerationsKept, InFlight, Existing, Planning, Planned,
           Applying, ApplySteps, Undoing, UndoSteps, Undone, StagedApart, SyncRuns
  <2> QED
    BY <2>1, <2>3
<1>6. ASSUME NEW c \in Contents, PinOnly(c) PROVE ChangeInv'
  BY <1>5, <1>6 DEF PinOnly, Ready, SyncRuns
<1>7. ASSUME NEW c \in Contents, NEW w \in BOOLEAN, SyncOrUpdate(c, w) PROVE ChangeInv'
  <2>1. pend = NoPending /\ sync = "off"
    BY <1>7 DEF SyncOrUpdate, Ready, Planning, SyncRuns
  <2>2. CASE current # 0 /\ ContentOf(current) = c
    BY <1>7, <1>5, <2>1, <2>2 DEF SyncOrUpdate
  <2>3. CASE ~(current # 0 /\ ContentOf(current) = c)
    BY <1>3, <1>7, <2>1, <2>3 DEF SyncOrUpdate
  <2> QED
    BY <2>2, <2>3
<1>8. CASE InstallFails
  <2>1. ChangeTypes'
    BY <1>8, ReturnType DEF InstallFails, diskVars, ChangeTypes
  <2>2. Rest'
    BY <1>8, ReturnType DEF InstallFails, diskVars, exposeVars, GenerationsKept,
                InFlight, Existing, Planning, Planned, Applying, ApplySteps,
                Undoing, UndoSteps, Undone, StagedApart, SyncRuns
  <2> QED
    BY <2>1, <2>2
<1>9. ASSUME NEW g \in Numbers, Rollback(g) PROVE ChangeInv'
  <2>1. /\ g \in Existing /\ pend = NoPending /\ step' = "plan" /\ step = "idle"
        /\ chg' = [NoChange EXCEPT !.to = g, !.lock = gens[g]]
        /\ UNCHANGED <<diskVars, p, faults, edits, exposeVars>>
    BY <1>9 DEF Rollback, Ready
  <2>2. gens[g] \in LockTexts /\ g \in 0..MaxGen
    BY <2>1 DEF ChangeTypes, Existing, LockTexts, Numbers
  <2>3. ChangeTypes'
    BY <2>1, <2>2 DEF diskVars, ChangeTypes, ChangeRec, NoChange, NoLists, SavedLists,
                      ListTexts, LockTexts
  <2>4. chg'.to = g /\ chg'.staged = FALSE
    BY <2>1 DEF NoChange
  <2>5. Rest'
    BY <2>1, <2>4
       DEF diskVars, exposeVars, GenerationsKept, InFlight, Existing, Planning, Planned,
           Applying, ApplySteps, Undoing, UndoSteps, Undone, StagedApart, SyncRuns
  <2> QED
    BY <2>3, <2>5
<1>10. ASSUME NEW g \in Numbers, PruneGeneration(g) PROVE ChangeInv'
  <2>1. /\ step = "idle" /\ pend = NoPending /\ g # current
        /\ gens' = [gens EXCEPT ![g] = NoGen]
        /\ UNCHANGED <<current, list, lock, pend, step, chg, p, faults, edits, exposeVars>>
    BY <1>10 DEF PruneGeneration, Ready
  <2>2. ChangeTypes'
    BY <2>1 DEF ChangeTypes
  <2>3. Existing' = Existing \ {g}
    BY <2>1 DEF ChangeTypes, Existing
  <2>4. Rest'
    BY <2>1, <2>3
       DEF exposeVars, GenerationsKept, InFlight, Planning, Planned, Applying, ApplySteps,
           Undoing, UndoSteps, Undone, StagedApart, SyncRuns
  <2> QED
    BY <2>2, <2>4
<1> QED
  BY <1>1, <1>2, <1>4, <1>6, <1>7, <1>8, <1>9, <1>10 DEF Command

(* apply, from the plan to the end of the change *)
LEMMA ApplyInv ==
    ASSUME ChangeInv, Apply
    PROVE  ChangeInv'
<1> USE DEF ChangeInv
<1> DEFINE Rest == /\ GenerationsKept /\ Planning /\ Planned /\ Applying /\ Undoing
                   /\ Undone /\ StagedApart /\ SyncRuns
<1>1. ASSUME NEW agree \in BOOLEAN, Plan(agree) PROVE ChangeInv'
  <2> DEFINE found == [list |-> list, lock |-> lock]
             before == IF chg.adopted THEN chg.before ELSE found
  <2>1. PICK elevated \in BOOLEAN :
          p' = [from |-> current, to |-> chg.to, staged |-> chg.staged,
                elevated |-> elevated, before |-> before, started |-> found,
                committing |-> FALSE, done |-> FALSE]
    BY <1>1 DEF Plan, PendingSystem
  <2>2. /\ step = "plan" /\ step' = "activate" /\ pend' = p'
        /\ UNCHANGED <<gens, current, list, lock, chg, faults, edits, exposeVars>>
    BY <1>1 DEF Plan
  <2>3. p' \in Pending
    <3>1. found \in SavedLists /\ before \in SavedLists
      BY DEF ChangeTypes, SavedLists, ChangeRec
    <3> HIDE DEF found, before
    <3> QED
      BY <2>1, <3>1 DEF ChangeTypes, ChangeRec, Pending
  <2>4. ChangeTypes'
    BY <2>2, <2>3 DEF ChangeTypes, ApplySteps
  <2>5. InFlight' /\ ~p'.done
    BY <2>1, <2>2, <2>3, PendingAssumption DEF InFlight
  <2>6. /\ pend'.from = current /\ pend'.to = chg.to /\ pend'.staged = chg.staged
        /\ chg.to \in Existing \cup {0} /\ (chg.staged => chg.to # current)
    BY <2>1, <2>2 DEF Planned
  <2>7. Existing' = Existing
    BY <2>2 DEF Existing
  <2>8. Rest'
    BY <2>2, <2>3, <2>5, <2>6, <2>7
       DEF exposeVars, GenerationsKept, Planning, Planned, Applying, ApplySteps, SameChange,
           Undoing, UndoSteps, Undone, StagedApart, SyncRuns
  <2> QED
    BY <2>4, <2>8
<1>2. CASE DiscardStaged
  <2>1. /\ step = "discard" /\ pend = NoPending /\ (chg.staged => chg.to # current)
        /\ UNCHANGED <<current, list, lock, pend, faults, edits, exposeVars>>
    BY <1>2 DEF DiscardStaged, Planning, Planned
  <2>2. /\ gens' \in [Numbers -> Contents \cup {NoGen}]
        /\ current \in Existing' \cup {0}
    BY <1>2, <2>1 DEF DiscardStaged, Discard, ChangeTypes, Existing, GenerationsKept
  <2>3. ChangeTypes'
    BY <1>2, <2>1, <2>2, ReturnType DEF DiscardStaged, ChangeTypes
  <2>4. Rest'
    BY <1>2, <2>1, <2>2, ReturnType
       DEF DiscardStaged, exposeVars, GenerationsKept, InFlight, Planning, Planned,
           Applying, ApplySteps, Undoing, UndoSteps, Undone, StagedApart, SyncRuns
  <2> QED
    BY <2>3, <2>4
<1>3. CASE Activate
  <2>1. ChangeTypes'
    BY <1>3 DEF Activate, Goto, ChangeTypes, ChangeRec, ApplySteps
  <2>2. Rest'
    BY <1>3 DEF Activate, Goto, exposeVars, GenerationsKept, InFlight, Existing,
                Planning, Planned, Applying, ApplySteps, SameChange,
                Undoing, UndoSteps, Undone, StagedApart, SyncRuns
  <2> QED
    BY <2>1, <2>2
<1>4. CASE SyncBegins
  <2>1. UNCHANGED changeVars /\ step = "sync"
    BY <1>4 DEF SyncBegins
  <2> QED
    BY <2>1 DEF changeVars, ChangeTypes, GenerationsKept, InFlight, Existing,
                Planning, Planned, Applying, SameChange, Undoing, Undone, StagedApart, SyncRuns
<1>5. CASE SyncEnds
  <2>1. /\ step = "sync" /\ step' = "committing" /\ sync' = "off"
        /\ UNCHANGED <<diskVars, chg, p, faults, edits>>
    BY <1>5 DEF SyncEnds, Goto, End, Forget
  <2>2. ChangeTypes'
    BY <2>1 DEF diskVars, ChangeTypes, ApplySteps
  <2>3. Rest'
    BY <2>1 DEF diskVars, GenerationsKept, InFlight, Existing, Planning, Planned,
                Applying, ApplySteps, SameChange, Undoing, UndoSteps, Undone, StagedApart,
                SyncRuns
  <2> QED
    BY <2>2, <2>3
<1>6. CASE StartCommit
  <2>1. /\ step = "committing" /\ step' = "commitList"
        /\ p' = [p EXCEPT !.committing = TRUE] /\ pend' = p'
        /\ UNCHANGED <<gens, current, list, lock, chg, faults, edits, exposeVars>>
    BY <1>6 DEF StartCommit
  <2>2. p' \in Pending /\ SameChange'
    BY <2>1, PendingAssumption DEF Applying, ApplySteps, SameChange, InFlight, Pending
  <2>3. /\ pend'.from = pend.from /\ pend'.to = pend.to /\ pend'.staged = pend.staged
        /\ InFlight /\ chg.to = pend.to /\ chg.to \in Existing \cup {0}
    BY <2>1 DEF Applying, ApplySteps, SameChange, Pending
  <2>4. ChangeTypes'
    BY <2>1, <2>2 DEF ChangeTypes, ApplySteps
  <2>5. Existing' = Existing
    BY <2>1 DEF Existing
  <2>6. Rest'
    BY <2>1, <2>2, <2>3, <2>5
       DEF exposeVars, GenerationsKept, Planning, Planned, Applying, ApplySteps,
           Undoing, UndoSteps, Undone, StagedApart, SyncRuns
  <2> QED
    BY <2>4, <2>6
<1>7. CASE CommitList
  <2>1. ChangeTypes'
    BY <1>7 DEF CommitList, Goto, ChangeTypes, ListTexts, ApplySteps
  <2>2. Rest'
    BY <1>7 DEF CommitList, Goto, exposeVars, GenerationsKept, InFlight, Existing,
                Planning, Planned, Applying, ApplySteps, SameChange,
                Undoing, UndoSteps, Undone, StagedApart, SyncRuns
  <2> QED
    BY <2>1, <2>2
<1>8. CASE CommitLock
  <2>1. ChangeTypes' /\ chg'.to = chg.to
    BY <1>8 DEF CommitLock, ChangeTypes, ChangeRec, ApplySteps
  <2>2. Rest'
    BY <1>8, <2>1 DEF CommitLock, exposeVars, GenerationsKept, InFlight, Existing,
                Planning, Planned, Applying, ApplySteps, SameChange,
                Undoing, UndoSteps, Undone, StagedApart, SyncRuns
  <2> QED
    BY <2>1, <2>2
<1>9. CASE Finish
  <2>1. ChangeTypes'
    BY <1>9, ReturnType DEF Finish, ChangeTypes
  <2>2. Rest'
    BY <1>9 DEF Finish, Exit, exposeVars, GenerationsKept, InFlight, Existing,
                Planning, Planned, Applying, ApplySteps,
                Undoing, UndoSteps, Undone, StagedApart, SyncRuns
  <2> QED
    BY <2>1, <2>2
<1> QED
  BY <1>1, <1>2, <1>3, <1>4, <1>5, <1>6, <1>7, <1>8, <1>9 DEF Apply

(* One durable write of a Sync leaves the change as it is *)
LEMMA SyncItemInv ==
    ASSUME ChangeInv, SyncItem
    PROVE  ChangeInv'
<1>1. UNCHANGED changeVars /\ sync # "off" /\ SyncRuns
  BY DEF SyncItem, SyncStep, RemoveItem, DropItem, RecordItem, PlaceItem, ChangeInv
<1> QED
  BY <1>1 DEF ChangeInv, changeVars, ChangeTypes, GenerationsKept, InFlight, Existing,
              Planning, Planned, Applying, SameChange, Undoing, Undone, StagedApart, SyncRuns

(* revert, in the process of the change or in a later one *)
LEMMA RevertInv ==
    ASSUME ChangeInv, Revert
    PROVE  ChangeInv'
<1> USE DEF ChangeInv
<1> DEFINE Rest == /\ GenerationsKept /\ Planning /\ Planned /\ Applying /\ Undoing
                   /\ Undone /\ StagedApart /\ SyncRuns
<1>1. CASE UndoList
  <2>1. p \in Pending /\ SameChange
    BY <1>1 DEF UndoList, Undoing, UndoSteps, SameChange
  <2>2. list' \in ListTexts
    BY <1>1, <2>1 DEF UndoList, Restored, Pending, SavedLists, ChangeTypes
  <2>3. ChangeTypes'
    BY <1>1, <2>2 DEF UndoList, Goto, ChangeTypes, UndoSteps
  <2>4. Rest'
    BY <1>1, <2>1 DEF UndoList, Goto, exposeVars, GenerationsKept, InFlight, Existing,
                Planning, Planned, Applying, ApplySteps, SameChange,
                Undoing, UndoSteps, Undone, StagedApart, SyncRuns
  <2> QED
    BY <2>3, <2>4
<1>2. CASE UndoLock
  <2>1. p \in Pending /\ SameChange
    BY <1>2 DEF UndoLock, Undoing, UndoSteps, SameChange
  <2>2. lock' \in LockTexts
    BY <1>2, <2>1 DEF UndoLock, Restored, Pending, SavedLists, ChangeTypes
  <2>3. ChangeTypes'
    BY <1>2, <2>2 DEF UndoLock, Goto, ChangeTypes, UndoSteps
  <2>4. Rest'
    BY <1>2, <2>1 DEF UndoLock, Goto, exposeVars, GenerationsKept, InFlight, Existing,
                Planning, Planned, Applying, ApplySteps, SameChange,
                Undoing, UndoSteps, Undone, StagedApart, SyncRuns
  <2> QED
    BY <2>3, <2>4
<1>3. CASE UndoActivate
  <2>1. p \in Pending /\ SameChange /\ p.from \in Existing \cup {0}
    BY <1>3 DEF UndoActivate, Undoing, UndoSteps, SameChange, GenerationsKept
  <2>2. ChangeTypes'
    BY <1>3, <2>1 DEF UndoActivate, Goto, ChangeTypes, Pending, UndoSteps
  <2>3. Rest'
    BY <1>3, <2>1 DEF UndoActivate, Goto, exposeVars, GenerationsKept, InFlight, Existing,
                Planning, Planned, Applying, ApplySteps, SameChange,
                Undoing, UndoSteps, Undone, StagedApart, SyncRuns
  <2> QED
    BY <2>2, <2>3
<1>4. CASE UndoSyncBegins
  <2>1. UNCHANGED changeVars /\ step = "undoSync"
    BY <1>4 DEF UndoSyncBegins
  <2> QED
    BY <2>1 DEF changeVars, ChangeTypes, GenerationsKept, InFlight, Existing,
                Planning, Planned, Applying, SameChange, Undoing, Undone, StagedApart, SyncRuns
<1>5. CASE UndoSyncEnds
  <2>1. /\ step = "undoSync" /\ step' = "undoDiscard" /\ sync' = "off"
        /\ UNCHANGED <<diskVars, chg, p, faults, edits>>
    BY <1>5 DEF UndoSyncEnds, Goto, End, Forget
  <2>2. ChangeTypes'
    BY <2>1 DEF diskVars, ChangeTypes, UndoSteps
  <2>3. Rest'
    BY <2>1 DEF diskVars, GenerationsKept, InFlight, Existing, Planning, Planned,
                Applying, ApplySteps, SameChange, Undoing, UndoSteps, Undone, StagedApart,
                SyncRuns
  <2> QED
    BY <2>2, <2>3
<1>6. CASE UndoDiscard
  <2>1. /\ step = "undoDiscard" /\ step' = "undoFinish" /\ SameChange /\ current = p.from
        /\ UNCHANGED <<current, list, lock, pend, chg, p, faults, edits, exposeVars>>
    BY <1>6 DEF UndoDiscard, Goto, Undoing, UndoSteps, Undone
  <2>2. p.staged => p.to # p.from
    BY <2>1 DEF StagedApart, SameChange
  <2>3. /\ gens' \in [Numbers -> Contents \cup {NoGen}]
        /\ current \in Existing' \cup {0}
    BY <1>6, <2>1, <2>2 DEF UndoDiscard, Discard, ChangeTypes, Existing, GenerationsKept
  <2>4. ChangeTypes'
    BY <2>1, <2>3 DEF ChangeTypes, UndoSteps
  <2>5. Rest'
    BY <2>1, <2>3
       DEF exposeVars, GenerationsKept, InFlight, Planning, Planned, Applying, ApplySteps,
           SameChange, Undoing, UndoSteps, Undone, StagedApart, SyncRuns
  <2> QED
    BY <2>4, <2>5
<1>7. CASE UndoFinish
  <2>1. ChangeTypes'
    BY <1>7, ReturnType DEF UndoFinish, ChangeTypes
  <2>2. Rest'
    BY <1>7, ReturnType
       DEF UndoFinish, exposeVars, GenerationsKept, InFlight, Existing, Planning, Planned,
           Applying, ApplySteps, Undoing, UndoSteps, Undone, StagedApart, SyncRuns
  <2> QED
    BY <2>1, <2>2
<1>8. CASE UnadoptList
  <2>1. ChangeTypes'
    BY <1>8 DEF UnadoptList, Goto, ChangeTypes, ChangeRec, SavedLists
  <2>2. Rest'
    BY <1>8 DEF UnadoptList, Goto, exposeVars, GenerationsKept, InFlight, Existing,
                Planning, Planned, Applying, ApplySteps, Undoing, UndoSteps, Undone,
                StagedApart, SyncRuns
  <2> QED
    BY <2>1, <2>2
<1>9. CASE UnadoptLock
  <2>1. ChangeTypes'
    <3>1. lock' \in LockTexts
      BY <1>9 DEF UnadoptLock, ChangeTypes, ChangeRec, SavedLists
    <3> QED
      BY <1>9, <3>1, ReturnType DEF UnadoptLock, ChangeTypes
  <2>2. Rest'
    BY <1>9 DEF UnadoptLock, Exit, exposeVars, GenerationsKept, InFlight, Existing,
                Planning, Planned, Applying, ApplySteps, Undoing, UndoSteps, Undone,
                StagedApart, SyncRuns
  <2> QED
    BY <2>1, <2>2
<1> QED
  BY <1>1, <1>2, <1>3, <1>4, <1>5, <1>6, <1>7, <1>8, <1>9 DEF Revert

(* recoverPending takes the change of pending.toml as it is *)
LEMMA RecoverInv ==
    ASSUME ChangeInv, Recover
    PROVE  ChangeInv'
<1> USE DEF ChangeInv
<1>1. CASE pend.done
  <2>1. pend' = NoPending /\ UNCHANGED <<gens, current, list, lock, step, chg, p,
                                         faults, edits, exposeVars>> /\ step = "idle"
    BY <1>1 DEF Recover
  <2> QED
    BY <2>1 DEF ChangeTypes, exposeVars, GenerationsKept, InFlight, Existing, Planning, Planned,
                Applying, ApplySteps, Undoing, UndoSteps, Undone, StagedApart, SyncRuns
<1>2. CASE ~pend.done
  <2>1. /\ p' = pend /\ step' = "undoList" /\ pend # NoPending /\ step = "idle"
        /\ UNCHANGED <<diskVars, chg, faults, edits, exposeVars>>
    BY <1>2 DEF Recover, diskVars
  <2>2. ChangeTypes'
    BY <2>1 DEF ChangeTypes, diskVars, UndoSteps
  <2>3. SameChange'
    BY <1>2, <2>1 DEF SameChange, InFlight, diskVars, ChangeTypes
  <2> QED
    BY <2>1, <2>2, <2>3
       DEF diskVars, exposeVars, GenerationsKept, InFlight, Existing, Planning, Planned,
           Applying, ApplySteps, Undoing, UndoSteps, Undone, StagedApart, SyncRuns
<1> QED
  BY <1>1, <1>2

(* A step that leaves the files of the profile alone, and goes on with a   *)
(* revert of the same change, discards or returns                          *)
LEMMA TurnBackInv ==
    ASSUME ChangeInv, UNCHANGED diskVars,
           faults' \in 0..MaxFaults, edits' \in 0..MaxEdits,
           sync' = "off",
           \/ Exit
           \/ Return
           \/ step = "plan" /\ Goto("discard")
           \/ step \in ApplySteps /\ Goto("undoList")
    PROVE  ChangeInv'
<1> USE DEF ChangeInv
<1>1. ChangeTypes'
  BY ReturnType DEF ChangeTypes, diskVars, Goto, UndoSteps
<1>2. CASE Exit \/ Return
  BY <1>1, <1>2, ReturnType
     DEF diskVars, GenerationsKept, InFlight, Existing, Planning, Planned,
         Applying, ApplySteps, Undoing, UndoSteps, Undone, StagedApart, SyncRuns
<1>3. CASE step = "plan" /\ Goto("discard")
  BY <1>1, <1>3
     DEF Goto, diskVars, GenerationsKept, InFlight, Existing, Planning, Planned,
         Applying, ApplySteps, Undoing, UndoSteps, Undone, StagedApart, SyncRuns
<1>4. CASE step \in ApplySteps /\ Goto("undoList")
  <2>1. SameChange'
    BY <1>4 DEF Applying, SameChange, InFlight, diskVars, Goto
  <2> QED
    BY <1>1, <1>4, <2>1
       DEF Goto, diskVars, GenerationsKept, InFlight, Existing, Planning, Planned,
           Applying, ApplySteps, Undoing, UndoSteps, Undone, StagedApart, SyncRuns
<1> QED
  BY <1>2, <1>3, <1>4

(* A failed Sync, whatever the failure, leads to a revert or ends one *)
LEMMA SyncFailedInv ==
    ASSUME ChangeInv, SyncFailed, step \in {"sync", "undoSync"},
           faults' \in 0..MaxFaults, sync' = "off"
    PROVE  ChangeInv'
<1>1. /\ UNCHANGED <<diskVars, edits>>
      /\ Return \/ (step \in ApplySteps /\ Goto("undoList"))
  BY DEF SyncFailed, ApplySteps
<1>2. edits' \in 0..MaxEdits
  BY <1>1 DEF ChangeInv, ChangeTypes
<1> QED
  BY <1>1, <1>2, TurnBackInv

(* A plan that stops, and a Sync that finds something in its way *)
LEMMA SetbackInv ==
    ASSUME ChangeInv, Setback
    PROVE  ChangeInv'
<1>1. faults \in 0..MaxFaults /\ edits \in 0..MaxEdits
  BY DEF ChangeInv, ChangeTypes
<1>2. CASE PlanStops
  <2>1. sync' = "off"
    BY <1>2 DEF PlanStops, ChangeInv, SyncRuns, exposeVars
  <2> QED
    BY <1>1, <1>2, <2>1, TurnBackInv DEF PlanStops
<1>3. CASE SyncRefused
  BY <1>1, <1>3, SyncFailedInv DEF SyncRefused, Refused, exposeVars
<1>4. CASE SyncBlocked
  BY <1>1, <1>4, SyncFailedInv DEF SyncBlocked, Blocked, Forget
<1> QED
  BY <1>2, <1>3, <1>4 DEF Setback

(* Failed steps and a crash *)
LEMMA FailureInv ==
    ASSUME ChangeInv, Failure
    PROVE  ChangeInv'
<1> USE DEF ChangeInv
<1>1. edits \in 0..MaxEdits
  BY DEF ChangeTypes
<1>2. Fault => faults' \in 0..MaxFaults
  BY BoundAssumption DEF ChangeTypes, Fault
<1>3. step \notin {"sync", "undoSync"} => sync = "off"
  BY DEF SyncRuns
<1>4. CASE StepFails
  <2>1. step \in DOMAIN OnFailure
    BY <1>4 DEF StepFails
  <2>2. /\ OnFailure[step] = "return" \/ (OnFailure[step] = "undoList" /\ step \in ApplySteps)
        /\ step \notin {"sync", "undoSync"}
    BY <2>1 DEF OnFailure, ApplySteps
  <2>3. Return \/ (step \in ApplySteps /\ Goto("undoList"))
    BY <1>4, <2>2 DEF StepFails
  <2> QED
    BY <1>1, <1>2, <1>3, <1>4, <2>2, <2>3, TurnBackInv DEF StepFails, exposeVars
<1>5. CASE AdoptFails
  BY <1>1, <1>2, <1>3, <1>5, TurnBackInv DEF AdoptFails, exposeVars
<1>6. CASE StartCommitFails
  <2>1. /\ step = "committing" /\ step' = "undoList" /\ Fault
        /\ p' = [p EXCEPT !.committing = TRUE]
        /\ UNCHANGED <<diskVars, chg, edits, exposeVars>>
    BY <1>6 DEF StartCommitFails
  <2>2. SameChange'
    BY <2>1 DEF Applying, ApplySteps, SameChange, InFlight, diskVars, Pending
  <2>3. ChangeTypes'
    BY <1>2, <2>1, <2>2 DEF ChangeTypes, diskVars, UndoSteps, SameChange
  <2> QED
    BY <2>1, <2>2, <2>3
       DEF diskVars, exposeVars, GenerationsKept, InFlight, Existing, Planning, Planned,
           Applying, ApplySteps, Undoing, UndoSteps, Undone, StagedApart, SyncRuns
<1>7. CASE FinishFails
  <2>1. /\ step = "finish" /\ Exit /\ Fault
        /\ UNCHANGED <<gens, current, list, lock, edits, exposeVars>>
        /\ p \in Pending
    BY <1>7 DEF FinishFails, Applying, ApplySteps, SameChange
  <2>2. CASE pend' = pend
    BY <1>1, <1>2, <1>3, <2>1, <2>2, TurnBackInv DEF diskVars, exposeVars
  <2>3. CASE pend' = [p EXCEPT !.done = TRUE]
    <3>1. pend' \in Pending /\ pend'.done
      BY <2>1, <2>3 DEF Pending
    <3>2. ChangeTypes'
      BY <1>1, <1>2, <2>1, <2>3, <3>1, ReturnType DEF ChangeTypes
    <3> QED
      BY <2>1, <3>1, <3>2
         DEF Exit, exposeVars, GenerationsKept, InFlight, Existing, Planning, Planned,
             Applying, ApplySteps, Undoing, UndoSteps, Undone, StagedApart, SyncRuns
  <2> QED
    BY <1>7, <2>2, <2>3 DEF FinishFails
<1>8. CASE SyncAborts
  BY <1>2, <1>8, SyncFailedInv DEF SyncAborts, Abort, Forget
<1>9. CASE Crash
  <2>1. sync' = "off"
    BY <1>9 DEF Crash, Abort, Forget, exposeVars
  <2> QED
    BY <1>1, <1>2, <1>9, <2>1, TurnBackInv DEF Crash
<1> QED
  BY <1>4, <1>5, <1>6, <1>7, <1>8, <1>9 DEF Failure

(* The user edits a list, a lock or a target *)
LEMMA UserInv ==
    ASSUME ChangeInv, User
    PROVE  ChangeInv'
<1> USE DEF ChangeInv
<1>1. /\ list' \in ListTexts /\ lock' \in LockTexts /\ edits' \in 0..MaxEdits
      /\ UNCHANGED <<gens, current, pend, step, chg, p, faults, sync>>
  BY BoundAssumption
     DEF User, EditList, EditLock, EditTarget, Touch, diskVars, exposeVars, ChangeTypes
<1> QED
  BY <1>1 DEF ChangeTypes, GenerationsKept, InFlight, Existing, Planning, Planned,
              Applying, SameChange, Undoing, Undone, StagedApart, SyncRuns

(* Every step preserves ChangeInv *)
LEMMA ChangeNextInv == ChangeInv /\ [ChangeNext]_vars => ChangeInv'
<1> SUFFICES ASSUME ChangeInv, [ChangeNext]_vars PROVE ChangeInv'
  OBVIOUS
<1>1. CASE UNCHANGED vars
  BY <1>1 DEF vars, exposeVars, changeVars, ChangeInv, ChangeTypes, GenerationsKept, InFlight,
              Existing, Planning, Planned, Applying, SameChange, Undoing, Undone,
              StagedApart, SyncRuns
<1> QED
  BY <1>1, CommandInv, ApplyInv, SyncItemInv, RevertInv, RecoverInv, SetbackInv, FailureInv,
     UserInv DEF ChangeNext

-----------------------------------------------------------------------------
(* ChangeInv holds in every reachable state of a change, its revert and    *)
(* its recovery.                                                           *)
THEOREM ChangeInvariant == ChangeSpec => []ChangeInv
<1>1. ChangeInit => ChangeInv
  BY ChangeInitInv
<1>2. ChangeInv /\ [ChangeNext]_vars => ChangeInv'
  BY ChangeNextInv
<1> QED
  BY <1>1, <1>2, PTL DEF ChangeSpec

(* "current", and the generation that a revert goes back to, always exist: *)
(* GenerationsKept for any number of generations, failures and edits.      *)
THEOREM GenerationsAreKept == ChangeSpec => []GenerationsKept
<1>1. ChangeInv => GenerationsKept
  BY DEF ChangeInv
<1> QED
  BY <1>1, ChangeInvariant, PTL

-----------------------------------------------------------------------------
(* What a change does to the machine and the ledger is a step of Expose.   *)
(* It needs that the generations that apply and revert expose exist.       *)
LEMMA ExposeStep ==
    ASSUME ChangeInv, TypeOK, [ChangeNext]_vars
    PROVE  [Next]_exposeVars
<1>1. ASSUME NEW g \in Existing \cup {0}, Begin(Wanted(g, p.elevated)) PROVE Next
  BY <1>1, WantedType DEF ChangeInv, Next
<1>2. step = "sync" => chg.to \in Existing \cup {0}
  BY DEF ChangeInv, Applying, ApplySteps
<1>3. step = "undoSync" => p.from \in Existing \cup {0}
  BY DEF ChangeInv, Undoing, UndoSteps, SameChange, GenerationsKept
<1>4. CASE UNCHANGED vars
  BY <1>4 DEF vars
<1>5. CASE Command
  BY <1>5 DEF Command, AdoptList, AdoptLock, AddOrRemove, PinOnly, StageGeneration, SyncOrUpdate,
              InstallFails, Rollback, PruneGeneration
<1>6. CASE Apply
  <2>1. CASE SyncBegins
    BY <1>1, <1>2, <2>1 DEF SyncBegins
  <2>2. CASE SyncEnds
    BY <2>2 DEF SyncEnds, Next
  <2>3. CASE \/ \E agree \in BOOLEAN : Plan(agree)
             \/ DiscardStaged \/ Activate \/ StartCommit \/ CommitList \/ CommitLock \/ Finish
    BY <2>3 DEF Plan, DiscardStaged, Activate, StartCommit, CommitList, CommitLock, Finish
  <2> QED
    BY <1>6, <2>1, <2>2, <2>3 DEF Apply
<1>7. CASE SyncItem
  BY <1>7 DEF SyncItem, Next
<1>8. CASE Revert
  <2>1. CASE UndoSyncBegins
    BY <1>1, <1>3, <2>1 DEF UndoSyncBegins
  <2>2. CASE UndoSyncEnds
    BY <2>2 DEF UndoSyncEnds, Next
  <2>3. CASE \/ UndoList \/ UndoLock \/ UndoActivate \/ UndoDiscard \/ UndoFinish
             \/ UnadoptList \/ UnadoptLock
    BY <2>3 DEF UndoList, UndoLock, UndoActivate, UndoDiscard, UndoFinish, UnadoptList,
                UnadoptLock
  <2> QED
    BY <1>8, <2>1, <2>2, <2>3 DEF Revert
<1>9. CASE Recover
  BY <1>9 DEF Recover
<1>10. CASE Setback
  BY <1>10 DEF Setback, PlanStops, SyncRefused, Refused, SyncBlocked, Next
<1>11. CASE Failure
  BY <1>11 DEF Failure, StepFails, AdoptFails, StartCommitFails, FinishFails, SyncAborts,
               Crash, Next
<1>12. CASE User
  BY <1>12 DEF User, EditList, EditLock, EditTarget, Next
<1> QED
  BY <1>4, <1>5, <1>6, <1>7, <1>8, <1>9, <1>10, <1>11, <1>12 DEF ChangeNext

(* Everything apply, revert and recovery do outside oku's own files is     *)
(* what Sync does on its own: Change implements Expose.                    *)
THEOREM ChangeImplementsExpose == ChangeSpec => Spec
<1>1. ChangeInit => Init
  BY DEF ChangeInit
<1>2. ChangeInit => ExposeInv
  BY <1>1, InitInv
<1>3. ChangeInv /\ ExposeInv /\ [ChangeNext]_vars => [Next]_exposeVars
  BY ExposeStep DEF ExposeInv
<1>4. ChangeInv /\ ExposeInv /\ [ChangeNext]_vars => ExposeInv'
  BY <1>3, NextInv
<1> QED
  BY <1>1, <1>2, <1>3, <1>4, ChangeInvariant, PTL DEF ChangeSpec, Spec

(* So the user's settings and files survive every change, failed change,   *)
(* crash and recovery, for any targets.                                    *)
THEOREM ChangeKeepsOwn == ChangeSpec => [](TypeOK /\ OwnKept /\ PriorIsOwn)
BY ChangeImplementsExpose, TypeCorrect, OwnIsKept, PriorIsKept, PTL

(* All types of a change hold *)
THEOREM ChangeTypesCorrect == ChangeSpec => []ChangeTypeOK
<1>1. ChangeInv /\ TypeOK => ChangeTypeOK
  BY DEF ChangeInv, ChangeTypes, ChangeTypeOK, ApplySteps, UndoSteps
<1> QED
  BY <1>1, ChangeInvariant, ChangeImplementsExpose, TypeCorrect, PTL

-----------------------------------------------------------------------------
(* Begin asks for nothing in system scope without administrator rights,    *)
(* because keepSystem took the ledger's own items.                         *)
LEMMA BeginsIdle ==
    ASSUME TypeOK, NEW g, Begin(Wanted(g, p.elevated)), p' = p
    PROVE  SystemIdle'
<1> SUFFICES ASSUME ~p.elevated, NEW t \in System
             PROVE  goal'[t] = items'[t].source /\ items'[t] = ledger'[t] /\ sync' # "place"
  BY DEF SystemIdle
<1>1. t \in Targets /\ Kind[t] = "app"
  BY SystemAssumption
<1>2. goal' = KeepSystem(ContentOf(g)) /\ ledger' = ledger /\ sync' = "remove"
  BY DEF Begin, Wanted
<1>3. goal'[t] = ledger[t].source
  BY <1>1, <1>2 DEF KeepSystem
<1>4. t \notin Gone(ledger)
  BY <1>1 DEF Gone
<1>5. items'[t] = ledger[t]
  BY <1>1, <1>4, WithoutType DEF Begin, TypeOK
<1> QED
  BY <1>2, <1>3, <1>5

(* The steps of a change, sorted by what they do to the machine *)
Untouched == UNCHANGED exposeVars /\ (p' = p \/ sync = "off")

Beginning == (\E g \in 0..MaxGen : Begin(Wanted(g, p.elevated))) /\ p' = p

Ending ==
    /\ sync # "off"
    /\ Forget
    /\ \/ UNCHANGED machine
       \/ \E t \in Tearable : machine' = [machine EXCEPT ![t] = Partial]

Touching ==
    /\ \E t \in Targets, v \in UserValues \cup {Nothing} : Touch(t, v)
    /\ p' = p
    /\ edits' # edits

(* Every step of a change is of one of these sorts *)
LEMMA StepSorts ==
    ASSUME ChangeInv, [ChangeNext]_vars
    PROVE  Untouched \/ Beginning \/ (SyncStep /\ p' = p) \/ Ending \/ Touching
<1>1. step \notin {"sync", "undoSync"} => sync = "off"
  BY DEF ChangeInv, SyncRuns
<1>2. CASE UNCHANGED vars
  BY <1>2 DEF vars, changeVars, Untouched
<1>3. CASE Command
  BY <1>1, <1>3 DEF Command, Ready, AdoptList, AdoptLock, AddOrRemove, PinOnly, StageGeneration,
                    SyncOrUpdate, InstallFails, Rollback, PruneGeneration, Untouched
<1>4. CASE Apply
  <2>1. CASE SyncBegins
    <3>1. chg.to \in 0..MaxGen
      BY DEF ChangeInv, ChangeTypes, ChangeRec
    <3> QED
      BY <2>1, <3>1 DEF SyncBegins, Beginning, changeVars
  <2>2. CASE SyncEnds
    BY <2>2 DEF SyncEnds, End, Ending
  <2>3. CASE \/ \E agree \in BOOLEAN : Plan(agree)
             \/ DiscardStaged \/ Activate \/ StartCommit \/ CommitList \/ CommitLock \/ Finish
    BY <1>1, <2>3 DEF Plan, DiscardStaged, Activate, StartCommit, CommitList, CommitLock,
                      Finish, Untouched
  <2> QED
    BY <1>4, <2>1, <2>2, <2>3 DEF Apply
<1>5. CASE SyncItem
  BY <1>5 DEF SyncItem, changeVars
<1>6. CASE Revert
  <2>1. CASE UndoSyncBegins
    <3>1. p.from \in 0..MaxGen
      BY <2>1 DEF UndoSyncBegins, ChangeInv, Undoing, UndoSteps, SameChange, Pending
    <3> QED
      BY <2>1, <3>1 DEF UndoSyncBegins, Beginning, changeVars
  <2>2. CASE UndoSyncEnds
    BY <2>2 DEF UndoSyncEnds, End, Ending
  <2>3. CASE \/ UndoList \/ UndoLock \/ UndoActivate \/ UndoDiscard \/ UndoFinish
             \/ UnadoptList \/ UnadoptLock
    BY <1>1, <2>3 DEF UndoList, UndoLock, UndoActivate, UndoDiscard, UndoFinish, UnadoptList,
                      UnadoptLock, Untouched
  <2> QED
    BY <1>6, <2>1, <2>2, <2>3 DEF Revert
<1>7. CASE Recover
  BY <1>1, <1>7 DEF Recover, Untouched
<1>8. CASE Setback
  <2>1. CASE PlanStops
    BY <1>1, <2>1 DEF PlanStops, Untouched
  <2>2. CASE SyncRefused
    BY <2>2 DEF SyncRefused, Refused, Untouched
  <2>3. CASE SyncBlocked
    BY <2>3 DEF SyncBlocked, Blocked, Ending
  <2> QED
    BY <1>8, <2>1, <2>2, <2>3 DEF Setback
<1>9. CASE Failure
  <2>1. CASE StepFails
    BY <1>1, <2>1 DEF StepFails, OnFailure, Untouched
  <2>2. CASE AdoptFails \/ StartCommitFails \/ FinishFails
    BY <1>1, <2>2 DEF AdoptFails, StartCommitFails, FinishFails, Untouched
  <2>3. CASE SyncAborts
    BY <2>3 DEF SyncAborts, Abort, Ending
  <2>4. CASE Crash
    BY <2>4 DEF Crash, Abort, Ending, Untouched
  <2> QED
    BY <1>9, <2>1, <2>2, <2>3, <2>4 DEF Failure
<1>10. CASE User
  <2>1. edits \in Nat
    BY BoundAssumption DEF ChangeInv, ChangeTypes
  <2> QED
    BY <1>10, <2>1 DEF User, EditList, EditLock, EditTarget, Untouched, Touching
<1> QED
  BY <1>2, <1>3, <1>4, <1>5, <1>6, <1>7, <1>8, <1>9, <1>10 DEF ChangeNext

(* A Sync that has nothing to do in system scope does nothing there *)
LEMMA IdleStep ==
    ASSUME TypeOK, SystemIdle, SyncStep, p' = p, ~p.elevated
    PROVE  /\ SystemIdle'
           /\ \A t \in System : ledger'[t] = ledger[t] /\ machine'[t] = machine[t]
<1>1. sync # "off"
  BY DEF SyncStep, RemoveItem, DropItem, RecordItem, PlaceItem
<1>2. \A t \in System : /\ t \in Targets
                        /\ goal[t] = items[t].source
                        /\ items[t] = ledger[t]
                        /\ sync = "place" => at # t
  BY <1>1, SystemAssumption DEF SystemIdle
<1>3. \A t \in System : t \notin Leaving /\ t \notin Coming
  BY <1>2 DEF Leaving, Coming, Holds
<1>4. ASSUME NEW r \in Targets, RemoveItem(r)
      PROVE  /\ \A t \in System : machine'[t] = machine[t] /\ items'[t] = items[t]
             /\ ledger' = ledger /\ goal' = goal /\ sync' # "place"
  <2>1. \A t \in System : t # r
    BY <1>3, <1>4 DEF RemoveItem
  <2> QED
    BY <1>2, <1>4, <2>1, WithoutType DEF RemoveItem, TypeOK
<1>5. ASSUME NEW r \in Targets, RecordItem(r)
      PROVE  /\ \A t \in System : items'[t] = items[t] /\ ledger'[t] = ledger[t] /\ at' # t
             /\ machine' = machine /\ goal' = goal
  <2>1. \A t \in System : t # r
    BY <1>3, <1>5 DEF RecordItem
  <2> QED
    BY <1>2, <1>5, <2>1 DEF RecordItem, TypeOK, Ledgers
<1>6. CASE DropItem
  BY <1>2, <1>6 DEF DropItem, SystemIdle
<1>7. CASE PlaceItem
  BY <1>2, <1>7 DEF PlaceItem, SystemIdle, TypeOK
<1>8. ASSUME NEW r \in Targets, RemoveItem(r) \/ RecordItem(r)
      PROVE  /\ SystemIdle'
             /\ \A t \in System : ledger'[t] = ledger[t] /\ machine'[t] = machine[t]
  BY <1>2, <1>4, <1>5, <1>8 DEF SystemIdle
<1> QED
  BY <1>6, <1>7, <1>8 DEF SyncStep

(* SystemIdle holds throughout *)
LEMMA SystemIdleInv ==
    ChangeInv /\ TypeOK /\ SystemIdle /\ [ChangeNext]_vars => SystemIdle'
<1> SUFFICES ASSUME ChangeInv, TypeOK, SystemIdle, [ChangeNext]_vars PROVE SystemIdle'
  OBVIOUS
<1>1. CASE Untouched
  BY <1>1 DEF Untouched, SystemIdle, exposeVars
<1>2. CASE Beginning
  <2>1. PICK g \in 0..MaxGen : Begin(Wanted(g, p.elevated))
    BY <1>2 DEF Beginning
  <2> QED
    BY <1>2, <2>1, BeginsIdle DEF Beginning
<1>3. CASE SyncStep /\ p' = p
  <2>1. CASE p.elevated
    BY <1>3, <2>1 DEF SystemIdle
  <2>2. CASE ~p.elevated
    BY <1>3, <2>2, IdleStep
  <2> QED
    BY <2>1, <2>2
<1>4. CASE Ending
  BY <1>4 DEF Ending, Forget, SystemIdle
<1>5. CASE Touching
  BY <1>5 DEF Touching, Touch, SystemIdle
<1> QED
  BY <1>1, <1>2, <1>3, <1>4, <1>5, StepSorts

(* Without the user's consent oku leaves system scope alone, in a change,  *)
(* its revert and its recovery: SystemScopeKept for any targets.           *)
THEOREM SystemScopeIsKept == ChangeSpec => SystemScopeKept
<1> DEFINE Kept == \A t \in System :
                     ledger'[t] # ledger[t] \/ machine'[t] # machine[t]
                        => edits' # edits \/ p.elevated
<1>1. ChangeInit => SystemIdle
  BY DEF ChangeInit, Init, SystemIdle
<1>2. ChangeInv /\ TypeOK /\ SystemIdle /\ [ChangeNext]_vars => SystemIdle'
  BY SystemIdleInv
<1>3. ChangeInv /\ TypeOK /\ SystemIdle /\ [ChangeNext]_vars => [Kept]_vars
  <2> SUFFICES ASSUME ChangeInv, TypeOK, SystemIdle, [ChangeNext]_vars,
                      edits' = edits, ~p.elevated
               PROVE  \A t \in System : ledger'[t] = ledger[t] /\ machine'[t] = machine[t]
    OBVIOUS
  <2>1. CASE Untouched
    BY <2>1 DEF Untouched, exposeVars
  <2>2. CASE Beginning
    BY <2>2 DEF Beginning, Begin
  <2>3. CASE SyncStep /\ p' = p
    BY <2>3, IdleStep
  <2>4. CASE Ending
    <3>1. \A t \in System : t \in Targets /\ goal[t] = items[t].source
                            /\ (sync = "place" => at # t)
      BY <2>4, SystemAssumption DEF Ending, SystemIdle
    <3>2. \A t \in System : t \notin Tearable
      BY <3>1 DEF Tearable, Leaving, Holds
    <3> QED
      BY <2>4, <3>1, <3>2 DEF Ending, Forget, TypeOK
  <2>5. CASE Touching
    BY <2>5 DEF Touching
  <2> QED
    BY <2>1, <2>2, <2>3, <2>4, <2>5, StepSorts
<1> QED
  BY <1>1, <1>2, <1>3, ChangeInvariant, ChangeImplementsExpose, TypeCorrect, PTL
     DEF ChangeSpec, SystemScopeKept

-----------------------------------------------------------------------------
(* What is exposed matches the active generation.                          *)

CommitSteps == {"committing", "commitList", "commitLock", "finish"}

UndoneSteps == {"undoDiscard", "undoFinish"}

(* The ledger holds what generation g wants of apps and settings, and the  *)
(* links are those of g, while the user touched nothing                    *)
LedgerIs(g) ==
    \A t \in Targets \ System :
        Kind[t] \in {"app", "setting"} => Holds(ledger, t, ContentOf(g)[t])

LinksAre(g) ==
    edits = 0 =>
        \A t \in Targets \ System :
            Kind[t] = "link" =>
                machine[t] = IF ContentOf(g)[t] # Nothing THEN ContentOf(g)[t] ELSE own[t]

Shows(g) == LedgerIs(g) /\ LinksAre(g)

(* The machine shows the generation that a change left, reached or undid *)
Shown ==
    /\ ~InFlight => Shows(current)
    /\ step \in CommitSteps => Shows(chg.to)
    /\ step \in UndoneSteps => Shows(p.from)

Activated == step \in ApplySteps \ {"activate"} => current = chg.to

(* The running Sync is for the generation that the step exposes *)
GoalIs(g) == \A t \in Targets \ System : goal[t] = ContentOf(g)[t]

Goals ==
    sync # "off" => /\ step = "sync" => GoalIs(chg.to)
                    /\ step = "undoSync" => GoalIs(p.from)

(* Between its writes, the memory of Sync and the ledger agree on what     *)
(* cannot be gone.                                                         *)
MemoryIs ==
    sync \in {"remove", "place"} =>
        \A t \in Targets : Kind[t] \in {"app", "setting"} => items[t] = ledger[t]

(* A link in the ledger is on the machine or nothing is, and one in memory *)
(* is there unless it is being placed.  Check let Sync begin, so the user  *)
(* has nothing where a link is wanted.                                     *)
LinkPlaced(t) ==
    /\ Held(ledger, t) => machine[t] \in {Nothing, ledger[t].source}
    /\ sync = "place" /\ at = t => machine[t] = Nothing
    /\ sync # "off" /\ Held(items, t) /\ ~(sync = "place" /\ at = t) => machine[t] = items[t].source
    /\ sync # "off" /\ goal[t] # Nothing => own[t] = Nothing

LinksPlaced == edits = 0 => \A t \in Targets : Kind[t] = "link" => LinkPlaced(t)

SyncInv == MemoryIs /\ LinksPlaced

ShownInv == Shown /\ Activated /\ Goals /\ SyncInv

(* The count of edits only grows. *)
LEMMA EditsGrow ==
    ASSUME ChangeInv, [ChangeNext]_vars
    PROVE  edits' = 0 => edits = 0
<1>1. edits \in Nat
  BY BoundAssumption DEF ChangeInv, ChangeTypes
<1>2. CASE UNCHANGED vars
  BY <1>2 DEF vars, changeVars
<1>3. CASE Command
  BY <1>3 DEF Command, AdoptList, AdoptLock, AddOrRemove, PinOnly, StageGeneration, SyncOrUpdate,
              InstallFails, Rollback, PruneGeneration
<1>4. CASE Apply
  BY <1>4 DEF Apply, Plan, DiscardStaged, Activate, SyncBegins, SyncEnds, StartCommit, CommitList,
              CommitLock, Finish, changeVars
<1>5. CASE SyncItem
  BY <1>5 DEF SyncItem, changeVars
<1>6. CASE Revert
  BY <1>6 DEF Revert, UndoList, UndoLock, UndoActivate, UndoSyncBegins, UndoSyncEnds, UndoDiscard,
              UndoFinish, UnadoptList, UnadoptLock, changeVars
<1>7. CASE Recover \/ Setback
  BY <1>7 DEF Recover, Setback, PlanStops, SyncRefused, SyncBlocked, SyncFailed
<1>8. CASE Failure
  BY <1>8 DEF Failure, StepFails, AdoptFails, StartCommitFails, FinishFails, SyncAborts, SyncFailed,
              Crash
<1>9. CASE User
  BY <1>1, <1>9 DEF User, EditList, EditLock, EditTarget
<1> QED
  BY <1>2, <1>3, <1>4, <1>5, <1>6, <1>7, <1>8, <1>9 DEF ChangeNext

(* Sync begins: it forgets what is gone, and nothing else *)
LEMMA BeginSync ==
    ASSUME ExposeInv, LinksPlaced, NEW w, Begin(w), edits' = 0 => edits = 0
    PROVE  SyncInv'
<1> USE DEF ExposeInv
<1>1. /\ \A t \in Targets : items'[t] = IF t \in Gone(ledger) THEN NoItem ELSE ledger[t]
      /\ \A t \in Targets : Held(items', t) <=> t \notin Gone(ledger) /\ Held(ledger, t)
      /\ sync' = "remove" /\ UNCHANGED <<machine, own, ledger, at>>
  BY WithoutType DEF Begin, TypeOK
<1>2. MemoryIs'
  BY <1>1 DEF MemoryIs, Gone
<1>3. LinksPlaced'
  <2> SUFFICES ASSUME edits' = 0, NEW t \in Targets, Kind[t] = "link"
               PROVE  LinkPlaced(t)'
    BY DEF LinksPlaced
  <2>1. LinkPlaced(t)
    BY DEF LinksPlaced
  <2>2. Held(items', t) => Held(ledger, t) /\ machine[t] # Nothing /\ items'[t] = ledger[t]
    BY <1>1 DEF Gone
  <2>3. ASSUME w[t] # Nothing PROVE own[t] = Nothing
    <3>1. SoundAt(ledger, t)
      BY DEF Sound
    <3>2. CASE Held(ledger, t)
      <4>1. ledger[t].source \in Sources
        BY <3>2 DEF TypeOK, Ledgers, Item, Held
      <4> QED
        BY <2>1, <3>1, <3>2, <4>1, ValuesDistinct DEF LinkPlaced, SoundAt
    <3>3. CASE ~Held(ledger, t)
      <4>1. ~Held(items', t)
        BY <1>1, <3>3
      <4>2. Check(items', w)
        BY DEF Begin
      <4>3. machine[t] = Nothing
        BY <2>3, <4>1, <4>2 DEF Check
      <4> QED
        BY <3>1, <3>3, <4>3 DEF SoundAt
    <3> QED
      BY <3>2, <3>3
  <2>4. goal' = w
    BY DEF Begin
  <2> QED
    BY <1>1, <2>1, <2>2, <2>3, <2>4 DEF LinkPlaced, Held
<1> QED
  BY <1>2, <1>3 DEF SyncInv

(* Sync takes an item off the machine, drops it, records one and places it *)
LEMMA StepSync ==
    ASSUME ExposeInv, SyncInv, SyncStep, edits' = 0 => edits = 0
    PROVE  SyncInv'
<1> USE DEF ExposeInv
<1>0. sync # "off"
  BY DEF SyncStep, RemoveItem, DropItem, RecordItem, PlaceItem
<1>1. ASSUME NEW r \in Targets, RemoveItem(r) PROVE SyncInv'
  <2>1. /\ \A t \in Targets : items'[t] = IF t = r THEN NoItem ELSE items[t]
        /\ \A t \in Targets : Held(items', t) <=> t # r /\ Held(items, t)
        /\ \A t \in Targets : machine'[t] = IF t = r THEN Removed(r, items[r]) ELSE machine[t]
        /\ sync = "remove" /\ sync' = "drop" /\ UNCHANGED <<own, ledger, goal, at>>
        /\ Held(items, r)
    BY <1>1, WithoutType DEF RemoveItem, TypeOK, Leaving
  <2>2. MemoryIs'
    BY <2>1 DEF MemoryIs
  <2>3. ASSUME edits' = 0, NEW t \in Targets, Kind[t] = "link" PROVE LinkPlaced(t)'
    <3>1. LinkPlaced(t)
      BY <2>3 DEF SyncInv, LinksPlaced
    <3>2. CASE t = r
      <4>1. machine[t] = items[t].source /\ items[t].source \in Sources
        BY <2>1, <3>1, <3>2 DEF LinkPlaced, TypeOK, Ledgers, Item, Held
      <4>2. machine'[t] = Nothing
        BY <2>1, <2>3, <3>2, <4>1 DEF Removed
      <4> QED
        BY <2>1, <3>1, <3>2, <4>2 DEF LinkPlaced, Held
    <3>3. CASE t # r
      BY <2>1, <3>1, <3>3 DEF LinkPlaced, Held
    <3> QED
      BY <3>2, <3>3
  <2> QED
    BY <2>2, <2>3 DEF SyncInv, LinksPlaced
<1>2. CASE DropItem
  <2>1. /\ ledger' = items /\ sync' = "remove" /\ sync = "drop"
        /\ UNCHANGED <<machine, own, items, goal, at>>
    BY <1>2 DEF DropItem
  <2>2. MemoryIs'
    BY <2>1 DEF MemoryIs
  <2>3. ASSUME edits' = 0, NEW t \in Targets, Kind[t] = "link" PROVE LinkPlaced(t)'
    <3>1. LinkPlaced(t)
      BY <2>3 DEF SyncInv, LinksPlaced
    <3> QED
      BY <2>1, <3>1 DEF LinkPlaced, Held
  <2> QED
    BY <2>2, <2>3 DEF SyncInv, LinksPlaced
<1>3. ASSUME NEW r \in Targets, RecordItem(r) PROVE SyncInv'
  <2>1. /\ sync = "remove" /\ sync' = "place" /\ at' = r /\ ledger' = items'
        /\ UNCHANGED <<machine, own, goal>>
        /\ \A t \in Targets : t # r => items'[t] = items[t]
        /\ r \notin Leaving /\ goal[r] # Nothing /\ ~Holds(items, r, goal[r])
    BY <1>3 DEF RecordItem, TypeOK, Ledgers, Coming
  <2>2. ~Held(items, r)
    BY <2>1 DEF Leaving
  <2>3. MemoryIs'
    BY <2>1 DEF MemoryIs
  <2>4. ASSUME edits' = 0, NEW t \in Targets, Kind[t] = "link" PROVE LinkPlaced(t)'
    <3>1. LinkPlaced(t) /\ edits = 0
      BY <2>4 DEF SyncInv, LinksPlaced
    <3>2. CASE t = r
      <4>3. machine[r] = Nothing
        BY <1>0, <2>1, <2>2, <2>4, <3>1, <3>2 DEF LinkPlaced, Running, Sound, SoundAt
      <4> QED
        BY <2>1, <3>1, <3>2, <4>3 DEF LinkPlaced
    <3>3. CASE t # r
      <4>1. Held(items, t) => ledger[t] = items[t]
        BY <1>0 DEF Running, OnDisk
      <4> QED
        BY <2>1, <3>1, <3>3, <4>1 DEF LinkPlaced, Held
    <3> QED
      BY <3>2, <3>3
  <2> QED
    BY <2>3, <2>4 DEF SyncInv, LinksPlaced
<1>4. CASE PlaceItem
  <2>1. /\ sync = "place" /\ sync' = "remove" /\ at' = Nothing
        /\ UNCHANGED <<own, ledger, items, goal>>
        /\ \A t \in Targets : machine'[t] = IF t = at THEN goal[at] ELSE machine[t]
        /\ at \in Targets /\ items[at].source = goal[at] /\ goal[at] # Nothing
    BY <1>4 DEF PlaceItem, TypeOK, Recorded
  <2>2. MemoryIs'
    BY <2>1 DEF SyncInv, MemoryIs
  <2>3. ASSUME edits' = 0, NEW t \in Targets, Kind[t] = "link" PROVE LinkPlaced(t)'
    <3>1. LinkPlaced(t)
      BY <2>3 DEF SyncInv, LinksPlaced
    <3>2. Held(items, at) /\ ledger[at] = items[at]
      BY <1>0, <2>1 DEF Running, OnDisk, Held
    <3>3. CASE t = at
      BY <2>1, <3>1, <3>2, <3>3 DEF LinkPlaced, Held
    <3>4. CASE t # at
      BY <2>1, <3>1, <3>4 DEF LinkPlaced, Held
    <3> QED
      BY <3>3, <3>4
  <2> QED
    BY <2>2, <2>3 DEF SyncInv, LinksPlaced
<1> QED
  BY <1>1, <1>2, <1>3, <1>4 DEF SyncStep

(* Whatever a change does, Sync and the ledger stay in step *)
LEMMA SyncNext ==
    ASSUME ChangeInv, ExposeInv, SyncInv, [ChangeNext]_vars
    PROVE  SyncInv'
<1>0. edits' = 0 => edits = 0
  BY EditsGrow
<1>1. CASE Untouched
  BY <1>0, <1>1 DEF Untouched, exposeVars, SyncInv, MemoryIs, LinksPlaced, LinkPlaced
<1>2. CASE Beginning
  BY <1>0, <1>2, BeginSync DEF Beginning, SyncInv
<1>3. CASE SyncStep
  BY <1>0, <1>3, StepSync
<1>4. CASE Ending
  <2>1. /\ sync' = "off" /\ ledger' = ledger
        /\ \A t \in Targets : Kind[t] = "link" => machine'[t] = machine[t]
    BY <1>4 DEF Ending, Forget, Tearable, ExposeInv, TypeOK
  <2> QED
    BY <1>0, <2>1 DEF SyncInv, MemoryIs, LinksPlaced, LinkPlaced, Held
<1>5. CASE Touching
  <2>1. sync' = "off" /\ edits' # 0
    BY <1>0, <1>5 DEF Touching, Touch
  <2> QED
    BY <2>1 DEF SyncInv, MemoryIs, LinksPlaced
<1> QED
  BY <1>1, <1>2, <1>3, <1>4, <1>5, StepSorts

(* When Sync ends, the machine shows what it was asked for *)
LEMMA EndShows ==
    ASSUME ExposeInv, SyncInv, End, NEW g, GoalIs(g),
           UNCHANGED gens, edits' = edits
    PROVE  LedgerIs(g)' /\ LinksAre(g)'
<1> USE DEF ExposeInv
<1>1. /\ sync = "remove" /\ UNCHANGED <<machine, own, ledger>>
      /\ \A t \in Targets : items[t].source = goal[t]
  BY DEF End, Forget, Leaving, Coming, Held, Holds
<1>2. \A t \in Targets \ System : items[t].source = ContentOf(g)[t]
  BY <1>1 DEF GoalIs
<1>3. ContentOf(g)' = ContentOf(g)
  BY DEF ContentOf
<1>4. LedgerIs(g)'
  BY <1>1, <1>2, <1>3 DEF LedgerIs, Holds, SyncInv, MemoryIs
<1>5. ASSUME edits = 0, NEW t \in Targets \ System, Kind[t] = "link"
      PROVE  machine[t] = IF ContentOf(g)[t] # Nothing THEN ContentOf(g)[t] ELSE own[t]
  <2>1. CASE Held(items, t)
    BY <1>1, <1>2, <1>5, <2>1 DEF SyncInv, LinksPlaced, LinkPlaced, Held
  <2>2. CASE ~Held(items, t)
    BY <1>1, <1>2, <1>5, <2>2 DEF Running, Sound, SoundAt, Held
  <2> QED
    BY <2>1, <2>2
<1>6. LinksAre(g)'
  BY <1>1, <1>3, <1>5 DEF LinksAre
<1> QED
  BY <1>4, <1>6

(* A step that leaves what is exposed alone, and the generation it is for *)
Unshown ==
    /\ ledger' = ledger
    /\ edits' = 0 => edits = 0 /\ UNCHANGED <<machine, own>>
    /\ ~InFlight' => ~InFlight /\ ContentOf(current)' = ContentOf(current)
    /\ step' \in CommitSteps => step \in CommitSteps /\ ContentOf(chg.to)' = ContentOf(chg.to)
    /\ step' \in UndoneSteps => step \in UndoneSteps /\ ContentOf(p.from)' = ContentOf(p.from)

(* Such a step keeps Shown *)
LEMMA ShownKept ==
    ASSUME Shown, Unshown
    PROVE  Shown'
BY DEF Shown, Unshown, Shows, LedgerIs, LinksAre

(* No change ends while it is being applied or undone *)
LEMMA ShownLater ==
    ASSUME InFlight', step' \notin CommitSteps \cup UndoneSteps
    PROVE  Shown'
BY DEF Shown

(* Commands stage, prune and pin without touching the active generation *)
LEMMA ShownCommand ==
    ASSUME ChangeInv, Shown, Command
    PROVE  Shown'
<1> USE DEF ChangeInv
<1> SUFFICES Unshown
  BY ShownKept
<1>1. ASSUME NEW c \in Contents, NEW w \in BOOLEAN, StageGeneration(c, w) PROVE Unshown
  <2>1. PICK n \in Numbers : IsNext(n) /\ gens' = [gens EXCEPT ![n] = c]
    BY <1>1 DEF StageGeneration
  <2>2. n # current
    BY <2>1, MaxGenAssumption DEF IsNext, GenerationsKept, Numbers, Existing
  <2>3. ContentOf(current)' = ContentOf(current)
    BY <1>1, <2>1, <2>2 DEF StageGeneration, ContentOf, ChangeTypes
  <2> QED
    BY <1>1, <2>3 DEF StageGeneration, exposeVars, Unshown, InFlight, CommitSteps, UndoneSteps
<1>2. ASSUME NEW g \in Numbers, PruneGeneration(g) PROVE Unshown
  BY <1>2 DEF PruneGeneration, Ready, exposeVars, Unshown, InFlight, ContentOf, ChangeTypes,
              CommitSteps, UndoneSteps
<1>3. CASE InstallFails
  BY <1>3, ReturnType DEF InstallFails, diskVars, exposeVars, Unshown, InFlight, ContentOf,
                          CommitSteps, UndoneSteps
<1> QED
  BY <1>1, <1>2, <1>3
     DEF Command, AdoptList, AdoptLock, AddOrRemove, PinOnly, SyncOrUpdate, Rollback,
         diskVars, exposeVars, Unshown, InFlight, ContentOf, CommitSteps, UndoneSteps

(* The generation of a change is shown once its Sync ended *)
LEMMA ShownApply ==
    ASSUME ChangeInv, ExposeInv, ShownInv, Apply
    PROVE  Shown'
<1> USE DEF ChangeInv, ShownInv
<1>1. CASE \/ \E agree \in BOOLEAN : Plan(agree)
           \/ Activate
  <2>1. InFlight' /\ step' \in {"activate", "sync"}
    <3>1. ChangeInv'
      BY <1>1, ApplyInv DEF Apply
    <3>2. step' \in {"activate", "sync"}
      BY <1>1 DEF Plan, Activate, Goto
    <3> QED
      BY <3>1, <3>2 DEF Applying, ApplySteps, SameChange
  <2> QED
    BY <2>1, ShownLater DEF CommitSteps, UndoneSteps
<1>2. CASE DiscardStaged
  <2>1. ContentOf(current)' = ContentOf(current)
    BY <1>2 DEF DiscardStaged, Planned, Discard, ChangeTypes, ContentOf, GenerationsKept, Existing
  <2>2. Unshown
    BY <1>2, <2>1, ReturnType
       DEF DiscardStaged, exposeVars, Unshown, InFlight, CommitSteps, UndoneSteps
  <2> QED
    BY <2>2, ShownKept
<1>3. CASE SyncBegins
  <2>1. InFlight' /\ step' = "sync"
    BY <1>3 DEF SyncBegins, changeVars, Applying, ApplySteps, SameChange, InFlight
  <2> QED
    BY <2>1, ShownLater DEF CommitSteps, UndoneSteps
<1>4. CASE SyncEnds
  <2>1. /\ step = "sync" /\ step' = "committing" /\ End
        /\ UNCHANGED <<gens, pend, chg, edits>>
    BY <1>4 DEF SyncEnds, Goto, diskVars
  <2>2. GoalIs(chg.to)
    BY <2>1 DEF Goals, End
  <2>3. Shows(chg.to)'
    <3>1. LedgerIs(chg.to)' /\ LinksAre(chg.to)'
      BY <2>1, <2>2, EndShows DEF LedgerIs, LinksAre, ContentOf, GoalIs
    <3> QED
      BY <3>1 DEF Shows
  <2> QED
    BY <2>1, <2>3 DEF Shown, Applying, ApplySteps, SameChange, InFlight, UndoneSteps
<1>5. CASE StartCommit \/ CommitList \/ CommitLock
  <2>1. InFlight'
    <3>1. ChangeInv'
      BY <1>5, ApplyInv DEF Apply
    <3>2. step' \in ApplySteps
      BY <1>5 DEF StartCommit, CommitList, CommitLock, Goto, ApplySteps
    <3> QED
      BY <3>1, <3>2 DEF Applying, SameChange
  <2>2. /\ step \in CommitSteps /\ chg'.to = chg.to /\ step' \notin UndoneSteps
        /\ UNCHANGED <<gens, edits, exposeVars>>
    BY <1>5 DEF StartCommit, CommitList, CommitLock, Goto, CommitSteps, UndoneSteps,
                ChangeTypes, ChangeRec
  <2>3. Unshown
    BY <2>1, <2>2 DEF Unshown, exposeVars, ContentOf
  <2> QED
    BY <2>3, ShownKept
<1>6. CASE Finish
  <2>1. /\ step = "finish" /\ step' = "idle"
        /\ UNCHANGED <<gens, current, edits, exposeVars>>
    BY <1>6 DEF Finish, Exit
  <2>2. Shows(current)
    BY <2>1 DEF Shown, CommitSteps, Activated, ApplySteps
  <2> QED
    BY <2>1, <2>2 DEF exposeVars, Shown, Shows, LedgerIs, LinksAre, ContentOf, CommitSteps,
                      UndoneSteps
<1> QED
  BY <1>1, <1>2, <1>3, <1>4, <1>5, <1>6 DEF Apply

(* A revert shows the generation it went back to once its Sync ended *)
LEMMA ShownRevert ==
    ASSUME ChangeInv, ExposeInv, ShownInv, Revert
    PROVE  Shown'
<1> USE DEF ChangeInv, ShownInv
<1>1. CASE UndoList \/ UndoLock \/ UndoActivate \/ UndoSyncBegins
  <2>1. /\ InFlight /\ UNCHANGED pend
        /\ step' \in {"undoLock", "undoActivate", "undoSync"}
    BY <1>1 DEF UndoList, UndoLock, UndoActivate, UndoSyncBegins, changeVars, Goto, Undoing,
                UndoSteps, SameChange
  <2> QED
    BY <2>1, ShownLater DEF CommitSteps, UndoneSteps, InFlight
<1>2. CASE UndoSyncEnds
  <2>1. /\ step = "undoSync" /\ step' = "undoDiscard" /\ End
        /\ UNCHANGED <<gens, pend, p, edits>>
    BY <1>2 DEF UndoSyncEnds, Goto, diskVars
  <2>2. GoalIs(p.from)
    BY <2>1 DEF Goals, End
  <2>3. Shows(p.from)'
    <3>1. LedgerIs(p.from)' /\ LinksAre(p.from)'
      BY <2>1, <2>2, EndShows DEF LedgerIs, LinksAre, ContentOf, GoalIs
    <3> QED
      BY <3>1 DEF Shows
  <2> QED
    BY <2>1, <2>3 DEF Shown, Undoing, UndoSteps, SameChange, InFlight, CommitSteps
<1>3. CASE UndoDiscard
  <2>1. /\ step = "undoDiscard" /\ step' = "undoFinish" /\ SameChange
        /\ UNCHANGED <<pend, p, edits, exposeVars>>
    BY <1>3 DEF UndoDiscard, Goto, Undoing, UndoSteps
  <2>2. /\ p.staged => p.to # p.from
        /\ p.from \in Existing \cup {0}
    BY <2>1 DEF StagedApart, SameChange, GenerationsKept
  <2>3. ContentOf(p.from)' = ContentOf(p.from)
    BY <1>3, <2>1, <2>2 DEF UndoDiscard, Discard, ChangeTypes, ContentOf, Existing
  <2>4. Unshown
    BY <2>1, <2>3 DEF Unshown, SameChange, InFlight, exposeVars, CommitSteps, UndoneSteps
  <2> QED
    BY <2>4, ShownKept
<1>4. CASE UndoFinish
  <2>1. /\ step = "undoFinish" /\ step' \in {"idle", "unadoptList"}
        /\ UNCHANGED <<gens, current, edits, exposeVars>>
    BY <1>4, ReturnType DEF UndoFinish
  <2>2. Shows(current)
    BY <2>1 DEF Shown, Undone, UndoneSteps
  <2> QED
    BY <2>1, <2>2 DEF exposeVars, Shown, Shows, LedgerIs, LinksAre, ContentOf, CommitSteps,
                      UndoneSteps
<1>5. CASE UnadoptList \/ UnadoptLock
  <2>1. Unshown
    BY <1>5 DEF UnadoptList, UnadoptLock, Goto, Exit, Unshown, exposeVars, InFlight, ContentOf,
                CommitSteps, UndoneSteps
  <2> QED
    BY <2>1, ShownKept
<1> QED
  BY <1>1, <1>2, <1>3, <1>4, <1>5 DEF Revert

(* A failure ends no change but one that finished *)
LEMMA ShownFailure ==
    ASSUME ChangeInv, ShownInv, Failure \/ Setback
    PROVE  Shown'
<1> USE DEF ChangeInv, ShownInv
<1>1. ASSUME step \in {"sync", "undoSync"}, UNCHANGED pend,
             step' \notin CommitSteps \cup UndoneSteps
      PROVE  Shown'
  BY <1>1, ShownLater
     DEF Applying, ApplySteps, Undoing, UndoSteps, SameChange, InFlight
<1>2. ASSUME SyncFailed, step \in {"sync", "undoSync"} PROVE Shown'
  BY <1>1, <1>2, ReturnType DEF SyncFailed, Goto, diskVars, CommitSteps, UndoneSteps
<1>3. ASSUME UNCHANGED <<diskVars, edits, exposeVars>>,
             step' \notin CommitSteps \cup UndoneSteps
      PROVE  Shown'
  <2>1. Unshown
    BY <1>3 DEF diskVars, exposeVars, Unshown, InFlight, ContentOf
  <2> QED
    BY <2>1, ShownKept
<1>4. CASE StepFails
  <2>1. step' \in {"idle", "unadoptList", "undoList"}
    BY <1>4, ReturnType DEF StepFails, OnFailure, Goto
  <2> QED
    BY <1>3, <1>4, <2>1 DEF StepFails, CommitSteps, UndoneSteps
<1>5. CASE AdoptFails \/ StartCommitFails
  BY <1>3, <1>5 DEF AdoptFails, StartCommitFails, Exit, CommitSteps, UndoneSteps
<1>6. CASE FinishFails
  <2>1. /\ step = "finish" /\ step' = "idle"
        /\ UNCHANGED <<gens, current, edits, exposeVars>>
    BY <1>6 DEF FinishFails, Exit
  <2>2. Shows(current)
    BY <2>1 DEF Shown, CommitSteps, Activated, ApplySteps
  <2> QED
    BY <2>1, <2>2 DEF exposeVars, Shown, Shows, LedgerIs, LinksAre, ContentOf, CommitSteps,
                      UndoneSteps
<1>7. CASE SyncAborts \/ SyncRefused \/ SyncBlocked
  BY <1>2, <1>7 DEF SyncAborts, SyncRefused, SyncBlocked
<1>8. CASE PlanStops
  BY <1>3, <1>8 DEF PlanStops, Goto, CommitSteps, UndoneSteps
<1>9. CASE Crash
  <2>1. UNCHANGED <<diskVars, edits>> /\ step' = "idle"
    BY <1>9 DEF Crash, Exit
  <2>2. CASE sync = "off"
    BY <1>3, <1>9, <2>1, <2>2 DEF Crash, CommitSteps, UndoneSteps
  <2>3. CASE sync # "off"
    BY <1>1, <2>1, <2>3 DEF diskVars, SyncRuns, CommitSteps, UndoneSteps
  <2> QED
    BY <2>2, <2>3
<1> QED
  BY <1>4, <1>5, <1>6, <1>7, <1>8, <1>9 DEF Failure, Setback

(* Recovery, the user and the steps of a Sync *)
LEMMA ShownRest ==
    ASSUME ChangeInv, Shown, SyncItem \/ Recover \/ User \/ UNCHANGED vars
    PROVE  Shown'
<1> USE DEF ChangeInv
<1>1. CASE SyncItem
  <2>1. UNCHANGED changeVars /\ step \in {"sync", "undoSync"}
    BY <1>1 DEF SyncItem, SyncStep, RemoveItem, DropItem, RecordItem, PlaceItem, SyncRuns
  <2> QED
    BY <2>1, ShownLater DEF changeVars, Applying, ApplySteps, Undoing, UndoSteps, SameChange,
                            InFlight, CommitSteps, UndoneSteps
<1>2. CASE Recover
  <2>1. Unshown
    BY <1>2 DEF Recover, Unshown, InFlight, ContentOf, exposeVars, CommitSteps, UndoneSteps
  <2> QED
    BY <2>1, ShownKept
<1>3. CASE User
  <2>0. edits \in Nat
    BY BoundAssumption DEF ChangeTypes
  <2>1. /\ edits' # 0 /\ UNCHANGED <<gens, current, pend, step, chg, p, ledger>>
    BY <1>3, <2>0 DEF User, EditList, EditLock, EditTarget, Touch, diskVars, exposeVars
  <2>2. Unshown
    BY <2>1 DEF Unshown, InFlight, ContentOf
  <2> QED
    BY <2>2, ShownKept
<1>4. CASE UNCHANGED vars
  <2>1. Unshown
    BY <1>4 DEF vars, changeVars, exposeVars, Unshown, InFlight, ContentOf
  <2> QED
    BY <2>1, ShownKept
<1> QED
  BY <1>1, <1>2, <1>3, <1>4

(* From Activate to the end of the apply, "current" is the new generation *)
LEMMA ActivatedNext ==
    ASSUME ChangeInv, Activated, [ChangeNext]_vars
    PROVE  Activated'
<1> USE DEF ChangeInv
<1>1. CASE UNCHANGED vars \/ SyncItem \/ User
  BY <1>1 DEF vars, changeVars, SyncItem, User, EditList, EditLock, EditTarget, diskVars,
              Activated
<1>2. CASE Command
  <2>1. step' \notin ApplySteps
    BY <1>2, ReturnType
       DEF Command, Ready, AdoptList, AdoptLock, AddOrRemove, PinOnly, StageGeneration, SyncOrUpdate,
           InstallFails, Rollback, PruneGeneration, ApplySteps
  <2> QED
    BY <2>1 DEF Activated
<1>3. CASE Apply
  BY <1>3, ReturnType
     DEF Apply, Plan, DiscardStaged, Activate, SyncBegins, SyncEnds, StartCommit, CommitList,
         CommitLock, Finish, Exit, Goto, changeVars, diskVars, Activated, ApplySteps, ChangeTypes,
         ChangeRec
<1>4. CASE Revert \/ Recover
  <2>1. step' \notin ApplySteps
    BY <1>4, ReturnType
       DEF Revert, UndoList, UndoLock, UndoActivate, UndoSyncBegins, UndoSyncEnds, UndoDiscard,
           UndoFinish, UnadoptList, UnadoptLock, Recover, Goto, Exit, changeVars, ApplySteps
  <2> QED
    BY <2>1 DEF Activated
<1>5. CASE Setback \/ Failure
  <2>1. step' \notin ApplySteps
    BY <1>5, ReturnType
       DEF Setback, PlanStops, SyncRefused, SyncBlocked, Failure, StepFails, OnFailure, AdoptFails,
           StartCommitFails, FinishFails, SyncAborts, SyncFailed, Crash, Goto, Exit, ApplySteps
  <2> QED
    BY <2>1 DEF Activated
<1> QED
  BY <1>1, <1>2, <1>3, <1>4, <1>5 DEF ChangeNext

(* Sync works towards the generation that apply or revert activated *)
LEMMA GoalsNext ==
    ASSUME ChangeInv, ExposeInv, Goals, [ChangeNext]_vars
    PROVE  Goals'
<1>1. ASSUME NEW g, NEW e, Begin(Wanted(g, e)), UNCHANGED gens
      PROVE  \A t \in Targets \ System : goal'[t] = (ContentOf(g)')[t]
  BY <1>1 DEF Begin, Wanted, KeepSystem, ContentOf
<1>2. CASE SyncBegins
  <2>1. Begin(Wanted(chg.to, p.elevated)) /\ UNCHANGED changeVars /\ step = "sync"
    BY <1>2 DEF SyncBegins
  <2> QED
    BY <1>1, <2>1 DEF changeVars, Goals, GoalIs, ContentOf
<1>3. CASE UndoSyncBegins
  <2>1. Begin(Wanted(p.from, p.elevated)) /\ UNCHANGED changeVars /\ step = "undoSync"
    BY <1>3 DEF UndoSyncBegins
  <2> QED
    BY <1>1, <2>1 DEF changeVars, Goals, GoalIs, ContentOf
<1>4. CASE SyncItem
  BY <1>4 DEF SyncItem, SyncStep, RemoveItem, DropItem, RecordItem, PlaceItem, changeVars, Goals,
              GoalIs, ContentOf
<1>5. CASE User
  BY <1>5 DEF User, EditList, EditLock, EditTarget, Touch, diskVars, exposeVars, Goals, GoalIs,
              ContentOf
<1>6. CASE UNCHANGED vars
  BY <1>6 DEF vars, changeVars, exposeVars, Goals, GoalIs, ContentOf
<1>7. ASSUME sync' = "off" PROVE Goals'
  BY <1>7 DEF Goals
<1>8. step \notin {"sync", "undoSync"} => sync = "off"
  BY DEF ChangeInv, SyncRuns
<1>9. CASE Command
  BY <1>7, <1>8, <1>9 DEF Command, Ready, AdoptList, AdoptLock, AddOrRemove, PinOnly, StageGeneration,
                    SyncOrUpdate, InstallFails, Rollback, PruneGeneration, exposeVars
<1>10. CASE Apply
  BY <1>2, <1>7, <1>8, <1>10 DEF Apply, Plan, DiscardStaged, Activate, SyncEnds, End, Forget,
                    StartCommit, CommitList, CommitLock, Finish, exposeVars
<1>11. CASE Revert
  BY <1>3, <1>7, <1>8, <1>11 DEF Revert, UndoList, UndoLock, UndoActivate, UndoSyncEnds, End, Forget,
                    UndoDiscard, UndoFinish, UnadoptList, UnadoptLock, exposeVars
<1>12. CASE Recover \/ Setback
  BY <1>7, <1>8, <1>12 DEF Recover, Setback, PlanStops, SyncRefused, Refused, SyncBlocked, Blocked,
                     Forget, exposeVars
<1>13. CASE Failure
  BY <1>7, <1>8, <1>13 DEF Failure, StepFails, OnFailure, AdoptFails, StartCommitFails, FinishFails,
                     SyncAborts, Crash, Abort, Forget, exposeVars
<1> QED
  BY <1>2, <1>3, <1>4, <1>5, <1>6, <1>9, <1>10, <1>11, <1>12, <1>13 DEF ChangeNext, Apply, Revert

(* ShownInv holds throughout *)
LEMMA ShownNext == ChangeInv /\ ExposeInv /\ ShownInv /\ [ChangeNext]_vars => ShownInv'
<1> SUFFICES ASSUME ChangeInv, ExposeInv, ShownInv, [ChangeNext]_vars PROVE ShownInv'
  OBVIOUS
<1>1. Shown'
  BY ShownCommand, ShownApply, ShownRevert, ShownFailure, ShownRest DEF ShownInv, ChangeNext
<1> QED
  BY <1>1, ActivatedNext, GoalsNext, SyncNext DEF ShownInv

(* A machine where oku never ran shows the empty generation *)
LEMMA ShownInit == ChangeInit => ShownInv
<1> SUFFICES ASSUME ChangeInit PROVE ShownInv
  OBVIOUS
<1>1. Shown
  BY DEF ChangeInit, Init, Shown, Shows, LedgerIs, LinksAre, ContentOf, Empty, NoItems, NoItem,
         Holds, CommitSteps, UndoneSteps
<1> QED
  BY <1>1 DEF ChangeInit, Init, ShownInv, Activated, ApplySteps, Goals, SyncInv, MemoryIs,
              LinksPlaced, LinkPlaced, Held, NoItems, NoItem

(* What Expose proves of a Sync holds within a change *)
LEMMA ExposeHolds == ChangeSpec => []ExposeInv
<1>1. ChangeInit => ExposeInv
  BY InitInv DEF ChangeInit
<1>2. ChangeInv /\ ExposeInv /\ [ChangeNext]_vars => ExposeInv'
  BY ExposeStep, NextInv DEF ExposeInv
<1> QED
  BY <1>1, <1>2, ChangeInvariant, PTL DEF ChangeSpec

(* Whatever fails or dies, the machine shows the generation that the last  *)
(* Sync to end was for.                                                    *)
THEOREM ShownInvariant == ChangeSpec => []ShownInv
<1> QED
  BY ShownInit, ShownNext, ChangeInvariant, ExposeHolds, PTL DEF ChangeSpec

(* While no change is under way, the ledger and the links are those of the *)
(* active generation, whatever failed, died and was reverted before, for   *)
(* any targets, generations, failures and edits.                           *)
THEOREM ExposedMatches == ChangeSpec => [](LedgerMatches /\ LinksMatch)
<1>1. ShownInv => LedgerMatches /\ LinksMatch
  BY DEF ShownInv, Shown, Shows, LedgerIs, LinksAre, LedgerMatches, LinksMatch, Quiet, InFlight
<1> QED
  BY <1>1, ShownInvariant, PTL

-----------------------------------------------------------------------------
(* The lists, on a machine where no sync <list-ref> adopts any.            *)

NoAdopt == "adopt" \notin Commands

NoPin == "pin" \notin Commands

NotAdopting == step \notin {"adoptLock", "stage", "unadoptList", "unadoptLock"} /\ ~chg.adopted

(* pending.toml has the lists as the change found them, and until it says  *)
(* that oku writes them only the user does.                                *)
ListsFound ==
    InFlight =>
        /\ pend.started = pend.before
        /\ edits = 0 /\ ~pend.committing => list = pend.before.list /\ lock = pend.before.lock

(* The process has what pending.toml has, and knows of every commit that   *)
(* pending.toml knows of.                                                  *)
ListsKnown ==
    step \in ApplySteps \cup UndoSteps =>
        /\ p.before = pend.before
        /\ p.started = pend.started
        /\ pend.committing => p.committing

Announced == step \in {"commitList", "commitLock", "finish"} => pend.committing

ListsUndone ==
    edits = 0 =>
        /\ step \in UndoSteps \ {"undoList"} => list = pend.before.list
        /\ step \in UndoSteps \ {"undoList", "undoLock"} => lock = pend.before.lock

(* The lock that a change will write is the one of its generation, unless  *)
(* it keeps the generation and pins a package.                             *)
LockFits(g) == chg.lock = ContentOf(chg.to) \/ (~NoPin /\ chg.to = g)

LockChosen ==
    /\ step \in {"plan", "discard"} => LockFits(current)
    /\ step \in ApplySteps => LockFits(pend.from)

LockWritten == step = "finish" /\ edits = 0 => lock = chg.lock

LockPins ==
    NoPin /\ edits = 0 =>
        /\ ~InFlight /\ current # 0 => lock = ContentOf(current)
        /\ InFlight /\ pend.from # 0 => pend.before.lock = ContentOf(pend.from)

ListsInv ==
    /\ NotAdopting
    /\ ListsFound
    /\ ListsKnown
    /\ Announced
    /\ ListsUndone
    /\ LockChosen
    /\ LockWritten
    /\ LockPins

(* No change has written a list on a machine where oku never ran *)
LEMMA ListsInit == ChangeInit => ListsInv
BY DEF ChangeInit, NoChange, ListsInv, NotAdopting, ListsFound, ListsKnown, Announced, ListsUndone,
       LockChosen, LockWritten, LockPins, InFlight, ApplySteps, UndoSteps

(* A command that adopted nothing ends where it is *)
LEMMA ReturnExits ==
    ASSUME NotAdopting, Return
    PROVE  Exit
BY DEF NotAdopting, Return

(* A process that ended, with the change still in pending.toml or none *)
LEMMA ListsLeft ==
    ASSUME ListsInv, Exit, UNCHANGED <<gens, current, list, lock, pend, edits>>
    PROVE  ListsInv'
BY DEF Exit, NoChange, ListsInv, NotAdopting, ListsFound, ListsKnown, Announced, ListsUndone,
       LockChosen, LockWritten, LockPins, InFlight, ApplySteps, UndoSteps, ContentOf

(* The commands, up to the plan of their change *)
LEMMA ListsCommand ==
    ASSUME NoAdopt, ChangeInv, ListsInv, Command
    PROVE  ListsInv'
<1> USE DEF ChangeInv, ListsInv
<1>1. /\ pend = NoPending /\ step = "idle" /\ ~chg.adopted
      /\ UNCHANGED <<list, lock, pend, current, edits>>
  BY DEF NoAdopt, NotAdopting, Command, Ready, AdoptList, AdoptLock, AddOrRemove, PinOnly,
         StageGeneration, SyncOrUpdate, InstallFails, Rollback, PruneGeneration, diskVars
<1>2. ASSUME ContentOf(current)' = ContentOf(current), ~chg'.adopted,
             step' = "plan" => LockFits(current)', step' \in {"plan", "idle"}
      PROVE  ListsInv'
  BY <1>1, <1>2 DEF NotAdopting, ListsFound, ListsKnown, Announced, ListsUndone,
       LockChosen, LockWritten, LockPins, InFlight, ApplySteps, UndoSteps
<1>3. ASSUME NEW c \in Contents, NEW w \in BOOLEAN, StageGeneration(c, w) PROVE ListsInv'
  <2>1. PICK n \in Numbers :
            /\ IsNext(n)
            /\ gens' = [gens EXCEPT ![n] = c]
            /\ chg' = [chg EXCEPT !.to = n, !.staged = TRUE, !.writes = w, !.lock = c]
    BY <1>3 DEF StageGeneration
  <2>2. n # current /\ n # 0
    BY <2>1, MaxGenAssumption DEF IsNext, GenerationsKept, Numbers, Existing
  <2>3. ContentOf(current)' = ContentOf(current)
    BY <1>1, <2>1, <2>2 DEF ContentOf, ChangeTypes
  <2>4. chg'.to = n /\ chg'.lock = c /\ ~chg'.adopted
    BY <1>1, <2>1 DEF ChangeTypes, ChangeRec
  <2>5. LockFits(current)'
    BY <2>1, <2>2, <2>4 DEF LockFits, ContentOf, ChangeTypes
  <2> QED
    BY <1>2, <1>3, <2>3, <2>4, <2>5 DEF StageGeneration
<1>4. ASSUME NEW c \in Contents, NEW w \in BOOLEAN, UNCHANGED diskVars, step' = "plan",
             chg' = [chg EXCEPT !.to = current, !.staged = FALSE, !.writes = w, !.lock = c],
             c = ContentOf(current) \/ ~NoPin
      PROVE  ListsInv'
  <2>1. chg'.to = current /\ chg'.lock = c /\ ~chg'.adopted
    BY <1>1, <1>4 DEF ChangeTypes, ChangeRec
  <2> QED
    BY <1>1, <1>2, <1>4, <2>1 DEF LockFits, ContentOf, diskVars
<1>5. ASSUME NEW c \in Contents, AddOrRemove(c) \/ PinOnly(c) PROVE ListsInv'
  BY <1>3, <1>4, <1>5 DEF AddOrRemove, PinOnly, NoPin
<1>6. ASSUME NEW c \in Contents, NEW w \in BOOLEAN, SyncOrUpdate(c, w) PROVE ListsInv'
  BY <1>3, <1>4, <1>6 DEF SyncOrUpdate
<1>7. ASSUME NEW g \in Numbers, Rollback(g) PROVE ListsInv'
  <2>1. chg'.to = g /\ chg'.lock = gens[g] /\ ~chg'.adopted /\ g # 0
    BY <1>7, MaxGenAssumption DEF Rollback, NoChange, Numbers
  <2> QED
    BY <1>2, <1>7, <2>1 DEF Rollback, LockFits, ContentOf, diskVars
<1>8. ASSUME NEW g \in Numbers, PruneGeneration(g) PROVE ListsInv'
  <2>1. ContentOf(current)' = ContentOf(current)
    BY <1>8 DEF PruneGeneration, ContentOf, ChangeTypes
  <2> QED
    BY <1>1, <1>2, <1>8, <2>1 DEF PruneGeneration
<1> QED
  BY <1>1, <1>5, <1>6, <1>7, <1>8 DEF NoAdopt, Command, AdoptList, AdoptLock, InstallFails

(* apply.  The commit writes the lists after pending.toml says so, and     *)
(* leaves the lock of the generation it activated.                         *)
LEMMA ListsApply ==
    ASSUME ChangeInv, Activated, ListsInv, Apply
    PROVE  ListsInv'
<1> USE DEF ChangeInv, ListsInv
<1>1. ASSUME NEW agree \in BOOLEAN, Plan(agree) PROVE ListsInv'
  <2>1. /\ step = "plan" /\ step' = "activate" /\ pend' = p' /\ pend = NoPending /\ ~chg.adopted
        /\ UNCHANGED <<gens, current, list, lock, chg, edits>>
    BY <1>1 DEF Plan, Planning, NotAdopting
  <2>2. /\ pend'.from = current /\ pend'.before = pend'.started
        /\ pend'.before.list = list /\ pend'.before.lock = lock
    BY <1>1, <2>1 DEF Plan
  <2>3. LockFits(pend.from)'
    BY <2>1, <2>2 DEF LockChosen, LockFits, ContentOf
  <2>4. LockPins'
    BY <2>1, <2>2 DEF LockPins, InFlight, ContentOf
  <2> QED
    BY <2>1, <2>2, <2>3, <2>4 DEF NotAdopting, ListsFound, ListsKnown, Announced, ListsUndone,
         LockChosen, LockWritten, ApplySteps, UndoSteps
<1>2. CASE DiscardStaged
  <2>1. /\ Exit /\ step = "discard"
        /\ UNCHANGED <<current, list, lock, pend, edits>>
    BY <1>2, ReturnExits DEF DiscardStaged
  <2>2. ContentOf(current)' = ContentOf(current) /\ pend = NoPending
    BY <1>2 DEF DiscardStaged, Planned, Planning, Discard, ChangeTypes, ContentOf, GenerationsKept,
                Existing
  <2> QED
    BY <2>1, <2>2 DEF Exit, NoChange, NotAdopting, ListsFound, ListsKnown, Announced, ListsUndone,
         LockChosen, LockWritten, LockPins, InFlight, ApplySteps, UndoSteps
<1>3. CASE Activate
  BY <1>3 DEF Activate, Goto, NotAdopting, ListsFound, ListsKnown, Announced, ListsUndone,
         LockChosen, LockFits, LockWritten, LockPins, InFlight, Applying, SameChange, ApplySteps,
         UndoSteps, ContentOf
<1>4. CASE SyncBegins
  BY <1>4 DEF SyncBegins, changeVars, NotAdopting, ListsFound, ListsKnown, Announced, ListsUndone,
         LockChosen, LockFits, LockWritten, LockPins, InFlight, ContentOf
<1>5. CASE SyncEnds
  BY <1>5 DEF SyncEnds, Goto, diskVars, NotAdopting, ListsFound, ListsKnown, Announced, ListsUndone,
         LockChosen, LockFits, LockWritten, LockPins, InFlight, ApplySteps, UndoSteps, ContentOf
<1>6. CASE StartCommit
  <2>1. /\ step = "committing" /\ step' = "commitList" /\ pend' = p'
        /\ p' = [p EXCEPT !.committing = TRUE] /\ SameChange
        /\ UNCHANGED <<gens, current, list, lock, chg, edits>>
    BY <1>6 DEF StartCommit, Applying, ApplySteps
  <2>2. /\ pend'.from = pend.from /\ pend'.before = pend.before /\ pend'.started = pend.started
        /\ pend'.committing /\ p'.committing /\ InFlight'
    BY <2>1, PendingAssumption DEF SameChange, InFlight, Pending, ListsKnown, ApplySteps
  <2>3. LockFits(pend.from)'
    BY <2>1, <2>2 DEF LockChosen, LockFits, ContentOf, ApplySteps
  <2>4. LockPins'
    BY <2>1, <2>2 DEF LockPins, SameChange, InFlight, ContentOf
  <2>5. ListsFound'
    BY <2>1, <2>2 DEF ListsFound, SameChange, InFlight
  <2> QED
    BY <2>1, <2>2, <2>3, <2>4, <2>5 DEF NotAdopting, ListsKnown, Announced, ListsUndone,
         LockChosen, LockWritten, ApplySteps, UndoSteps
<1>7. CASE CommitList
  <2>1. /\ step = "commitList" /\ step' = "commitLock" /\ pend.committing /\ InFlight
        /\ UNCHANGED <<gens, current, lock, pend, chg, p, edits>>
    BY <1>7 DEF CommitList, Goto, Announced, Applying, ApplySteps, SameChange
  <2> QED
    BY <2>1 DEF NotAdopting, ListsFound, ListsKnown, Announced, ListsUndone,
         LockChosen, LockFits, LockWritten, LockPins, InFlight, ApplySteps, UndoSteps, ContentOf
<1>8. CASE CommitLock
  <2>1. /\ step = "commitLock" /\ step' = "finish" /\ pend.committing /\ InFlight
        /\ lock' = chg.lock
        /\ UNCHANGED <<gens, current, list, pend, p, edits>>
    BY <1>8 DEF CommitLock, Announced, Applying, ApplySteps, SameChange
  <2>2. chg'.to = chg.to /\ chg'.lock = chg.lock /\ ~chg'.adopted
    BY <1>8 DEF CommitLock, ChangeTypes, ChangeRec
  <2>3. LockFits(pend.from)'
    BY <2>1, <2>2 DEF LockChosen, LockFits, ContentOf, ApplySteps
  <2> QED
    BY <2>1, <2>2, <2>3 DEF NotAdopting, ListsFound, ListsKnown, Announced, ListsUndone,
         LockChosen, LockWritten, LockPins, InFlight, ApplySteps, UndoSteps, ContentOf
<1>9. CASE Finish
  <2>1. /\ step = "finish" /\ Exit /\ pend' = NoPending
        /\ UNCHANGED <<gens, current, list, lock, edits>>
    BY <1>9 DEF Finish
  <2>2. current = chg.to /\ (edits = 0 => lock = chg.lock) /\ (NoPin => chg.lock = ContentOf(chg.to))
    BY <2>1 DEF Activated, ApplySteps, LockWritten, LockChosen, LockFits
  <2>3. LockPins'
    BY <2>1, <2>2 DEF LockPins, InFlight, ContentOf
  <2> QED
    BY <2>1, <2>3 DEF Exit, NoChange, NotAdopting, ListsFound, ListsKnown, Announced, ListsUndone,
         LockChosen, LockWritten, InFlight, ApplySteps, UndoSteps
<1> QED
  BY <1>1, <1>2, <1>3, <1>4, <1>5, <1>6, <1>7, <1>8, <1>9 DEF Apply

(* A revert puts back the lists that the change found *)
LEMMA ListsRevert ==
    ASSUME ChangeInv, ListsInv, Revert \/ Recover
    PROVE  ListsInv'
<1> USE DEF ChangeInv, ListsInv
<1>1. ASSUME step \in {"undoList", "undoLock"}, edits = 0
      PROVE  /\ Restored(list, p.before.list, p.started.list) = pend.before.list
             /\ Restored(lock, p.before.lock, p.started.lock) = pend.before.lock
  <2>1. InFlight /\ p.before = pend.before /\ p.started = pend.before
        /\ (~p.committing => ~pend.committing)
    BY <1>1 DEF Undoing, UndoSteps, SameChange, ListsKnown, ListsFound
  <2> QED
    BY <1>1, <2>1 DEF Restored, ListsFound
<1>2. CASE UndoList
  <2>1. /\ step = "undoList" /\ step' = "undoLock" /\ InFlight
        /\ list' = Restored(list, p.before.list, p.started.list)
        /\ UNCHANGED <<gens, current, lock, pend, chg, p, edits>>
    BY <1>2 DEF UndoList, Goto, Undoing, UndoSteps, SameChange
  <2>2. edits = 0 => list' = pend.before.list
    BY <1>1, <2>1
  <2> QED
    BY <2>1, <2>2 DEF NotAdopting, ListsFound, ListsKnown, Announced, ListsUndone,
         LockChosen, LockWritten, LockPins, InFlight, ApplySteps, UndoSteps, ContentOf
<1>3. CASE UndoLock
  <2>1. /\ step = "undoLock" /\ step' = "undoActivate" /\ InFlight
        /\ lock' = Restored(lock, p.before.lock, p.started.lock)
        /\ UNCHANGED <<gens, current, list, pend, chg, p, edits>>
    BY <1>3 DEF UndoLock, Goto, Undoing, UndoSteps, SameChange
  <2>2. edits = 0 => lock' = pend.before.lock
    BY <1>1, <2>1
  <2> QED
    BY <2>1, <2>2 DEF NotAdopting, ListsFound, ListsKnown, Announced, ListsUndone,
         LockChosen, LockWritten, LockPins, InFlight, ApplySteps, UndoSteps, ContentOf
<1>4. CASE UndoActivate \/ UndoSyncBegins \/ UndoSyncEnds
  <2>1. /\ step \in {"undoActivate", "undoSync"} /\ step' \in {"undoSync", "undoDiscard"} /\ InFlight
        /\ UNCHANGED <<gens, list, lock, pend, chg, p, edits>>
    BY <1>4 DEF UndoActivate, UndoSyncBegins, UndoSyncEnds, Goto, changeVars, diskVars, Undoing,
                UndoSteps, SameChange
  <2> QED
    BY <2>1 DEF NotAdopting, ListsFound, ListsKnown, Announced, ListsUndone,
         LockChosen, LockWritten, LockPins, InFlight, ApplySteps, UndoSteps, ContentOf
<1>5. CASE UndoDiscard
  <2>1. /\ step = "undoDiscard" /\ step' = "undoFinish" /\ SameChange
        /\ UNCHANGED <<current, list, lock, pend, chg, p, edits>>
    BY <1>5 DEF UndoDiscard, Goto, Undoing, UndoSteps
  <2>2. /\ p.staged => p.to # p.from
        /\ p.from \in Existing \cup {0} /\ p.from = pend.from
    BY <2>1 DEF StagedApart, SameChange, GenerationsKept
  <2>3. ContentOf(pend.from)' = ContentOf(pend.from)
    BY <1>5, <2>1, <2>2 DEF UndoDiscard, Discard, ChangeTypes, ContentOf, Existing
  <2> QED
    BY <2>1, <2>3 DEF NotAdopting, ListsFound, ListsKnown, Announced, ListsUndone, SameChange,
         LockChosen, LockWritten, LockPins, InFlight, ApplySteps, UndoSteps
<1>6. CASE UndoFinish
  <2>1. /\ step = "undoFinish" /\ Exit /\ pend' = NoPending /\ SameChange
        /\ UNCHANGED <<gens, current, list, lock, edits>>
    BY <1>6, ReturnExits DEF UndoFinish, Undoing, UndoSteps
  <2>2. current = pend.from /\ (edits = 0 => lock = pend.before.lock)
    BY <2>1 DEF Undone, SameChange, ListsUndone, UndoSteps
  <2>3. LockPins'
    BY <2>1, <2>2 DEF LockPins, InFlight, ContentOf, SameChange
  <2> QED
    BY <2>1, <2>3 DEF Exit, NoChange, NotAdopting, ListsFound, ListsKnown, Announced, ListsUndone,
         LockChosen, LockWritten, InFlight, ApplySteps, UndoSteps
<1>7. CASE UnadoptList \/ UnadoptLock
  BY <1>7 DEF UnadoptList, UnadoptLock, NotAdopting
<1>8. CASE Recover
  BY <1>8 DEF Recover, NotAdopting, ListsFound, ListsKnown, Announced, ListsUndone,
         LockChosen, LockWritten, LockPins, InFlight, ApplySteps, UndoSteps, ContentOf
<1> QED
  BY <1>2, <1>3, <1>4, <1>5, <1>6, <1>7, <1>8 DEF Revert

(* What fails turns back, and an edit of the user's counts *)
LEMMA ListsRest ==
    ASSUME ChangeInv, Activated, ListsInv,
           SyncItem \/ Setback \/ Failure \/ User \/ UNCHANGED vars
    PROVE  ListsInv'
<1> USE DEF ChangeInv, ListsInv
<1>1. ASSUME UNCHANGED <<diskVars, edits, chg>>, step \in ApplySteps, step' = "undoList",
             p' = p \/ p' = [p EXCEPT !.committing = TRUE]
      PROVE  ListsInv'
  <2>1. p'.before = p.before /\ p'.started = p.started /\ (p.committing => p'.committing)
    BY <1>1 DEF Applying, SameChange, Pending
  <2> QED
    BY <1>1, <2>1 DEF diskVars, NotAdopting, ListsFound, ListsKnown, Announced, ListsUndone,
         LockChosen, LockWritten, LockPins, InFlight, ApplySteps, UndoSteps, ContentOf
<1>2. ASSUME UNCHANGED <<diskVars, edits>>, Exit \/ Return PROVE ListsInv'
  BY <1>2, ReturnExits, ListsLeft DEF diskVars
<1>3. CASE PlanStops
  BY <1>3 DEF PlanStops, Goto, diskVars, NotAdopting, ListsFound, ListsKnown, Announced, ListsUndone,
         LockChosen, LockFits, LockWritten, LockPins, InFlight, ApplySteps, UndoSteps, ContentOf
<1>4. ASSUME SyncFailed, step \in {"sync", "undoSync"} PROVE ListsInv'
  BY <1>1, <1>2, <1>4 DEF SyncFailed, Goto, ApplySteps
<1>5. CASE SyncRefused \/ SyncBlocked \/ SyncAborts
  BY <1>4, <1>5 DEF SyncRefused, SyncBlocked, SyncAborts
<1>6. CASE StepFails
  <2>1. /\ step \in DOMAIN OnFailure
        /\ OnFailure[step] = "return" \/ (OnFailure[step] = "undoList" /\ step \in ApplySteps)
    BY <1>6 DEF StepFails, OnFailure, ApplySteps
  <2> QED
    BY <1>1, <1>2, <1>6, <2>1 DEF StepFails, Goto
<1>7. CASE StartCommitFails
  BY <1>1, <1>7 DEF StartCommitFails, ApplySteps
<1>8. CASE AdoptFails \/ Crash
  BY <1>2, <1>8 DEF AdoptFails, Crash
<1>9. CASE FinishFails
  <2>1. /\ step = "finish" /\ Exit
        /\ UNCHANGED <<gens, current, list, lock, edits>>
        /\ pend' \in {pend, [p EXCEPT !.done = TRUE]} /\ p \in Pending
    BY <1>9 DEF FinishFails, Applying, ApplySteps, SameChange
  <2>2. CASE pend' = pend
    BY <1>2, <2>1, <2>2 DEF diskVars
  <2>3. CASE pend' = [p EXCEPT !.done = TRUE]
    <3>1. ~InFlight'
      BY <2>1, <2>3 DEF InFlight, Pending
    <3>2. current = chg.to /\ (edits = 0 => lock = chg.lock) /\ (NoPin => chg.lock = ContentOf(chg.to))
      BY <2>1 DEF Activated, ApplySteps, LockWritten, LockChosen, LockFits
    <3>3. LockPins'
      BY <2>1, <3>1, <3>2 DEF LockPins, ContentOf
    <3> QED
      BY <2>1, <3>1, <3>3 DEF Exit, NoChange, NotAdopting, ListsFound, ListsKnown, Announced,
           ListsUndone, LockChosen, LockWritten, ApplySteps, UndoSteps
  <2> QED
    BY <2>1, <2>2, <2>3
<1>10. CASE User
  <2>0. edits \in Nat
    BY BoundAssumption DEF ChangeTypes
  <2>1. edits' # 0 /\ UNCHANGED <<gens, current, pend, step, chg, p>>
    BY <1>10, <2>0 DEF User, EditList, EditLock, EditTarget, diskVars
  <2> QED
    BY <2>1 DEF NotAdopting, ListsFound, ListsKnown, Announced, ListsUndone,
         LockChosen, LockFits, LockWritten, LockPins, InFlight, ContentOf
<1>11. CASE SyncItem \/ UNCHANGED vars
  BY <1>11 DEF SyncItem, vars, changeVars, NotAdopting, ListsFound, ListsKnown, Announced, ListsUndone,
         LockChosen, LockFits, LockWritten, LockPins, InFlight, ContentOf
<1> QED
  BY <1>3, <1>5, <1>6, <1>7, <1>8, <1>9, <1>10, <1>11 DEF Setback, Failure

(* ListsInv holds throughout *)
LEMMA ListsNext ==
    NoAdopt /\ ChangeInv /\ Activated /\ ListsInv /\ [ChangeNext]_vars => ListsInv'
BY ListsCommand, ListsApply, ListsRevert, ListsRest DEF ChangeNext

(* In every reachable state pending.toml has the lists to go back to, and  *)
(* the lock is the one of the active generation, unless the user edits.    *)
THEOREM ListsInvariant == ChangeSpec => [](NoAdopt => ListsInv)
<1>1. ChangeInit => (NoAdopt => ListsInv)
  BY ListsInit
<1>2. /\ ChangeInv /\ ShownInv /\ (NoAdopt => ListsInv) /\ [ChangeNext]_vars
      => (NoAdopt => ListsInv)'
  BY ListsNext DEF ShownInv, NoAdopt
<1> QED
  BY <1>1, <1>2, ChangeInvariant, ShownInvariant, PTL DEF ChangeSpec

(* While no change is under way, the lock, the ledger and the links agree  *)
(* with the active generation: StateMatches for any lists, targets,        *)
(* generations, failures and edits.                                        *)
THEOREM StateAgrees == ChangeSpec => []StateMatches
<1>1. (NoAdopt => ListsInv) => LockMatches
  BY DEF ListsInv, LockPins, LockMatches, NoAdopt, NoPin, Quiet, InFlight
<1>2. LockMatches /\ LedgerMatches /\ LinksMatch => StateMatches
  BY DEF StateMatches
<1> QED
  BY <1>1, <1>2, ListsInvariant, ExposedMatches, PTL

-----------------------------------------------------------------------------
(* Change implements Switch.                                               *)

(* What Switch sees of a change *)
Asked == IF InFlight
         THEN IF pend.to \in Existing \cup {0} THEN ContentOf(pend.to) ELSE NoGen
         ELSE NoPending

Active == ContentOf(IF InFlight THEN pend.from ELSE current)

Toml == IF InFlight THEN pend.before.list
        ELSE IF Adopting THEN chg.before.list ELSE list

Locked == IF InFlight THEN pend.before.lock
          ELSE IF Adopting THEN chg.before.lock ELSE lock

Stutters == UNCHANGED <<Asked, Active, Toml, Locked, edits>>

(* A step that Switch does not see, while a change is in flight or not *)
LEMMA SeenNot ==
    ASSUME NotAdopting, NotAdopting', edits' = edits,
           \/ /\ InFlight /\ InFlight' /\ UNCHANGED gens
              /\ pend'.from = pend.from /\ pend'.to = pend.to /\ pend'.before = pend.before
           \/ /\ ~InFlight /\ ~InFlight' /\ UNCHANGED <<list, lock>>
              /\ ContentOf(current)' = ContentOf(current)
    PROVE  Stutters
BY DEF NotAdopting, Adopting, Stutters, Asked, Active, Toml, Locked, ContentOf, Existing

(* A change that finished is one Commit, however its end was written *)
LEMMA CommitSeen ==
    ASSUME ChangeInv, Activated, ListsInv, NotAdopting', step = "finish", ~InFlight',
           UNCHANGED <<gens, current, list, lock, edits>>
    PROVE  Abstract!Commit
<1>1. /\ InFlight /\ chg.to = pend.to /\ chg.to \in Existing \cup {0} /\ current = chg.to
      /\ edits \in Nat
  BY BoundAssumption
     DEF ChangeInv, ChangeTypes, Applying, SameChange, ApplySteps, Activated
<1>2. Asked = ContentOf(chg.to) /\ Asked' = NoPending
  BY <1>1 DEF Asked
<1>3. Asked \in Contents \cup {Empty}
  BY <1>1, <1>2 DEF ContentOf, Existing, ChangeInv, ChangeTypes
<1>4. Active' = ContentOf(chg.to)
  BY <1>1 DEF Active, ContentOf
<1>5. Locked' = lock
  BY DEF Locked, NotAdopting, Adopting
<1>6. lock = Asked \/ Asked = Active \/ edits > 0
  BY <1>1, <1>2 DEF ListsInv, LockWritten, LockChosen, LockFits, ApplySteps, Active
<1> QED
  BY <1>2, <1>3, <1>4, <1>5, <1>6 DEF Abstract!Commit, Asked, Active, Locked

(* pending.toml that a plan writes is one Ask *)
LEMMA AskSeen ==
    ASSUME ChangeInv, NotAdopting, NotAdopting', InFlight', NEW agree \in BOOLEAN, Plan(agree)
    PROVE  Abstract!Ask(ContentOf(chg.to)) /\ ContentOf(chg.to) \in Contents \cup {Empty}
<1>1. /\ ~InFlight /\ chg.to \in Existing \cup {0} /\ ~Adopting /\ ~Adopting'
      /\ UNCHANGED <<gens, list, lock, edits>>
  BY DEF ChangeInv, Planning, Planned, Plan, InFlight, NotAdopting, Adopting
<1>2. /\ pend'.to = chg.to /\ pend'.from = current
      /\ pend'.before.list = list /\ pend'.before.lock = lock
  BY DEF Plan, NotAdopting
<1>3. Asked = NoPending /\ Asked' = ContentOf(chg.to)
  BY <1>1, <1>2 DEF Asked, ContentOf, Existing
<1>4. UNCHANGED <<Active, Toml, Locked>>
  BY <1>1, <1>2 DEF Active, Toml, Locked, ContentOf
<1> QED
  BY <1>1, <1>3, <1>4 DEF Abstract!Ask, Asked, Active, Toml, Locked, ContentOf, Existing,
                          ChangeInv, ChangeTypes

(* A revert that ends is one Undo *)
LEMMA UndoSeen ==
    ASSUME ChangeInv, ListsInv, NotAdopting', UndoFinish
    PROVE  Abstract!Undo
<1>1. /\ SameChange /\ current = pend.from /\ ~InFlight'
      /\ UNCHANGED <<gens, current, list, lock, edits>>
  BY DEF ChangeInv, Undoing, UndoSteps, Undone, SameChange, UndoFinish, InFlight
<1>2. edits \in Nat /\ (edits = 0 => list = pend.before.list /\ lock = pend.before.lock)
  BY BoundAssumption DEF ChangeInv, ChangeTypes, ListsInv, ListsUndone, UndoSteps, UndoFinish
<1>3. Asked # NoPending /\ Asked' = NoPending
  <2>1. Asked \in Contents \cup {Empty, NoGen}
    BY <1>1 DEF SameChange, Asked, ContentOf, Existing, ChangeInv, ChangeTypes
  <2> QED
    BY <1>1, <2>1, NoneAssumption DEF Asked
<1>4. UNCHANGED Active
  BY <1>1 DEF SameChange, Active, ContentOf
<1>5. UNCHANGED <<Toml, Locked>> \/ edits > 0
  BY <1>1, <1>2 DEF SameChange, Toml, Locked, NotAdopting, Adopting
<1> QED
  BY <1>1, <1>3, <1>4, <1>5 DEF Abstract!Undo, Asked, Active, Toml, Locked

(* A revert that discards the staged generation withdraws the change, the  *)
(* first time it gets that far.                                            *)
LEMMA WithdrawSeen ==
    ASSUME ChangeInv, NotAdopting, NotAdopting', UndoDiscard
    PROVE  Abstract!Withdraw \/ Stutters
<1>1. /\ SameChange /\ UNCHANGED <<pend, edits, current>> /\ InFlight'
  BY DEF ChangeInv, Undoing, UndoSteps, SameChange, UndoDiscard, InFlight
<1>2. CASE ~p.staged \/ p.to \notin Numbers
  <2>1. UNCHANGED gens
    BY <1>2 DEF UndoDiscard, Discard
  <2> QED
    BY <1>1, <2>1, SeenNot DEF SameChange
<1>3. CASE p.staged /\ p.to \in Numbers
  <2>1. gens' = [gens EXCEPT ![pend.to] = NoGen] /\ pend.to # pend.from /\ pend.to \in Numbers
    BY <1>1, <1>3 DEF UndoDiscard, Discard, SameChange, ChangeInv, StagedApart
  <2>2. Asked' = NoGen
    <3>1. pend.to \notin Existing' /\ pend.to # 0
      BY <2>1, MaxGenAssumption DEF Existing, ChangeInv, ChangeTypes, Numbers
    <3> QED
      BY <1>1, <3>1 DEF Asked
  <2>3. UNCHANGED <<Active, Toml, Locked>>
    <3>1. pend.from \in Existing \cup {0}
      BY <1>1 DEF ChangeInv, GenerationsKept, SameChange
    <3>2. ContentOf(pend.from)' = ContentOf(pend.from)
      BY <1>1, <2>1, <3>1 DEF ContentOf, Existing, ChangeInv, ChangeTypes
    <3> QED
      BY <1>1, <3>2 DEF Active, Toml, Locked, SameChange
  <2>4. Asked \in Contents \cup {Empty, NoGen}
    BY <1>1 DEF SameChange, Asked, ContentOf, Existing, ChangeInv, ChangeTypes
  <2>5. CASE Asked = NoGen
    BY <1>1, <2>2, <2>3, <2>5 DEF Stutters
  <2>6. CASE Asked \in Contents \cup {Empty}
    BY <1>1, <2>2, <2>3, <2>6 DEF Abstract!Withdraw, Asked, Active, Toml, Locked
  <2> QED
    BY <2>4, <2>5, <2>6
<1> QED
  BY <1>2, <1>3

(* Every step of a change is a step of Switch or one that it does not see *)
LEMMA SwitchStep ==
    ASSUME ChangeInv, ChangeInv', Activated, ListsInv, ListsInv', [ChangeNext]_vars, NoAdopt
    PROVE  [Abstract!SwitchNext]_(Abstract!switchVars)
<1>0. NotAdopting /\ NotAdopting'
  BY DEF ListsInv
<1>1. ASSUME Stutters PROVE UNCHANGED Abstract!switchVars
  BY <1>1 DEF Stutters, Asked, Active, Toml, Locked, Abstract!switchVars
<1>2. ASSUME InFlight, UNCHANGED <<gens, pend, edits>> PROVE Stutters
  BY <1>0, <1>2, SeenNot DEF InFlight
<1>3. ASSUME UNCHANGED <<diskVars, edits>> PROVE Stutters
  BY <1>0, <1>3, SeenNot DEF InFlight, diskVars, ContentOf
<1>4. ASSUME pend = NoPending, UNCHANGED <<list, lock, pend, edits>>,
             ContentOf(current)' = ContentOf(current)
      PROVE  Stutters
  BY <1>0, <1>4, SeenNot DEF InFlight
<1>5. step \in ApplySteps \cup UndoSteps => InFlight
  BY DEF ChangeInv, Applying, Undoing, SameChange
<1>6. CASE UNCHANGED vars \/ SyncItem
  BY <1>1, <1>3, <1>6 DEF vars, SyncItem, changeVars, diskVars
<1>7. CASE Command
  <2>1. /\ pend = NoPending
        /\ UNCHANGED <<list, lock, pend, current, edits>>
    BY <1>0, <1>7
       DEF NoAdopt, NotAdopting, Command, Ready, AdoptList, AdoptLock, AddOrRemove, PinOnly,
           StageGeneration, SyncOrUpdate, InstallFails, Rollback, PruneGeneration, diskVars
  <2>2. ContentOf(current)' = ContentOf(current)
    <3>1. ASSUME NEW n \in Numbers, NEW c, IsNext(n), gens' = [gens EXCEPT ![n] = c]
          PROVE  ContentOf(current)' = ContentOf(current)
      <4>1. n # current
        BY <3>1, MaxGenAssumption DEF IsNext, ChangeInv, GenerationsKept, Numbers, Existing
      <4> QED
        BY <2>1, <3>1, <4>1 DEF ContentOf, ChangeInv, ChangeTypes
    <3>2. ASSUME NEW g \in Numbers, PruneGeneration(g)
          PROVE  ContentOf(current)' = ContentOf(current)
      BY <3>2 DEF PruneGeneration, ContentOf, ChangeInv, ChangeTypes
    <3>3. ASSUME UNCHANGED gens PROVE ContentOf(current)' = ContentOf(current)
      BY <2>1, <3>3 DEF ContentOf
    <3> QED
      BY <1>7, <3>1, <3>2, <3>3
         DEF Command, AdoptList, AdoptLock, AddOrRemove, PinOnly, StageGeneration, SyncOrUpdate,
             InstallFails, Rollback, diskVars
  <2> QED
    BY <1>1, <1>4, <2>1, <2>2
<1>8. CASE Apply
  <2>1. ASSUME NEW agree \in BOOLEAN, Plan(agree) PROVE Abstract!SwitchNext
    <3>1. InFlight'
      BY <2>1 DEF Plan, ChangeInv, Applying, ApplySteps, SameChange
    <3> QED
      BY <1>0, <2>1, <3>1, AskSeen DEF Abstract!SwitchNext
  <2>2. CASE DiscardStaged
    <3>1. /\ pend = NoPending /\ UNCHANGED <<list, lock, pend, current, edits>>
          /\ ContentOf(current)' = ContentOf(current)
      BY <2>2 DEF DiscardStaged, ChangeInv, Planned, Planning, Discard, ChangeTypes, ContentOf,
                  GenerationsKept, Existing
    <3> QED
      BY <1>1, <1>4, <3>1
  <2>3. CASE Activate \/ SyncBegins \/ SyncEnds \/ CommitList \/ CommitLock
    <3>1. step \in ApplySteps /\ UNCHANGED <<gens, pend, edits>>
      BY <2>3 DEF Activate, SyncBegins, SyncEnds, CommitList, CommitLock, changeVars, diskVars,
                  ApplySteps
    <3> QED
      BY <1>1, <1>2, <1>5, <3>1
  <2>4. CASE StartCommit
    <3>1. /\ step = "committing" /\ SameChange /\ SameChange' /\ UNCHANGED <<gens, edits>>
          /\ p' = [p EXCEPT !.committing = TRUE] /\ pend' = p'
      BY <2>4 DEF StartCommit, ChangeInv, Applying, ApplySteps
    <3>2. pend'.from = pend.from /\ pend'.to = pend.to /\ pend'.before = pend.before
      BY <3>1 DEF SameChange, Pending, ListsInv, ListsKnown, ApplySteps
    <3> QED
      BY <1>0, <1>1, <3>1, <3>2, SeenNot DEF SameChange
  <2>5. CASE Finish
    BY <1>0, <2>5, CommitSeen DEF Finish, InFlight, Abstract!SwitchNext
  <2> QED
    BY <1>8, <2>1, <2>2, <2>3, <2>4, <2>5 DEF Apply
<1>9. CASE Revert
  <2>1. CASE UndoList \/ UndoLock \/ UndoActivate \/ UndoSyncBegins \/ UndoSyncEnds
    <3>1. step \in UndoSteps /\ UNCHANGED <<gens, pend, edits>>
      BY <2>1 DEF UndoList, UndoLock, UndoActivate, UndoSyncBegins, UndoSyncEnds, changeVars,
                  diskVars, UndoSteps
    <3> QED
      BY <1>1, <1>2, <1>5, <3>1
  <2>2. CASE UndoDiscard
    BY <1>0, <1>1, <2>2, WithdrawSeen DEF Abstract!SwitchNext
  <2>3. CASE UndoFinish
    BY <1>0, <2>3, UndoSeen DEF Abstract!SwitchNext
  <2>4. CASE UnadoptList \/ UnadoptLock
    BY <1>0, <2>4 DEF UnadoptList, UnadoptLock, NotAdopting
  <2> QED
    BY <1>9, <2>1, <2>2, <2>3, <2>4 DEF Revert
<1>10. CASE Recover
  <2>1. CASE pend.done
    <3>1. ~InFlight /\ ~InFlight' /\ UNCHANGED <<gens, current, list, lock, edits>>
      BY <1>10, <2>1 DEF Recover, InFlight
    <3> QED
      BY <1>0, <1>1, <3>1, SeenNot DEF ContentOf
  <2>2. CASE ~pend.done
    BY <1>1, <1>3, <1>10, <2>2 DEF Recover, diskVars
  <2> QED
    BY <2>1, <2>2
<1>11. CASE Setback
  BY <1>1, <1>3, <1>11 DEF Setback, PlanStops, SyncRefused, SyncBlocked, SyncFailed
<1>12. CASE Failure
  <2>1. CASE FinishFails
    <3>1. CASE pend' = pend
      BY <1>1, <1>3, <2>1, <3>1 DEF FinishFails, diskVars
    <3>2. CASE pend' = [p EXCEPT !.done = TRUE]
      <4>1. p \in Pending
        BY <2>1 DEF FinishFails, ChangeInv, Applying, ApplySteps, SameChange
      <4>2. ~InFlight'
        BY <3>2, <4>1 DEF InFlight, Pending
      <4> QED
        BY <1>0, <2>1, <4>2, CommitSeen DEF FinishFails, Abstract!SwitchNext
    <3> QED
      BY <2>1, <3>1, <3>2 DEF FinishFails
  <2>2. CASE StepFails \/ AdoptFails \/ StartCommitFails \/ SyncAborts \/ Crash
    BY <1>1, <1>3, <2>2 DEF StepFails, AdoptFails, StartCommitFails, SyncAborts, SyncFailed, Crash
  <2> QED
    BY <1>12, <2>1, <2>2 DEF Failure
<1>13. CASE User
  <2>1. /\ edits' = edits + 1 /\ (UNCHANGED list \/ UNCHANGED lock)
        /\ UNCHANGED <<gens, current, pend>>
    BY <1>13 DEF User, EditList, EditLock, EditTarget, diskVars
  <2>2. UNCHANGED <<Asked, Active>> /\ (Toml' = Toml \/ Locked' = Locked)
    BY <1>0, <2>1 DEF Asked, Active, Toml, Locked, ContentOf, Existing, InFlight, NotAdopting,
                      Adopting
  <2> QED
    BY <2>1, <2>2 DEF Asked, Active, Toml, Locked, Abstract!SwitchNext, Abstract!Edit
<1> QED
  BY <1>6, <1>7, <1>8, <1>9, <1>10, <1>11, <1>12, <1>13 DEF ChangeNext

(* The generation, oku.toml and oku.lock change together or not at all,    *)
(* wherever a change fails or dies: Change implements Switch, for any      *)
(* generations, failures and edits, where no sync <list-ref> adopts a list *)
(* (killed between its writes and its change, it leaves them behind).      *)
THEOREM ChangeImplementsSwitch ==
    ChangeSpec /\ [](NoAdopt) => ImplementsSwitch
<1>1. ChangeInit => Abstract!SwitchInit
  BY DEF ChangeInit, Abstract!SwitchInit, InFlight
<1>2. /\ ChangeInv /\ ChangeInv' /\ ShownInv /\ NoAdopt
      /\ (NoAdopt => ListsInv) /\ (NoAdopt => ListsInv)' /\ [ChangeNext]_vars
      => [Abstract!SwitchNext]_(Abstract!switchVars)
  BY SwitchStep DEF ShownInv, NoAdopt
<1> QED
  BY <1>1, <1>2, ChangeInvariant, ShownInvariant, ListsInvariant, PTL
     DEF ChangeSpec, ImplementsSwitch, Abstract!SwitchSpec

-----------------------------------------------------------------------------
(* The user's edits, and the lists that sync <list-ref> adopts.            *)

(* Where pending.toml is always written, the process has it as it is *)
Told == step \in ApplySteps \cup UndoSteps => p = pend

(* No other step separates the two *)
LEMMA ToldNext ==
    ASSUME Told, [ChangeNext]_vars, "committing" \notin Failing
    PROVE  Told'
<1> USE DEF Told, ApplySteps, UndoSteps
<1>1. CASE UNCHANGED vars \/ SyncItem \/ User
  BY <1>1 DEF vars, changeVars, SyncItem, User, EditList, EditLock, EditTarget, diskVars
<1>2. CASE Command
  BY <1>2 DEF Command, Ready, AdoptList, AdoptLock, AddOrRemove, PinOnly, StageGeneration,
              SyncOrUpdate, InstallFails, Rollback, PruneGeneration, Return, Exit, Goto
<1>3. CASE Apply
  BY <1>3 DEF Apply, Plan, DiscardStaged, Activate, SyncBegins, SyncEnds, StartCommit, CommitList,
              CommitLock, Finish, Return, Exit, Goto, changeVars, diskVars
<1>4. CASE Revert \/ Recover
  BY <1>4 DEF Revert, UndoList, UndoLock, UndoActivate, UndoSyncBegins, UndoSyncEnds, UndoDiscard,
              UndoFinish, UnadoptList, UnadoptLock, Recover, Return, Exit, Goto, changeVars, diskVars
<1>5. CASE Setback
  BY <1>5 DEF Setback, PlanStops, SyncRefused, SyncBlocked, SyncFailed, Return, Exit, Goto, diskVars
<1>6. CASE Failure
  BY <1>6 DEF Failure, StepFails, OnFailure, AdoptFails, StartCommitFails, FinishFails,
              SyncAborts, SyncFailed, Crash, Return, Exit, Goto, diskVars
<1> QED
  BY <1>1, <1>2, <1>3, <1>4, <1>5, <1>6 DEF ChangeNext

(* What changes the lists while a revert is about to restore them *)
LEMMA RevertLists ==
    ASSUME ChangeInv, [ChangeNext]_vars, step \in {"undoList", "undoLock"}
    PROVE  \/ UNCHANGED <<list, lock>>
           \/ edits' # edits
           \/ UndoList /\ UNCHANGED lock
           \/ UndoLock /\ UNCHANGED list
<1>1. CASE UNCHANGED vars \/ SyncItem
  BY <1>1 DEF vars, changeVars, SyncItem
<1>2. CASE Command
  BY <1>2 DEF Command, Ready, AdoptList, AdoptLock, AddOrRemove, PinOnly, StageGeneration,
              SyncOrUpdate, InstallFails, Rollback, PruneGeneration
<1>3. CASE Apply
  BY <1>3 DEF Apply, Plan, DiscardStaged, Activate, SyncBegins, SyncEnds, StartCommit, CommitList,
              CommitLock, Finish
<1>4. CASE Revert \/ Recover
  BY <1>4 DEF Revert, UndoList, UndoLock, UndoActivate, UndoSyncBegins, UndoSyncEnds, UndoDiscard,
              UndoFinish, UnadoptList, UnadoptLock, Recover
<1>5. CASE Setback \/ Failure
  BY <1>5 DEF Setback, PlanStops, SyncRefused, SyncBlocked, SyncFailed, Failure, StepFails, AdoptFails,
              StartCommitFails, FinishFails, SyncAborts, Crash, diskVars
<1>6. CASE User
  <2>1. edits \in Nat
    BY BoundAssumption DEF ChangeInv, ChangeTypes
  <2> QED
    BY <1>6, <2>1 DEF User, EditList, EditLock, EditTarget, diskVars
<1> QED
  BY <1>1, <1>2, <1>3, <1>4, <1>5, <1>6 DEF ChangeNext

(* B527: a revert keeps what the user edited since the change found it,    *)
(* for any generations, failures and edits, where pending.toml can be      *)
(* written when the commit begins (StartCommitFails says what happens      *)
(* otherwise).                                                             *)
THEOREM EditsAreKept ==
    ChangeSpec /\ []("committing" \notin Failing) => EditsSurvive
<1> DEFINE Written == "committing" \notin Failing
           Kept == /\ step \in {"undoList", "undoLock"}
                   /\ InFlight
                   /\ ~pend.committing
                   => /\ list # pend.started.list => list' = list \/ edits' # edits
                      /\ lock # pend.started.lock => lock' = lock \/ edits' # edits
<1>1. ChangeInit => Told
  BY DEF ChangeInit, Told, ApplySteps, UndoSteps
<1>2. Told /\ Written /\ [ChangeNext]_vars => Told'
  BY ToldNext
<1>3. ChangeInv /\ Told /\ Written /\ [ChangeNext]_vars => [Kept]_vars
  <2> SUFFICES ASSUME ChangeInv, Told, [ChangeNext]_vars, step \in {"undoList", "undoLock"},
                      ~pend.committing
               PROVE  /\ list # pend.started.list => list' = list \/ edits' # edits
                      /\ lock # pend.started.lock => lock' = lock \/ edits' # edits
    OBVIOUS
  <2>1. p = pend
    BY DEF Told, UndoSteps
  <2> QED
    BY <2>1, RevertLists DEF UndoList, UndoLock, Restored
<1> QED
  BY <1>1, <1>2, <1>3, ChangeInvariant, PTL DEF ChangeSpec, EditsSurvive

(* An idle process and one whose commit is over adopt nothing, and the     *)
(* list is back before the lock is.                                        *)
Adoption ==
    /\ step \in {"idle", "finish"} => ~chg.adopted
    /\ step = "unadoptLock" /\ edits = 0 => list = chg.before.list

(* Adoption holds throughout *)
LEMMA AdoptionNext ==
    ASSUME ChangeInv, Adoption, [ChangeNext]_vars
    PROVE  Adoption'
<1> USE DEF Adoption
<1>1. CASE UNCHANGED vars \/ SyncItem
  BY <1>1 DEF vars, changeVars, SyncItem
<1>2. CASE Command
  <2>1. CASE InstallFails \/ \E g \in Numbers : PruneGeneration(g)
    BY <2>1 DEF InstallFails, PruneGeneration, Ready, Return, Exit, Goto, NoChange
  <2>2. step' \in {"adoptLock", "stage", "plan"} \/ InstallFails \/ \E g \in Numbers : PruneGeneration(g)
    BY <1>2 DEF Command, AdoptList, AdoptLock, AddOrRemove, PinOnly, StageGeneration,
                SyncOrUpdate, Rollback
  <2> QED
    BY <2>1, <2>2
<1>3. CASE Apply
  <2>1. CASE CommitLock
    BY <2>1 DEF CommitLock, ChangeInv, ChangeTypes, ChangeRec
  <2> QED
    BY <1>3, <2>1 DEF Apply, Plan, DiscardStaged, Activate, SyncBegins, SyncEnds, StartCommit,
              CommitList, Finish, Return, Exit, Goto, NoChange, changeVars
<1>4. CASE Revert \/ Recover
  BY <1>4 DEF Revert, UndoList, UndoLock, UndoActivate, UndoSyncBegins, UndoSyncEnds, UndoDiscard,
              UndoFinish, UnadoptList, UnadoptLock, Recover, Return, Exit, Goto, NoChange, changeVars
<1>5. CASE Setback
  BY <1>5 DEF Setback, PlanStops, SyncRefused, SyncBlocked, SyncFailed, Return, Exit, Goto, NoChange
<1>6. CASE Failure
  BY <1>6 DEF Failure, StepFails, OnFailure, AdoptFails, StartCommitFails, FinishFails,
              SyncAborts, SyncFailed, Crash, Return, Exit, Goto, NoChange
<1>7. CASE User
  <2>1. edits \in Nat
    BY BoundAssumption DEF ChangeInv, ChangeTypes
  <2> QED
    BY <1>7, <2>1 DEF User, EditList, EditLock, EditTarget
<1> QED
  BY <1>1, <1>2, <1>3, <1>4, <1>5, <1>6, <1>7 DEF ChangeNext

(* The lists that sync <list-ref> adopted are gone when it ends without    *)
(* having committed them, whichever step of its apply or revert refused:   *)
(* AdoptionUndone for any generations and failures.                        *)
THEOREM AdoptionIsUndone == ChangeSpec => AdoptionUndone
<1> DEFINE Back == /\ Adopting
                   /\ step' = "idle"
                   /\ edits = 0
                   /\ faults' = faults
                   => list' = chg.before.list /\ lock' = chg.before.lock
<1>1. ChangeInit => Adoption
  BY DEF ChangeInit, Adoption, NoChange
<1>2. ChangeInv /\ Adoption /\ [ChangeNext]_vars => Adoption'
  BY AdoptionNext
<1>3. ChangeInv /\ Adoption /\ [ChangeNext]_vars => [Back]_vars
  <2> SUFFICES ASSUME ChangeInv, Adoption, ChangeNext, Adopting, step' = "idle", edits = 0,
                      faults' = faults
               PROVE  list' = chg.before.list /\ lock' = chg.before.lock
    OBVIOUS
  <2>1. step # "idle" /\ step # "finish"
    BY DEF Adoption, Adopting
  <2>2. faults \in Nat
    BY BoundAssumption DEF ChangeInv, ChangeTypes
  <2>3. ~Return \/ step = "adoptLock"
    BY DEF Return, Goto, Adopting
  <2>4. CASE Command \/ Apply \/ SyncItem
    BY <2>1, <2>3, <2>4
       DEF Command, Ready, AdoptList, AdoptLock, AddOrRemove, PinOnly, StageGeneration,
           SyncOrUpdate, InstallFails, Rollback, PruneGeneration, Apply, Plan, DiscardStaged,
           Activate, SyncBegins, SyncEnds, StartCommit, CommitList, CommitLock, Finish, Goto,
           SyncItem, changeVars
  <2>5. CASE Revert \/ Recover \/ Setback
    BY <2>1, <2>3, <2>5
       DEF Revert, UndoList, UndoLock, UndoActivate, UndoSyncBegins, UndoSyncEnds, UndoDiscard,
           UndoFinish, UnadoptList, UnadoptLock, Recover, Setback, PlanStops, SyncRefused, SyncBlocked,
           SyncFailed, Goto, changeVars, Adoption
  <2>6. CASE Failure
    BY <2>2, <2>6 DEF Failure, StepFails, AdoptFails, StartCommitFails, FinishFails, SyncAborts,
                      Crash, Fault
  <2>7. CASE User
    BY <2>1, <2>7 DEF User, EditList, EditLock, EditTarget, diskVars
  <2> QED
    BY <2>4, <2>5, <2>6, <2>7 DEF ChangeNext
<1> QED
  BY <1>1, <1>2, <1>3, ChangeInvariant, PTL DEF ChangeSpec, AdoptionUndone
=============================================================================
