------------------------------- MODULE Expose -------------------------------
(***************************************************************************)
(* The ledger of what oku placed outside its own directories, and the      *)
(* Sync that makes it match what a generation wants.                       *)
(*                                                                         *)
(*   src/internal/expose/expose.go        Ledger, Check, Edited, Sync      *)
(*   src/internal/cli/settings.go         settingHandler                   *)
(*   src/internal/cli/expose.go           handlers, keepSystem             *)
(*                                                                         *)
(* A target is one place on the machine.  Its kind decides how Place and   *)
(* Remove behave:                                                          *)
(*                                                                         *)
(*   "link"     a file of the list on Unix, a symlink that os.Symlink      *)
(*              makes only where nothing is;                               *)
(*   "copy"     a file of the list on Windows, which os.WriteFile writes   *)
(*              and the hash of which says whether it is still oku's;      *)
(*   "app"      an app or a font, copied as a tree and deleted as a tree;  *)
(*   "setting"  a value in the settings store of the OS, replaced by oku   *)
(*              and put back to what it was.                               *)
(*                                                                         *)
(* A crash may happen between any two durable writes, and a step may fail  *)
(* anywhere.  The order of the items in exposed.toml and in the list of    *)
(* wanted items is abstracted: any item may be next.                       *)
(***************************************************************************)

CONSTANTS
    Targets,    \* the places on the machine
    Kind,       \* the kind of each target
    Sources,    \* what oku can place: store paths, desktop entries, values
    UserFiles,  \* what a user puts at a target, other than a symlink
    UserLinks,  \* a symlink a user makes at a target
    Nothing,    \* no file at the target, or a setting that is not set
    Partial     \* a tree or a file that oku copied or deleted only in part

Kinds == {"link", "copy", "app", "setting"}

UserValues == UserFiles \cup UserLinks

(* What the machine may hold at a target *)
Values == Sources \cup UserValues \cup {Nothing, Partial}

(* What may be wanted: a source, or nothing, at each target *)
Wants == [Targets -> Sources \cup {Nothing}]

ASSUME KindAssumption == Kind \in [Targets -> Kinds]

ASSUME ValuesAssumption ==
    /\ Nothing \notin Sources \cup UserValues
    /\ Partial \notin Sources \cup UserValues \cup {Nothing}
    /\ Sources \cap UserValues = {}
    /\ UserFiles \cap UserLinks = {}
    /\ Nothing \notin Targets

VARIABLES
    machine,    \* what is at each target
    own,        \* what the user would have there if oku had never been
    ledger,     \* exposed.toml: the item of each target
    items,      \* Ledger.Items in the memory of the running Sync
    goal,       \* the wanted items of the running Sync
    sync,       \* where the running Sync is
    at          \* the target that Sync is placing

exposeVars == <<machine, own, ledger, items, goal, sync, at>>

-----------------------------------------------------------------------------
(* Items.  The source is Nothing where the ledger has no item.  Prior is   *)
(* the value a setting had before oku first wrote it, Nothing when it was  *)
(* not set (HadPrior).                                                     *)

Item == [source : Sources \cup {Nothing}, prior : UserValues \cup {Nothing}]

NoItem == [source |-> Nothing, prior |-> Nothing]

Ledgers == [Targets -> Item]

NoItems == [t \in Targets |-> NoItem]

Empty == [t \in Targets |-> Nothing]

Held(l, t) == l[t].source # Nothing

(* wants: the item is held with this source, whatever its Prior *)
Holds(l, t, s) == l[t].source = s

(* The items of the list that someone deleted, which Sync drops from its   *)
(* memory before it starts.                                                *)
Gone(l) == {t \in Targets : /\ Held(l, t)
                            /\ Kind[t] \in {"link", "copy"}
                            /\ machine[t] = Nothing}

Without(l, ts) == [t \in Targets |-> IF t \in ts THEN NoItem ELSE l[t]]

(* Check: no wanted path exists that oku did not put there *)
Check(l, w) ==
    \A t \in Targets :
        /\ w[t] # Nothing
        /\ Kind[t] # "setting"
        /\ ~Held(l, t)
        => machine[t] = Nothing

(* Edited: the copies that no longer hold the bytes oku wrote.  A link     *)
(* that the user replaced is not among them.                               *)
Edited(l) == {t \in Targets : /\ Held(l, t)
                              /\ Kind[t] = "copy"
                              /\ machine[t] \notin {Nothing, l[t].source}}

-----------------------------------------------------------------------------
(* What the handlers do to the machine.                                    *)

(* A mutant of Removed: RemoveFile deletes whatever is at the target of a  *)
(* link.                                                                   *)
RemovedAlways(t, item) ==
    IF Kind[t] = "setting" THEN item.prior ELSE Nothing

(* Handler.Remove, RemoveFile and Remove, when they succeed *)
Removed(t, item) ==
    CASE Kind[t] = "setting" -> item.prior
      [] Kind[t] = "app"     -> Nothing
      [] Kind[t] = "link"    -> IF machine[t] \in Sources \cup UserLinks
                                THEN Nothing ELSE machine[t]
      [] Kind[t] = "copy"    -> IF machine[t] = item.source
                                THEN Nothing ELSE machine[t]

(* os.Symlink fails where something is, whatever it is.  WriteFile, the    *)
(* copy of a tree and the settings store do not fail for that reason.      *)
Placeable(t) == Kind[t] = "link" => machine[t] = Nothing

(* Items that Sync still has to remove and to place *)
Leaving == {t \in Targets : Held(items, t) /\ ~Holds(items, t, goal[t])}

Coming == {t \in Targets : goal[t] # Nothing /\ ~Holds(items, t, goal[t])}

(* The targets that a failure or a crash may leave half written or half    *)
(* deleted at this moment: a tree, or a file that WriteFile truncated.     *)
Tearable ==
    {t \in Targets :
        \/ sync = "place" /\ t = at /\ Kind[t] \in {"app", "copy"}
        \/ sync = "remove" /\ t \in Leaving /\ Kind[t] = "app"}

-----------------------------------------------------------------------------
(* Sync, one durable write at a time.                                      *)

(* ReadLedger and the start of Sync.  It drops what is gone, in memory     *)
(* only, and goes on when Check finds nothing in the way.                  *)
Begin(w) ==
    /\ sync = "off"
    /\ items' = Without(ledger, Gone(ledger))
    /\ Check(items', w)
    /\ goal' = w
    /\ sync' = "remove"
    /\ UNCHANGED <<machine, own, ledger, at>>

(* Check finds a file of the user's in the way: Sync returns its error     *)
(* before it changes anything.                                             *)
Refused(w) ==
    /\ sync = "off"
    /\ ~Check(Without(ledger, Gone(ledger)), w)
    /\ UNCHANGED exposeVars

(* remove, first half: the handler takes the item off the machine *)
RemoveItem(t) ==
    /\ sync = "remove"
    /\ t \in Leaving
    /\ machine' = [machine EXCEPT ![t] = Removed(t, items[t])]
    /\ items' = Without(items, {t})
    /\ sync' = "drop"
    /\ UNCHANGED <<own, ledger, goal, at>>

(* remove, second half: the ledger is written without the item *)
DropItem ==
    /\ sync = "drop"
    /\ ledger' = items
    /\ sync' = "remove"
    /\ UNCHANGED <<machine, own, items, goal, at>>

(* Mutants of RecordItem: Sync saves the ledger only with the next change; *)
(* it does not read what a setting was.                                    *)
RecordItemLate(t) ==
    /\ sync = "remove"
    /\ Leaving = {}
    /\ t \in Coming
    /\ items' = [items EXCEPT ![t] = [source |-> goal[t], prior |-> Nothing]]
    /\ sync' = "place"
    /\ at' = t
    /\ UNCHANGED <<machine, own, ledger, goal>>

RecordItemBlind(t) ==
    /\ sync = "remove"
    /\ Leaving = {}
    /\ t \in Coming
    /\ items' = [items EXCEPT ![t] = [source |-> goal[t], prior |-> Nothing]]
    /\ ledger' = items'
    /\ sync' = "place"
    /\ at' = t
    /\ UNCHANGED <<machine, own, goal>>

(* The item goes into the ledger before it goes on the machine.  Before    *)
(* reads the value a setting has now.                                      *)
RecordItem(t) ==
    /\ sync = "remove"
    /\ Leaving = {}
    /\ t \in Coming
    /\ items' = [items EXCEPT ![t] =
            [source |-> goal[t],
             prior  |-> IF Kind[t] = "setting" THEN machine[t] ELSE Nothing]]
    /\ ledger' = items'
    /\ sync' = "place"
    /\ at' = t
    /\ UNCHANGED <<machine, own, goal>>

(* Handler.Place, PlaceFile and Place *)
PlaceItem ==
    /\ sync = "place"
    /\ Placeable(at)
    /\ machine' = [machine EXCEPT ![at] = goal[at]]
    /\ sync' = "remove"
    /\ at' = Nothing
    /\ UNCHANGED <<own, ledger, items, goal>>

(* The memory of a Sync is gone when it returns and when oku dies *)
Forget ==
    /\ sync' = "off"
    /\ items' = NoItems
    /\ goal' = Empty
    /\ at' = Nothing
    /\ UNCHANGED <<own, ledger>>

(* Everything wanted is in the ledger: Sync returns *)
End ==
    /\ sync = "remove"
    /\ Leaving = {}
    /\ Coming = {}
    /\ Forget
    /\ UNCHANGED machine

(* os.Symlink finds a file at the target: Sync returns its error *)
Blocked ==
    /\ sync = "place"
    /\ ~Placeable(at)
    /\ Forget
    /\ UNCHANGED machine

(* A step fails and Sync returns its error, or oku dies.  Either may leave *)
(* a target half done.                                                     *)
Abort ==
    /\ sync # "off"
    /\ Forget
    /\ \/ UNCHANGED machine
       \/ \E t \in Tearable : machine' = [machine EXCEPT ![t] = Partial]

-----------------------------------------------------------------------------
(* The user, external to oku, changes what is at a target while no Sync    *)
(* runs.  What counts as the user's own is what oku has to leave there     *)
(* when it takes its item away: RemoveFile keeps a file that replaced a    *)
(* link or a copy, takes any symlink for oku's, and an app or a setting    *)
(* that the ledger holds is oku's whatever happened to it.                 *)
Touch(t, v) ==
    /\ sync = "off"
    /\ v # machine[t]
    /\ machine' = [machine EXCEPT ![t] = v]
    /\ own' = [own EXCEPT ![t] =
            CASE ~Held(ledger, t)              -> v
              [] Held(ledger, t) /\ Kind[t] = "copy" -> v
              [] Held(ledger, t) /\ Kind[t] = "link" ->
                    IF v \in UserLinks THEN Nothing ELSE v
              [] OTHER                         -> own[t]]
    /\ UNCHANGED <<ledger, items, goal, sync, at>>

-----------------------------------------------------------------------------
Init ==
    /\ machine \in [Targets -> UserValues \cup {Nothing}]
    /\ own = machine
    /\ ledger = NoItems
    /\ items = NoItems
    /\ goal = Empty
    /\ sync = "off"
    /\ at = Nothing

SyncStep ==
    \/ \E t \in Targets : RemoveItem(t)
    \/ DropItem
    \/ \E t \in Targets : RecordItem(t)
    \/ PlaceItem

(* The ledger on its own: any number of Syncs to any wanted contents, each *)
(* of which may stop anywhere.                                             *)
Next ==
    \/ \E w \in Wants : Begin(w) \/ Refused(w)
    \/ SyncStep
    \/ End
    \/ Blocked
    \/ Abort
    \/ \E t \in Targets, v \in UserValues \cup {Nothing} : Touch(t, v)

Spec == Init /\ [][Next]_exposeVars

-----------------------------------------------------------------------------
TypeOK ==
    /\ machine \in [Targets -> Values]
    /\ own \in [Targets -> UserValues \cup {Nothing}]
    /\ ledger \in Ledgers
    /\ items \in Ledgers
    /\ goal \in Wants
    /\ sync \in {"off", "remove", "drop", "place"}
    /\ at \in Targets \cup {Nothing}

(* Whatever oku does not hold in its ledger is as the user left it: a      *)
(* setting has the value the user gave it, and a path holds what the user  *)
(* put there or nothing.  This holds in every state, so also after a crash *)
(* between any two writes of Sync, whose order (record, then place; take   *)
(* away, then drop) is what it depends on.                                 *)
OwnKept ==
    \A t \in Targets :
        Kind[t] # "copy" /\ ~Held(ledger, t) => machine[t] = own[t]

(* The value that removing a setting puts back is the one the user had     *)
(* before oku first wrote it, through any number of changes of value,      *)
(* crashes and reverts: oku never takes its own value for the user's.      *)
PriorIsOwn ==
    \A t \in Targets :
        Kind[t] = "setting" /\ Held(ledger, t) => ledger[t].prior = own[t]

(* A step of oku never overwrites or deletes a file that the user put in   *)
(* the place of a link, whether Sync applies a change or reverts one.      *)
UserFileStays ==
    [][\A t \in Targets :
         Kind[t] = "link" /\ machine[t] \in UserFiles /\ sync # "off"
            => machine'[t] = machine[t]]_exposeVars
=============================================================================
