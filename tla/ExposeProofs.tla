---------------------------- MODULE ExposeProofs ----------------------------
(***************************************************************************)
(* Proofs about Expose for every set of targets and sources.  OwnKept is   *)
(* not inductive: that a setting gets its value back rests on the prior in *)
(* the ledger, that a link is safe to remove on what the machine holds,    *)
(* and that an app is safe to delete on the Check that Sync made when it   *)
(* began.  ExposeInv says all three, of the ledger on disk and of the      *)
(* items in memory.                                                        *)
(***************************************************************************)
EXTENDS Expose, TLAPS

(* An item in list l lets oku put back what the user has at t; where l has *)
(* no item, the user's own is there.                                       *)
SoundAt(l, t) ==
    IF Held(l, t)
    THEN /\ Kind[t] = "setting" => l[t].prior = own[t]
         /\ Kind[t] = "app" => own[t] = Nothing
         /\ Kind[t] = "link" =>
                own[t] = IF machine[t] \in UserFiles THEN machine[t] ELSE Nothing
    ELSE Kind[t] # "copy" => machine[t] = own[t]

Sound(l) == \A t \in Targets : SoundAt(l, t)

(* No link is ever left half made *)
WholeLinks == \A t \in Targets : Kind[t] = "link" => machine[t] # Partial

(* What the Check of the running Sync found still holds of what it has yet *)
(* to place.                                                               *)
StillFree ==
    \A t \in Targets :
        goal[t] # Nothing /\ ~Held(items, t) =>
            /\ Kind[t] = "app" => machine[t] = Nothing
            /\ Kind[t] = "link" => machine[t] \in UserFiles \cup {Nothing}

(* The ledger has every item that the memory of Sync has *)
OnDisk == \A t \in Targets : Held(items, t) => ledger[t] = items[t]

(* The item being placed is recorded *)
Recorded ==
    sync = "place" => /\ at \in Targets
                      /\ goal[at] # Nothing
                      /\ items[at].source = goal[at]

Running == sync # "off" => Sound(items) /\ StillFree /\ OnDisk

ExposeInv ==
    /\ TypeOK
    /\ Sound(ledger)
    /\ WholeLinks
    /\ Running
    /\ Recorded

-----------------------------------------------------------------------------
(* The user's values, oku's sources, Nothing and Partial are told apart    *)
(* (ValuesAssumption), and every target has a kind (KindAssumption).       *)
LEMMA ValuesDistinct ==
    /\ \A v \in UserFiles : v \notin Sources /\ v \notin UserLinks /\ v # Nothing /\ v # Partial
    /\ \A v \in UserLinks : v \notin Sources /\ v \notin UserFiles /\ v # Nothing /\ v # Partial
    /\ \A v \in Sources : v \notin UserFiles /\ v \notin UserLinks /\ v # Nothing /\ v # Partial
    /\ Nothing # Partial /\ Nothing \notin Targets
BY ValuesAssumption DEF UserValues

(* Taking items out of a list of items keeps its type *)
LEMMA WithoutType ==
    ASSUME NEW l \in Ledgers, NEW ts
    PROVE  /\ Without(l, ts) \in Ledgers
           /\ \A t \in Targets : Without(l, ts)[t] = IF t \in ts THEN NoItem ELSE l[t]
           /\ \A t \in Targets : Held(Without(l, ts), t) <=> t \notin ts /\ Held(l, t)
BY DEF Without, Ledgers, Item, NoItem, Held

(* What removing an item leaves at the target of a link, by RemoveFile: a  *)
(* file of the user's or nothing.                                          *)
LEMMA RemovedLink ==
    ASSUME TypeOK, WholeLinks, NEW t \in Targets, NEW item, Kind[t] = "link"
    PROVE  /\ machine[t] \in UserFiles => Removed(t, item) = machine[t]
           /\ machine[t] \notin UserFiles => Removed(t, item) = Nothing
<1>1. machine[t] \in Values /\ machine[t] # Partial
  BY DEF TypeOK, WholeLinks
<1>2. Removed(t, item) = IF machine[t] \in Sources \cup UserLinks
                         THEN Nothing ELSE machine[t]
  BY DEF Removed
<1> QED
  BY <1>1, <1>2, ValuesDistinct DEF Values, UserValues

(* Removed stays within what a machine may hold *)
LEMMA RemovedType ==
    ASSUME TypeOK, NEW t \in Targets, NEW item \in Item
    PROVE  Removed(t, item) \in Values
BY KindAssumption DEF TypeOK, Removed, Item, Values, UserValues, Kinds

-----------------------------------------------------------------------------
(* The machine as a user has it, before oku ever ran, satisfies ExposeInv *)
LEMMA InitInv == Init => ExposeInv
<1> SUFFICES ASSUME Init PROVE ExposeInv
  OBVIOUS
<1>1. TypeOK
  BY DEF Init, TypeOK, Ledgers, Item, NoItems, NoItem, Empty, Wants, Values, UserValues
<1>2. Sound(ledger)
  BY DEF Init, Sound, SoundAt, Held, NoItems, NoItem
<1>3. WholeLinks
  BY ValuesDistinct DEF Init, WholeLinks, UserValues
<1>4. Running /\ Recorded
  BY DEF Init, Running, Recorded
<1> QED
  BY <1>1, <1>2, <1>3, <1>4 DEF ExposeInv

(* Sync begins: what is gone is dropped in memory, and Check has passed *)
LEMMA BeginInv ==
    ASSUME ExposeInv, NEW w \in Wants, Begin(w)
    PROVE  ExposeInv'
<1> USE DEF ExposeInv
<1> DEFINE kept == Without(ledger, Gone(ledger))
<1>1. /\ kept \in Ledgers
      /\ \A t \in Targets : kept[t] = IF t \in Gone(ledger) THEN NoItem ELSE ledger[t]
      /\ \A t \in Targets : Held(kept, t) <=> t \notin Gone(ledger) /\ Held(ledger, t)
  BY WithoutType DEF TypeOK
<1>2. items' = kept /\ goal' = w /\ sync' = "remove"
      /\ UNCHANGED <<machine, own, ledger, at>> /\ Check(kept, w)
  BY DEF Begin
<1> HIDE DEF kept
<1>3. TypeOK'
  BY <1>1, <1>2 DEF TypeOK
<1>4. Sound(ledger)' /\ WholeLinks'
  BY <1>2 DEF Sound, SoundAt, Held, WholeLinks
<1>5. Sound(items)'
  <2> SUFFICES ASSUME NEW t \in Targets PROVE SoundAt(items, t)'
    BY DEF Sound
  <2>1. SoundAt(ledger, t)
    BY DEF Sound
  <2>2. CASE t \in Gone(ledger)
    <3>1. machine[t] = Nothing /\ Kind[t] \in {"link", "copy"} /\ Held(ledger, t)
      BY <2>2 DEF Gone
    <3>2. Kind[t] = "link" => own[t] = Nothing
      BY <2>1, <3>1, ValuesDistinct DEF SoundAt
    <3> QED
      BY <1>1, <1>2, <2>2, <3>1, <3>2 DEF SoundAt, Held, NoItem
  <2>3. CASE t \notin Gone(ledger)
    BY <1>1, <1>2, <2>1, <2>3 DEF SoundAt, Held
  <2> QED
    BY <2>2, <2>3
<1>6. StillFree'
  BY <1>2, <1>1 DEF StillFree, Check, Held
<1>7. OnDisk'
  BY <1>1, <1>2 DEF OnDisk, Held, NoItem
<1>8. Recorded'
  BY <1>2 DEF Recorded
<1> QED
  BY <1>2, <1>3, <1>4, <1>5, <1>6, <1>7, <1>8 DEF Running

(* An item comes off the machine while the ledger still has it *)
LEMMA RemoveItemInv ==
    ASSUME ExposeInv, NEW r \in Targets, RemoveItem(r)
    PROVE  ExposeInv'
<1> USE DEF ExposeInv
<1>1. /\ sync = "remove" /\ sync' = "drop"
      /\ Held(items, r)
      /\ machine' = [machine EXCEPT ![r] = Removed(r, items[r])]
      /\ items' = Without(items, {r})
      /\ UNCHANGED <<own, ledger, goal, at>>
  BY DEF RemoveItem, Leaving
<1>2. /\ items' \in Ledgers
      /\ items'[r] = NoItem
      /\ \A t \in Targets : t # r => items'[t] = items[t]
  BY <1>1, WithoutType DEF TypeOK
<1>3. /\ machine \in [Targets -> Values]
      /\ machine'[r] = Removed(r, items[r])
      /\ \A t \in Targets : t # r => machine'[t] = machine[t]
  BY <1>1 DEF TypeOK
<1>4. ledger[r] = items[r] /\ SoundAt(ledger, r) /\ SoundAt(items, r)
  BY <1>1 DEF Running, OnDisk, Sound
<1>5. items[r] \in Item
  BY DEF TypeOK, Ledgers
<1>6. TypeOK'
  <2>1. machine' \in [Targets -> Values]
    BY <1>1, <1>5, RemovedType DEF TypeOK
  <2> QED
    BY <1>1, <1>2, <2>1 DEF TypeOK
<1>7. /\ Kind[r] = "setting" => machine'[r] = own[r]
      /\ Kind[r] = "app" => machine'[r] = Nothing /\ own[r] = Nothing
  BY <1>1, <1>3, <1>4 DEF SoundAt, Removed
<1>8. Kind[r] = "link" =>
        /\ machine'[r] \in UserFiles \cup {Nothing}
        /\ machine'[r] = own[r]
  BY <1>1, <1>3, <1>4, RemovedLink DEF SoundAt
<1>9. Sound(ledger)'
  <2> SUFFICES ASSUME NEW t \in Targets PROVE SoundAt(ledger, t)'
    BY DEF Sound
  <2>1. CASE t = r
    BY <1>1, <1>4, <1>7, <1>8, <2>1, ValuesDistinct DEF SoundAt, Held
  <2>2. CASE t # r
    BY <1>1, <1>3, <2>2 DEF Sound, SoundAt, Held
  <2> QED
    BY <2>1, <2>2
<1>10. Sound(items)'
  <2> SUFFICES ASSUME NEW t \in Targets PROVE SoundAt(items, t)'
    BY DEF Sound
  <2>1. CASE t = r
    BY <1>1, <1>2, <1>7, <1>8, <2>1, KindAssumption DEF SoundAt, Held, NoItem, Kinds
  <2>2. CASE t # r
    BY <1>1, <1>2, <1>3, <2>2 DEF Running, Sound, SoundAt, Held
  <2> QED
    BY <2>1, <2>2
<1>11. WholeLinks'
  BY <1>3, <1>8, ValuesDistinct DEF WholeLinks
<1>12. StillFree'
  <2> SUFFICES ASSUME NEW t \in Targets, goal'[t] # Nothing, ~Held(items', t)
               PROVE  /\ Kind[t] = "app" => machine'[t] = Nothing
                      /\ Kind[t] = "link" => machine'[t] \in UserFiles \cup {Nothing}
    BY DEF StillFree, Held
  <2>1. CASE t = r
    BY <1>7, <1>8, <2>1
  <2>2. CASE t # r
    BY <1>1, <1>2, <1>3, <2>2 DEF Running, StillFree, Held
  <2> QED
    BY <2>1, <2>2
<1>13. OnDisk'
  BY <1>1, <1>2 DEF Running, OnDisk, Held, NoItem
<1>14. Recorded'
  BY <1>1 DEF Recorded
<1> QED
  BY <1>6, <1>9, <1>10, <1>11, <1>12, <1>13, <1>14 DEF Running

(* The ledger is written without an item that is off the machine *)
LEMMA DropItemInv ==
    ASSUME ExposeInv, DropItem
    PROVE  ExposeInv'
<1> USE DEF ExposeInv
<1>1. /\ sync = "drop" /\ sync' = "remove" /\ ledger' = items
      /\ UNCHANGED <<machine, own, items, goal, at>>
  BY DEF DropItem
<1>2. TypeOK'
  BY <1>1 DEF TypeOK
<1>3. Sound(items) /\ Sound(items)' /\ Sound(ledger)'
  BY <1>1 DEF Running, Sound, SoundAt, Held
<1>4. WholeLinks' /\ StillFree' /\ OnDisk' /\ Recorded'
  BY <1>1 DEF Running, WholeLinks, StillFree, OnDisk, Recorded, Held
<1> QED
  BY <1>2, <1>3, <1>4 DEF Running

(* An item is recorded before it is placed, with what a setting was *)
LEMMA RecordItemInv ==
    ASSUME ExposeInv, NEW r \in Targets, RecordItem(r)
    PROVE  ExposeInv'
<1> USE DEF ExposeInv
<1> DEFINE new == [source |-> goal[r],
                   prior  |-> IF Kind[r] = "setting" THEN machine[r] ELSE Nothing]
<1>1. /\ sync = "remove" /\ sync' = "place" /\ at' = r
      /\ items' = [items EXCEPT ![r] = new] /\ ledger' = items'
      /\ UNCHANGED <<machine, own, goal>>
      /\ goal[r] # Nothing /\ ~Held(items, r)
  BY DEF RecordItem, Leaving, Coming, Holds, Held
<1>2. /\ items \in Ledgers
      /\ items'[r] = new
      /\ \A t \in Targets : t # r => items'[t] = items[t]
  BY <1>1 DEF TypeOK, Ledgers
<1>3. Kind[r] # "copy" => machine[r] = own[r]
  BY <1>1 DEF Running, Sound, SoundAt
<1>4. new \in Item
  BY <1>3 DEF Item, TypeOK, Wants
<1>5. TypeOK'
  BY <1>1, <1>4 DEF TypeOK, Ledgers
<1>6. /\ Kind[r] = "app" => machine[r] = Nothing
      /\ Kind[r] = "link" => machine[r] \in UserFiles \cup {Nothing}
  BY <1>1 DEF Running, StillFree
<1>7. Sound(items)'
  <2> SUFFICES ASSUME NEW t \in Targets PROVE SoundAt(items, t)'
    BY DEF Sound
  <2>1. CASE t = r
    BY <1>1, <1>2, <1>3, <1>6, <2>1, ValuesDistinct DEF SoundAt, Held
  <2>2. CASE t # r
    BY <1>1, <1>2, <2>2 DEF Running, Sound, SoundAt, Held
  <2> QED
    BY <2>1, <2>2
<1>8. Sound(ledger)'
  BY <1>1, <1>7 DEF Sound, SoundAt, Held
<1>9. StillFree'
  BY <1>1, <1>2 DEF Running, StillFree, Held
<1>10. WholeLinks' /\ OnDisk'
  BY <1>1 DEF WholeLinks, OnDisk
<1>11. Recorded'
  BY <1>1, <1>2 DEF Recorded
<1> QED
  BY <1>5, <1>7, <1>8, <1>9, <1>10, <1>11 DEF Running

(* The recorded item goes on the machine *)
LEMMA PlaceItemInv ==
    ASSUME ExposeInv, PlaceItem
    PROVE  ExposeInv'
<1> USE DEF ExposeInv
<1>1. /\ sync = "place" /\ sync' = "remove" /\ at' = Nothing
      /\ Placeable(at)
      /\ machine' = [machine EXCEPT ![at] = goal[at]]
      /\ UNCHANGED <<own, ledger, items, goal>>
  BY DEF PlaceItem
<1>2. /\ at \in Targets /\ goal[at] \in Sources
      /\ Held(items, at) /\ ledger[at] = items[at]
  BY <1>1 DEF Recorded, Running, OnDisk, Held, TypeOK, Wants
<1>3. /\ machine'[at] = goal[at]
      /\ \A t \in Targets : t # at => machine'[t] = machine[t]
  BY <1>1, <1>2 DEF TypeOK
<1>4. TypeOK'
  BY <1>1, <1>2 DEF TypeOK, Values
<1>5. Kind[at] = "link" => own[at] = Nothing /\ machine'[at] \notin UserFiles
  BY <1>1, <1>2, <1>3, ValuesDistinct DEF Sound, SoundAt, Placeable, Held
<1>6. ASSUME NEW t \in Targets
      PROVE  SoundAt(ledger, t)' /\ SoundAt(items, t)'
  <2>1. SoundAt(ledger, t) /\ SoundAt(items, t)
    BY <1>1 DEF Running, Sound
  <2>2. CASE t = at
    BY <1>1, <1>2, <1>5, <2>1, <2>2 DEF SoundAt, Held
  <2>3. CASE t # at
    BY <1>1, <1>3, <2>1, <2>3 DEF SoundAt, Held
  <2> QED
    BY <2>2, <2>3
<1>7. WholeLinks'
  BY <1>2, <1>3, ValuesDistinct DEF WholeLinks
<1>8. StillFree'
  BY <1>1, <1>2, <1>3 DEF Running, StillFree, Held
<1>9. OnDisk' /\ Recorded'
  BY <1>1 DEF Running, OnDisk, Held, Recorded
<1> QED
  BY <1>4, <1>6, <1>7, <1>8, <1>9 DEF Running, Sound

(* Sync returns or oku dies.  What a failure leaves half done is a target  *)
(* that the ledger has, and never a link.                                  *)
LEMMA ForgetInv ==
    ASSUME ExposeInv, sync # "off", Forget,
           \/ UNCHANGED machine
           \/ \E t \in Tearable : machine' = [machine EXCEPT ![t] = Partial]
    PROVE  ExposeInv'
<1> USE DEF ExposeInv
<1>1. /\ sync' = "off" /\ items' = NoItems /\ goal' = Empty /\ at' = Nothing
      /\ UNCHANGED <<own, ledger>>
  BY DEF Forget
<1>2. /\ items' \in Ledgers
      /\ goal' \in Wants
  BY <1>1 DEF NoItems, NoItem, Ledgers, Item, Empty, Wants
<1>3. Running' /\ Recorded'
  BY <1>1 DEF Running, Recorded
<1>4. CASE UNCHANGED machine
  <2>1. TypeOK'
    BY <1>1, <1>2, <1>4 DEF TypeOK
  <2>2. Sound(ledger)' /\ WholeLinks'
    BY <1>1, <1>4 DEF Sound, SoundAt, Held, WholeLinks
  <2> QED
    BY <1>3, <2>1, <2>2
<1>5. ASSUME NEW r \in Tearable, machine' = [machine EXCEPT ![r] = Partial]
      PROVE  ExposeInv'
  <2>1. r \in Targets /\ Kind[r] \in {"app", "copy"}
    BY <1>5 DEF Tearable
  <2>2. Held(ledger, r)
    BY <1>5 DEF Tearable, Leaving, Recorded, Running, OnDisk, Held
  <2>3. /\ machine' \in [Targets -> Values]
        /\ \A t \in Targets : t # r => machine'[t] = machine[t]
    BY <1>5, <2>1 DEF TypeOK, Values
  <2>4. TypeOK'
    BY <1>1, <1>2, <2>3 DEF TypeOK
  <2>5. Sound(ledger)'
    <3> SUFFICES ASSUME NEW t \in Targets PROVE SoundAt(ledger, t)'
      BY DEF Sound
    <3>1. SoundAt(ledger, t)
      BY DEF Sound
    <3>2. CASE t = r
      BY <1>1, <2>1, <2>2, <3>1, <3>2 DEF SoundAt, Held
    <3>3. CASE t # r
      BY <1>1, <2>3, <3>1, <3>3 DEF SoundAt, Held
    <3> QED
      BY <3>2, <3>3
  <2>6. WholeLinks'
    BY <2>1, <2>3 DEF WholeLinks
  <2> QED
    BY <1>3, <2>4, <2>5, <2>6
<1> QED
  BY <1>4, <1>5

(* The user changes a target while no Sync runs *)
LEMMA TouchInv ==
    ASSUME ExposeInv, NEW r \in Targets, NEW v \in UserValues \cup {Nothing}, Touch(r, v)
    PROVE  ExposeInv'
<1> USE DEF ExposeInv
<1>1. /\ sync = "off"
      /\ machine' = [machine EXCEPT ![r] = v]
      /\ own' = [own EXCEPT ![r] =
            CASE ~Held(ledger, r)              -> v
              [] Held(ledger, r) /\ Kind[r] = "copy" -> v
              [] Held(ledger, r) /\ Kind[r] = "link" ->
                    IF v \in UserLinks THEN Nothing ELSE v
              [] OTHER                         -> own[r]]
      /\ UNCHANGED <<ledger, items, goal, sync, at>>
  BY DEF Touch
<1>2. /\ machine' \in [Targets -> Values]
      /\ machine'[r] = v
      /\ \A t \in Targets : t # r => machine'[t] = machine[t]
  BY <1>1 DEF TypeOK, Values, UserValues
<1>3. /\ ~Held(ledger, r) => own'[r] = v
      /\ Held(ledger, r) /\ Kind[r] = "link" =>
            own'[r] = IF v \in UserLinks THEN Nothing ELSE v
      /\ Held(ledger, r) /\ Kind[r] \in {"app", "setting"} => own'[r] = own[r]
      /\ \A t \in Targets : t # r => own'[t] = own[t]
  BY <1>1 DEF TypeOK
<1>4. own' \in [Targets -> UserValues \cup {Nothing}]
  BY <1>1, KindAssumption DEF TypeOK, Kinds
<1>5. TypeOK'
  BY <1>1, <1>2, <1>4 DEF TypeOK
<1>6. Sound(ledger)'
  <2> SUFFICES ASSUME NEW t \in Targets PROVE SoundAt(ledger, t)'
    BY DEF Sound
  <2>1. SoundAt(ledger, t)
    BY DEF Sound
  <2>2. CASE t = r
    BY <1>1, <1>2, <1>3, <2>1, <2>2, ValuesDistinct DEF SoundAt, Held, UserValues
  <2>3. CASE t # r
    BY <1>1, <1>2, <1>3, <2>1, <2>3 DEF SoundAt, Held
  <2> QED
    BY <2>2, <2>3
<1>7. WholeLinks'
  BY <1>2, ValuesDistinct DEF WholeLinks, UserValues
<1>8. Running' /\ Recorded'
  BY <1>1 DEF Running, Recorded
<1> QED
  BY <1>5, <1>6, <1>7, <1>8

(* Every step of the ledger and of the user preserves ExposeInv *)
LEMMA NextInv == ExposeInv /\ [Next]_exposeVars => ExposeInv'
<1> SUFFICES ASSUME ExposeInv, [Next]_exposeVars PROVE ExposeInv'
  OBVIOUS
<1>1. CASE UNCHANGED exposeVars
  BY <1>1 DEF exposeVars, ExposeInv, TypeOK, Sound, SoundAt, Held, WholeLinks,
              Running, StillFree, OnDisk, Recorded
<1>2. ASSUME NEW w \in Wants, Begin(w) PROVE ExposeInv'
  BY <1>2, BeginInv
<1>3. ASSUME NEW w \in Wants, Refused(w) PROVE ExposeInv'
  BY <1>1, <1>3 DEF Refused
<1>4. CASE SyncStep
  BY <1>4, RemoveItemInv, DropItemInv, RecordItemInv, PlaceItemInv DEF SyncStep
<1>5. CASE End \/ Blocked \/ Abort
  BY <1>5, ForgetInv DEF End, Blocked, Abort
<1>6. ASSUME NEW t \in Targets, NEW v \in UserValues \cup {Nothing}, Touch(t, v)
      PROVE  ExposeInv'
  BY <1>6, TouchInv
<1> QED
  BY <1>1, <1>2, <1>3, <1>4, <1>5, <1>6 DEF Next

-----------------------------------------------------------------------------
(* ExposeInv holds in every reachable state of the ledger, whatever Syncs  *)
(* run, fail or die.                                                       *)
THEOREM ExposeInvariant == Spec => []ExposeInv
<1>1. Init => ExposeInv
  BY InitInv
<1>2. ExposeInv /\ [Next]_exposeVars => ExposeInv'
  BY NextInv
<1> QED
  BY <1>1, <1>2, PTL DEF Spec

(* The types hold, among them that the prior of an item in exposed.toml is *)
(* never a value of oku's own.                                             *)
THEOREM TypeCorrect == Spec => []TypeOK
<1>1. ExposeInv => TypeOK
  BY DEF ExposeInv
<1> QED
  BY <1>1, ExposeInvariant, PTL

(* Sync leaves what it does not hold as the user has it, at every crash    *)
(* point: OwnKept for any targets and any number of Syncs.                 *)
THEOREM OwnIsKept == Spec => []OwnKept
<1>1. ExposeInv => OwnKept
  BY DEF ExposeInv, OwnKept, Sound, SoundAt
<1> QED
  BY <1>1, ExposeInvariant, PTL

(* settingHandler puts back the user's own value: PriorIsOwn for any       *)
(* settings and any number of Syncs.                                       *)
THEOREM PriorIsKept == Spec => []PriorIsOwn
<1>1. ExposeInv => PriorIsOwn
  BY DEF ExposeInv, PriorIsOwn, Sound, SoundAt
<1> QED
  BY <1>1, ExposeInvariant, PTL

(* No step of Sync changes a file that the user put in the place of a      *)
(* link: RemoveFile keeps it and os.Symlink fails on it.                   *)
THEOREM UserFilesStay == Spec => UserFileStays
<1> DEFINE Stays == \A t \in Targets :
                Kind[t] = "link" /\ machine[t] \in UserFiles /\ sync # "off"
                    => machine'[t] = machine[t]
<1>1. ExposeInv /\ [Next]_exposeVars => [Stays]_exposeVars
  <2> SUFFICES ASSUME ExposeInv, Next,
                      NEW t \in Targets, Kind[t] = "link",
                      machine[t] \in UserFiles, sync # "off"
               PROVE  machine'[t] = machine[t]
    OBVIOUS
  <2>1. machine \in [Targets -> Values] /\ TypeOK /\ WholeLinks
    BY DEF ExposeInv, TypeOK
  <2>2. CASE SyncStep
    <3>1. ASSUME NEW r \in Targets, RemoveItem(r) PROVE machine'[t] = machine[t]
      BY <3>1, <2>1, RemovedLink DEF RemoveItem
    <3>2. CASE PlaceItem
      BY <3>2, <2>1, ValuesDistinct DEF PlaceItem, Placeable
    <3> QED
      BY <2>2, <3>1, <3>2 DEF SyncStep, DropItem, RecordItem
  <2>3. CASE End \/ Blocked \/ Abort
    BY <2>1, <2>3 DEF End, Blocked, Abort, Tearable
  <2>4. ASSUME NEW w \in Wants, Begin(w) \/ Refused(w)
        PROVE  machine'[t] = machine[t]
    BY <2>4 DEF Begin, Refused, exposeVars
  <2> QED
    BY <2>2, <2>3, <2>4 DEF Next, Touch
<1> QED
  BY <1>1, ExposeInvariant, PTL DEF Spec, UserFileStays
=============================================================================
