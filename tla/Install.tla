------------------------------ MODULE Install ------------------------------
(***************************************************************************)
(* The packages of a list, installed in parallel with the deps they share. *)
(*                                                                         *)
(*   src/internal/cli/reconcile.go   syncRun.install                       *)
(*   src/internal/cli/install.go     install, installDeps, depCache, buildMu *)
(*   src/internal/cli/sync.go        parallel, drift, driftError           *)
(*                                                                         *)
(* Each package of the list, a root, has a goroutine that installs its     *)
(* deps in their order and then the package.  A dep goes through depCache, *)
(* so that one root installs it and the others wait.  What a dep needs is  *)
(* known when its manifest was read, so nothing rules out a cycle between  *)
(* the deps of two roots.  Store has what an install does to the disk.     *)
(*                                                                         *)
(* A key of depCache is a dep with its constraint and its pin.  Here every *)
(* root pins a dep the same way, as in the first sync of a list.           *)
(***************************************************************************)
EXTENDS Naturals, Sequences, FiniteSets

CONSTANTS
    Packages,   \* the packages: roots and deps
    None,       \* no package
    Lists       \* the lists to install: what is in them and what goes wrong

Errors == {"none", "cycle", "shared cycle", "drift", "failed", "cancelled"}

ASSUME ListsAssumption ==
    /\ None \notin Packages
    /\ \A l \in Lists :
        /\ l.roots \subseteq Packages
        /\ l.needs \in [Packages -> Seq(Packages)]
        /\ l.bad \in [Packages -> {"none", "drift", "failed"}]
        /\ l.built \subseteq Packages
        /\ l.limit \in Nat \ {0}
        /\ l.interrupts \in BOOLEAN

VARIABLES
    list,       \* the list: it never changes
    stack,      \* what each root installs: a package above the deps it is for
    at,         \* where the goroutine of each root is
    err,        \* the error that each root returns up its stack
    entries,    \* depCache.entries: the root that installs a dep, and the result
    waiting,    \* depCache.waiting: the dep that each root waits for
    builder,    \* the root that holds buildMu
    failed,     \* the first root that failed
    cancelled,  \* the context of the run is cancelled
    interrupted,\* and so is the context of the command
    closures,   \* the closure that each root that ended got
    outcome     \* what install returns: the names of the roots and why

installVars == <<list, stack, at, err, entries, waiting, builder, failed, cancelled,
                 interrupted, closures, outcome>>

NoEntry == [root |-> None, done |-> FALSE, err |-> "none", closure |-> {}]

Steps == {"queued", "fetch", "deps", "wait", "lock", "realize", "return", "cancel", "ended"}

(* A frame of a stack: a package, the deps that are left, and what the     *)
(* others gave                                                             *)
Frame(p) == [pkg |-> p, left |-> list.needs[p], closure |-> {}]

Frames == [pkg : Packages, left : Seq(Packages), closure : SUBSET Packages]

(* Every variable holds a value of its kind: install reports packages only, *)
(* and a goroutine that is in a package has that package on its stack.      *)
InstallTypeOK ==
    /\ list \in Lists
    /\ stack \in [Packages -> Seq(Frames)]
    /\ at \in [Packages -> Steps]
    /\ err \in [Packages -> Errors]
    /\ entries \in [Packages -> [root : Packages \cup {None}, done : BOOLEAN, err : Errors,
                                 closure : SUBSET Packages]]
    /\ waiting \in [Packages -> Packages \cup {None}]
    /\ builder \in Packages \cup {None}
    /\ failed \in Packages \cup {None}
    /\ cancelled \in BOOLEAN /\ interrupted \in BOOLEAN
    /\ closures \in [Packages -> SUBSET Packages]
    /\ outcome \in [why : {"none", "ok", "interrupted"} \cup Errors, names : SUBSET Packages]
    /\ \A r \in Packages : stack[r] = <<>> <=> at[r] \in {"queued", "cancel", "ended"}
    /\ \A r \in Packages : at[r] = "wait" <=> waiting[r] # None

InstallInit ==
    /\ list \in Lists
    /\ stack = [r \in Packages |-> <<>>]
    /\ at = [r \in Packages |-> IF r \in list.roots THEN "queued" ELSE "ended"]
    /\ err = [r \in Packages |-> "none"]
    /\ entries = [p \in Packages |-> NoEntry]
    /\ waiting = [r \in Packages |-> None]
    /\ builder = None
    /\ failed = None
    /\ cancelled = FALSE
    /\ interrupted = FALSE
    /\ closures = [r \in Packages |-> {}]
    /\ outcome = [why |-> "none", names |-> {}]

(***************************************************************************)
(* The goroutine of root r.                                                *)
(***************************************************************************)

Top(r) == stack[r][1]

Go(r, step) == at' = [at EXCEPT ![r] = step]

Push(r, p) == stack' = [stack EXCEPT ![r] = <<Frame(p)>> \o @]

(* The error goes up the stack *)
Fail(r, why) ==
    /\ err' = [err EXCEPT ![r] = why]
    /\ Go(r, "return")

(* The slots that are taken: a root that waits for a dep keeps its slot *)
Slots == {r \in Packages : at[r] \notin {"queued", "ended"}}

Start(r) ==
    /\ at[r] = "queued"
    /\ Cardinality(Slots) < list.limit
    /\ IF cancelled
       THEN Go(r, "ended") /\ UNCHANGED stack
       ELSE Go(r, "fetch") /\ Push(r, r)
    /\ UNCHANGED <<list, err, entries, waiting, builder, failed, cancelled, interrupted, closures, outcome>>

(* Up to the deps: the manifest and the release.  It may be another than   *)
(* oku.lock pins, and any request fails once the context is cancelled.     *)
Fetch(r) ==
    /\ at[r] = "fetch"
    /\ \/ list.bad[Top(r).pkg] = "drift" /\ Fail(r, "drift")
       \/ Go(r, "deps") /\ UNCHANGED err
       \/ cancelled /\ Fail(r, "cancelled")
    /\ UNCHANGED <<list, stack, entries, waiting, builder, failed, cancelled, interrupted, closures, outcome>>

(* The refs being installed above the next dep *)
Above(r) == {stack[r][i].pkg : i \in DOMAIN stack[r]}

(* Root r is among the roots that an entry of root q waits for: q, the root *)
(* of the entry that q waits for, and so on.  A root that was woken is in   *)
(* waiting until it has the lock of the cache.                              *)
Closed(roots) ==
    \A q \in roots : waiting[q] # None => entries[waiting[q]].root \in roots

(* WaitsOn that looks no further than the entry *)
WaitsOnEntry(q, r) == q = r

WaitsOn(q, r) ==
    \A roots \in SUBSET Packages : q \in roots /\ Closed(roots) => r \in roots

(* A frame with its next dep installed *)
Taken(f, got) == [pkg |-> f.pkg, left |-> Tail(f.left), closure |-> f.closure \cup got]

(* The entry of a dep that is installed, or failed *)
Done(e, why, got) == [root |-> e.root, done |-> TRUE, err |-> why, closure |-> got]

(* What the dep at the head of the list gave *)
TakeDep(r, d) ==
    IF entries[d].err # "none"
    THEN Fail(r, entries[d].err) /\ UNCHANGED stack
    ELSE /\ stack' = [stack EXCEPT ![r][1] = Taken(@, entries[d].closure)]
         /\ Go(r, "deps")
         /\ UNCHANGED err

(* NextDep that waits with no look at who waits for whom *)
NextDepWaits(r) ==
    /\ at[r] = "deps" /\ Top(r).left # <<>>
    /\ LET d == Head(Top(r).left)
       IN  IF entries[d].root = None
           THEN /\ entries' = [entries EXCEPT ![d].root = r]
                /\ Push(r, d)
                /\ Go(r, "fetch")
                /\ UNCHANGED <<err, waiting>>
           ELSE IF entries[d].done
           THEN TakeDep(r, d) /\ UNCHANGED <<entries, waiting>>
           ELSE /\ waiting' = [waiting EXCEPT ![r] = d]
                /\ Go(r, "wait")
                /\ UNCHANGED <<stack, err, entries>>
    /\ UNCHANGED <<list, builder, failed, cancelled, interrupted, closures, outcome>>

(* The next dep: one that is above is a cycle, and depCache.do has the rest: *)
(* the first root installs it, and the others take the result or wait       *)
NextDep(r) ==
    /\ at[r] = "deps" /\ Top(r).left # <<>>
    /\ LET d == Head(Top(r).left)
       IN  IF d \in Above(r)
           THEN Fail(r, "cycle") /\ UNCHANGED <<stack, entries, waiting>>
           ELSE IF entries[d].root = None
           THEN /\ entries' = [entries EXCEPT ![d].root = r]
                /\ Push(r, d)
                /\ Go(r, "fetch")
                /\ UNCHANGED <<err, waiting>>
           ELSE IF entries[d].done
           THEN TakeDep(r, d) /\ UNCHANGED <<entries, waiting>>
           ELSE IF WaitsOn(entries[d].root, r)
           THEN Fail(r, "shared cycle") /\ UNCHANGED <<stack, entries, waiting>>
           ELSE /\ waiting' = [waiting EXCEPT ![r] = d]
                /\ Go(r, "wait")
                /\ UNCHANGED <<stack, err, entries>>
    /\ UNCHANGED <<list, builder, failed, cancelled, interrupted, closures, outcome>>

Wake(r) ==
    /\ at[r] = "wait" /\ entries[waiting[r]].done
    /\ waiting' = [waiting EXCEPT ![r] = None]
    /\ TakeDep(r, waiting[r])
    /\ UNCHANGED <<list, entries, builder, failed, cancelled, interrupted, closures, outcome>>

(* The deps are there.  A build waits for buildMu. *)
DepsDone(r) ==
    /\ at[r] = "deps" /\ Top(r).left = <<>>
    /\ Go(r, IF Top(r).pkg \in list.built THEN "lock" ELSE "realize")
    /\ UNCHANGED <<list, stack, err, entries, waiting, builder, failed, cancelled, interrupted, closures, outcome>>

Lock(r) ==
    /\ at[r] = "lock" /\ builder = None
    /\ builder' = r
    /\ Go(r, "realize")
    /\ UNCHANGED <<list, stack, err, entries, waiting, failed, cancelled, interrupted, closures, outcome>>

(* Realize that gives the others a dep with no closure *)
RealizeBare(r) ==
    LET top == Top(r)
    IN  /\ at[r] = "realize" /\ list.bad[top.pkg] = "none"
        /\ builder' = IF builder = r THEN None ELSE builder
        /\ IF Len(stack[r]) = 1
           THEN /\ closures' = [closures EXCEPT ![r] = top.closure \cup {top.pkg}]
                /\ stack' = [stack EXCEPT ![r] = <<>>]
                /\ Go(r, "ended")
                /\ UNCHANGED entries
           ELSE /\ entries' = [entries EXCEPT ![top.pkg] = Done(@, "none", {top.pkg})]
                /\ stack' = [stack EXCEPT ![r] = <<Taken(@[2], top.closure \cup {top.pkg})>> \o SubSeq(@, 3, Len(@))]
                /\ Go(r, "deps")
                /\ UNCHANGED closures
        /\ UNCHANGED <<list, err, waiting, failed, cancelled, interrupted, outcome>>

(* The package is in the store, or its download or build failed *)
Realize(r) ==
    LET top == Top(r)
        got == top.closure \cup {top.pkg}
    IN  /\ at[r] = "realize"
        /\ builder' = IF builder = r THEN None ELSE builder
        /\ \/ /\ \/ list.bad[top.pkg] # "none" /\ Fail(r, list.bad[top.pkg])
                 \/ cancelled /\ Fail(r, "cancelled")
              /\ UNCHANGED <<stack, entries, closures>>
           \/ /\ list.bad[top.pkg] = "none"
              /\ UNCHANGED err
              /\ IF Len(stack[r]) = 1
                 THEN /\ closures' = [closures EXCEPT ![r] = got]
                      /\ stack' = [stack EXCEPT ![r] = <<>>]
                      /\ Go(r, "ended")
                      /\ UNCHANGED entries
                 ELSE /\ entries' = [entries EXCEPT ![top.pkg] = Done(@, "none", got)]
                      /\ stack' = [stack EXCEPT ![r] = <<Taken(@[2], got)>> \o SubSeq(@, 3, Len(@))]
                      /\ Go(r, "deps")
                      /\ UNCHANGED closures
        /\ UNCHANGED <<list, waiting, failed, cancelled, interrupted, outcome>>

(* Return that stops at a drift as it does at a failure *)
ReturnAtDrift(r) ==
    /\ at[r] = "return"
    /\ stack' = [stack EXCEPT ![r] = Tail(@)]
    /\ IF Len(stack[r]) > 1
       THEN /\ entries' = [entries EXCEPT ![Top(r).pkg] = Done(@, err[r], {})]
            /\ UNCHANGED <<at, failed>>
       ELSE /\ failed' = IF failed = None THEN r ELSE failed
            /\ Go(r, IF failed = None THEN "cancel" ELSE "ended")
            /\ UNCHANGED entries
    /\ UNCHANGED <<list, err, waiting, builder, cancelled, interrupted, closures, outcome>>

(* An error leaves one package after the other.  Each dep on the way is     *)
(* done, with that error.  The first root that fails for another reason     *)
(* than a drift cancels the rest.                                           *)
Return(r) ==
    /\ at[r] = "return"
    /\ stack' = [stack EXCEPT ![r] = Tail(@)]
    /\ IF Len(stack[r]) > 1
       THEN /\ entries' = [entries EXCEPT ![Top(r).pkg] = Done(@, err[r], {})]
            /\ UNCHANGED <<at, failed>>
       ELSE /\ failed' = IF err[r] # "drift" /\ failed = None THEN r ELSE failed
            /\ Go(r, IF err[r] # "drift" /\ failed = None THEN "cancel" ELSE "ended")
            /\ UNCHANGED entries
    /\ UNCHANGED <<list, err, waiting, builder, cancelled, interrupted, closures, outcome>>

Cancel(r) ==
    /\ at[r] = "cancel"
    /\ cancelled' = TRUE
    /\ Go(r, "ended")
    /\ UNCHANGED <<list, stack, err, entries, waiting, builder, failed, interrupted, closures, outcome>>

RootStep(r) ==
    \/ Start(r) \/ Fetch(r) \/ NextDep(r) \/ Wake(r) \/ DepsDone(r)
    \/ Lock(r) \/ Realize(r) \/ Return(r) \/ Cancel(r)

(***************************************************************************)
(* The command.                                                            *)
(***************************************************************************)

(* The user interrupts the command *)
Interrupt ==
    /\ list.interrupts /\ outcome.why = "none"
    /\ cancelled' = TRUE
    /\ interrupted' = TRUE
    /\ UNCHANGED <<list, stack, at, err, entries, waiting, builder, failed, closures, outcome>>

Drifted == {r \in list.roots : err[r] = "drift"}

(* Finish that names the root that failed when none did *)
FinishNamesFailed ==
    /\ outcome.why = "none"
    /\ \A r \in list.roots : at[r] = "ended"
    /\ outcome' = IF interrupted THEN [why |-> "interrupted", names |-> {}]
                  ELSE IF failed # None \/ Drifted # {}
                  THEN [why |-> IF failed # None THEN err[failed] ELSE "drift", names |-> {failed}]
                  ELSE [why |-> "ok", names |-> list.roots]
    /\ UNCHANGED <<list, stack, at, err, entries, waiting, builder, failed, cancelled, interrupted, closures>>

(* wg.Wait, and then the one failure, or every drift, or the packages *)
Finish ==
    /\ outcome.why = "none"
    /\ \A r \in list.roots : at[r] = "ended"
    /\ outcome' = IF interrupted THEN [why |-> "interrupted", names |-> {}]
                  ELSE IF failed # None THEN [why |-> err[failed], names |-> {failed}]
                  ELSE IF Drifted # {} THEN [why |-> "drift", names |-> Drifted]
                  ELSE [why |-> "ok", names |-> list.roots]
    /\ UNCHANGED <<list, stack, at, err, entries, waiting, builder, failed, cancelled, interrupted, closures>>

InstallNext ==
    \/ \E r \in Packages : RootStep(r)
    \/ Finish
    \/ Interrupt

(* The Go runtime runs every goroutine that can go on, and a request ends *)
InstallSpec ==
    /\ InstallInit /\ [][InstallNext]_installVars
    /\ \A r \in Packages : WF_installVars(RootStep(r))
    /\ WF_installVars(Finish)

(***************************************************************************)
(* Properties.                                                             *)
(***************************************************************************)

(* The packages that p needs, with p *)
Needed(p) ==
    {q \in Packages :
        \A ps \in SUBSET Packages :
            p \in ps /\ (\A x \in ps : \A i \in DOMAIN list.needs[x] : list.needs[x][i] \in ps) => q \in ps}

(* Some package that p needs is needed by one of its own deps *)
NeedsCycle(p) ==
    \E q \in Needed(p) : \E i \in DOMAIN list.needs[q] : q \in Needed(list.needs[q][i])

(* The roots in waiting never wait for each other, also while one that was *)
(* woken is still in it: depCache.do comes to an end, and no two roots     *)
(* wait forever.                                                           *)
WaitsEnd ==
    \A r \in Packages : waiting[r] # None => ~WaitsOn(entries[waiting[r]].root, r)

(* The closure of a package that was installed has every package it needs, *)
(* also when another root installed the dep: gc keeps what is in it.  None *)
(* of them needs itself, and install reports success only with all.        *)
ClosuresWhole ==
    /\ \A r \in list.roots :
        closures[r] # {} => closures[r] = Needed(r) /\ ~NeedsCycle(r)
    /\ outcome.why = "ok" => \A r \in list.roots : closures[r] # {}

(* What install reports is the failure that stopped the others, never a    *)
(* job that stopped because of it.                                         *)
CauseNamed == outcome.why # "cancelled"

(* When packages drifted from oku.lock and nothing else failed, the error  *)
(* names every one of them, so that one oku update accepts them all.       *)
DriftNamed ==
    outcome.why = "drift" =>
        \A r \in list.roots : (\E p \in Needed(r) : list.bad[p] = "drift") => r \in outcome.names

(* The report names what went wrong: CauseNamed and DriftNamed. *)
ReportTrue == CauseNamed /\ DriftNamed

(* An install ends, whatever the deps need and whatever fails: no root     *)
(* waits for a dep, a slot or a build that never comes.                    *)
RunEnds == <>(outcome.why # "none")

(* What manifest.md says of the error: two manifests depend on each other. *)
(* A list without a cycle is not refused for one.                          *)
CycleIsReal ==
    \A r \in list.roots : err[r] = "shared cycle" => \E q \in list.roots : NeedsCycle(q)

============================================================================
