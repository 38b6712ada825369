----------------------------- MODULE Approvals -----------------------------
(***************************************************************************)
(* What oku asks before it takes a version, trusts a download, runs a       *)
(* manifest's commands or installs from a source.                          *)
(*                                                                         *)
(*   src/internal/cli/approve.go      ageChecker, trustChecker, approver   *)
(*   src/internal/cli/install.go      install, gateAge, fromCache, buildHere *)
(*   src/internal/cli/sourcetrust.go  untrusted, trustProject, recordTrust *)
(*   src/internal/trust/trust.go      Approvals, Sources                   *)
(*   src/internal/status/status.go    pause                                *)
(*                                                                         *)
(* The packages of a command install at once and ask one after the other.  *)
(* The approver reads approvals.toml before its question and writes what   *)
(* it read, with one more, after it.  A declined version falls back to the *)
(* locked one, through the same checks.                                    *)
(***************************************************************************)
EXTENDS Naturals, FiniteSets

CONSTANTS
    Manifests,      \* the manifests, by their hash
    Nobody,         \* no manifest, no package
    Commands,       \* the commands: their packages, flags and settings
    Origins,        \* the sources that lists name
    MaxRuns         \* bound on the commands that run

ASSUME ApprovalsAssumption ==
    /\ Nobody \notin Manifests /\ MaxRuns \in Nat
    /\ \A c \in Commands : \A p \in DOMAIN c.packages :
        /\ c.packages[p].manifest \in Manifests /\ c.packages[p].locked \in Manifests \cup {Nobody}
        /\ c.packages[p].how \in {"download", "build", "cached"}

VARIABLES
    approvals,      \* the manifests in approvals.toml
    sources,        \* the origins in sources.toml
    project,        \* the origins that the project's oku.toml names
    edited,         \* whether oku.toml changed since the command began
    running,        \* the command that runs, and how far trustProject and loadList are
    task,           \* how far the install of each package is
    asking,         \* the package whose question is on the terminal: Reporter.prompt
    building,       \* the package that holds buildMu
    runs,           \* commands so far
    answered        \* what the user agreed to (history)

approvalVars == <<approvals, sources, project, edited, running, task, asking, building, runs, answered>>

NoCommand == [at |-> "idle"]
Command == running.command
Package(p) == Command.packages[p]
Installs == running.at = "install"

-----------------------------------------------------------------------------
(* Sources of a project.  trustProject and loadList read oku.toml, each on *)
(* its own, and the user or git may write it in between.                   *)
Untrusted == project \ sources

Run(c) ==
    /\ running = NoCommand /\ runs < MaxRuns /\ runs' = runs + 1
    /\ running' = [at |-> "trust", command |-> c, origins |-> Untrusted, own |-> {}]
    /\ task' = [p \in DOMAIN c.packages |-> [at |-> "age", keep |-> FALSE, version |-> "new",
                                             manifest |-> c.packages[p].manifest, read |-> {}]]
    /\ UNCHANGED <<approvals, sources, project, edited, asking, building, answered>>

(* Without a terminal oku refuses; a no ends the command                   *)
TrustProject ==
    /\ running.at = "trust"
    /\ \/ /\ running.origins = {} \/ Command.yes \/ Command.terminal
          /\ sources' = sources \cup running.origins /\ edited' = edited
          /\ running' = [running EXCEPT !.at = "load"]
       \/ /\ running.origins # {} /\ ~Command.yes
          /\ sources' = sources /\ running' = NoCommand /\ edited' = FALSE
    /\ UNCHANGED <<approvals, project, task, asking, building, runs, answered>>

LoadOwn ==
    /\ running.at = "load" /\ running' = [running EXCEPT !.at = "check", !.own = project]
    /\ UNCHANGED <<approvals, sources, project, edited, task, asking, building, runs, answered>>

CheckSources ==
    /\ running.at = "check"
    /\ running' = IF Untrusted = {} THEN [running EXCEPT !.at = "install"] ELSE NoCommand
    /\ edited' = (edited /\ Untrusted = {})
    /\ UNCHANGED <<approvals, sources, project, task, asking, building, runs, answered>>

(* oku allow, and a ref that the user types, trust what they name           *)
RecordTrust(origins) ==
    /\ running = NoCommand /\ origins # {} /\ sources' = sources \cup origins
    /\ UNCHANGED <<approvals, project, edited, running, task, asking, building, runs, answered>>

EditProject(origins) ==
    /\ ~edited /\ origins # project /\ project' = origins /\ edited' = (running # NoCommand)
    /\ UNCHANGED <<approvals, sources, running, task, asking, building, runs, answered>>

-----------------------------------------------------------------------------
(* One package.                                                            *)
Moves(p, at) == task' = [task EXCEPT ![p].at = at]
Files == <<approvals, sources, project, edited, running, runs>>

(* A notApprovedError: the package goes back to its locked version, through *)
(* the manifest that oku.lock pins, or fails                               *)
Decline(p) ==
    /\ task' = [task EXCEPT ![p] =
                  IF @.keep \/ Package(p).locked = Nobody THEN [@ EXCEPT !.at = "failed"]
                  ELSE [@ EXCEPT !.at = "trust", !.keep = TRUE, !.version = "locked", !.manifest = Package(p).locked]]
    /\ building' = IF building = p THEN Nobody ELSE building

(* gateAge with the ageChecker: a version without a release time           *)
AgeDue(p) == ~Package(p).dated

AgeAsks(p) == AgeDue(p) /\ ~Command.acceptAge /\ Command.unknownAge = "warn" /\ Command.terminal
AgeTaken(p) == ~AgeDue(p) \/ Command.acceptAge \/ Command.unknownAge = "allow"

(* errNotTaken keeps the locked version under the new manifest              *)
NotTaken(p) ==
    task' = [task EXCEPT ![p] = IF Package(p).locked = Nobody THEN [@ EXCEPT !.at = "failed"]
                                ELSE [@ EXCEPT !.at = "trust", !.version = "locked"]]

GateAge(p) ==
    /\ Installs /\ task[p].at = "age"
    /\ \/ AgeTaken(p) /\ Moves(p, "trust") /\ asking' = asking
       \/ AgeAsks(p) /\ asking = Nobody /\ asking' = p /\ Moves(p, "age asked")
       \/ ~AgeTaken(p) /\ ~AgeAsks(p) /\ NotTaken(p) /\ asking' = asking
    /\ UNCHANGED <<Files, building, answered>>

AnswerAge(p) ==
    /\ Installs /\ task[p].at = "age asked" /\ asking' = Nobody
    /\ \/ Moves(p, "trust") /\ answered' = answered \cup {<<"age", p>>}
       \/ NotTaken(p) /\ answered' = answered
    /\ UNCHANGED <<Files, building>>

(* trustChecker: the first download of a version that nothing states a      *)
(* digest for, and oku.lock pins none                                      *)
TrustDue(p) == ~Package(p).stated /\ task[p].version = "new"
TrustTaken(p) == ~TrustDue(p) \/ Command.acceptUnverified \/ Command.unverified = "allow"
TrustAsks(p) == ~TrustTaken(p) /\ Command.unverified = "warn" /\ Command.terminal

TrustFirst(p) ==
    /\ Installs /\ task[p].at = "trust"
    /\ \/ TrustTaken(p) /\ Moves(p, "slot") /\ UNCHANGED <<asking, building>>
       \/ TrustAsks(p) /\ asking = Nobody /\ asking' = p /\ Moves(p, "trust asked") /\ UNCHANGED building
       \/ ~TrustTaken(p) /\ ~TrustAsks(p) /\ Decline(p) /\ UNCHANGED asking
    /\ UNCHANGED <<Files, answered>>

AnswerTrust(p) ==
    /\ Installs /\ task[p].at = "trust asked" /\ asking' = Nobody
    /\ \/ Moves(p, "slot") /\ answered' = answered \cup {<<"trust", p>>} /\ UNCHANGED building
       \/ Decline(p) /\ answered' = answered
    /\ UNCHANGED Files

(* A build, also one that a cache has, holds buildMu from here             *)
Slot(p) ==
    /\ Installs /\ task[p].at = "slot" /\ Moves(p, "read")
    /\ IF Package(p).how = "download" THEN building' = building ELSE building = Nobody /\ building' = p
    /\ UNCHANGED <<Files, asking, answered>>

(* What the approver asks about: the commands that will run here, and [env] *)
RunsCommands(p) == Package(p).runs /\ Package(p).how # "cached"
ApprovalDue(p) == RunsCommands(p) \/ Package(p).env

(* Has that takes the approval of any version of the package               *)
HasAny(p) == {Package(p).manifest, Package(p).locked} \cap approvals # {}

Has(p) == task[p].manifest \in approvals

AfterRead(p) ==
    CASE ~ApprovalDue(p) -> "run"
      [] RunsCommands(p) /\ Command.refuseUnsandboxed -> "failed"
      [] Has(p) -> "run"
      [] OTHER -> IF Command.yes THEN "add" ELSE "ask"

(* The approvals are read before the question                              *)
ReadApprovals(p) ==
    /\ Installs /\ task[p].at = "read"
    /\ task' = [task EXCEPT ![p] = [@ EXCEPT !.read = approvals, !.at = AfterRead(p)]]
    /\ building' = IF building = p /\ task'[p].at = "failed" THEN Nobody ELSE building
    /\ UNCHANGED <<Files, asking, answered>>

(* Pause waits for the question before it; without a terminal oku declines *)
Ask(p) ==
    /\ Installs /\ task[p].at = "ask" /\ asking = Nobody
    /\ IF Command.terminal THEN asking' = p /\ Moves(p, "asked") /\ UNCHANGED building
       ELSE Decline(p) /\ UNCHANGED asking
    /\ UNCHANGED <<Files, answered>>

Answer(p) ==
    /\ Installs /\ task[p].at = "asked"
    /\ \/ Moves(p, "add") /\ UNCHANGED <<asking, building>>
       \/ Decline(p) /\ asking' = Nobody
    /\ UNCHANGED <<Files, answered>>

(* Add appends to what was read and writes the file                        *)
Add(p) ==
    /\ Installs /\ task[p].at = "add" /\ Moves(p, "run")
    /\ approvals' = task[p].read \cup {task[p].manifest}
    /\ asking' = IF asking = p THEN Nobody ELSE asking
    /\ answered' = answered \cup {<<"run", task[p].manifest>>}
    /\ UNCHANGED <<sources, project, edited, running, runs, building>>

Realize(p) ==
    /\ Installs /\ task[p].at = "run" /\ Moves(p, "done")
    /\ building' = IF building = p THEN Nobody ELSE building
    /\ UNCHANGED <<Files, asking, answered>>

(* The command ends with its packages, or is killed                        *)
Ends ==
    /\ running' = NoCommand /\ task' = <<>> /\ asking' = Nobody /\ building' = Nobody
    /\ edited' = FALSE /\ answered' = {a \in answered : a[1] = "run"}
    /\ UNCHANGED <<approvals, sources, project, runs>>
Finish == Installs /\ (\A p \in DOMAIN task : task[p].at \in {"done", "failed"}) /\ Ends
Killed == running # NoCommand /\ Ends

-----------------------------------------------------------------------------
ApprovalsInit ==
    /\ approvals = {} /\ sources = {} /\ project = {} /\ edited = FALSE
    /\ running = NoCommand /\ task = <<>> /\ asking = Nobody /\ building = Nobody
    /\ runs = 0 /\ answered = {}

ApprovalsNext ==
    \/ \E c \in Commands : Run(c)
    \/ TrustProject \/ LoadOwn \/ CheckSources
    \/ \E o \in SUBSET Origins : RecordTrust(o) \/ EditProject(o)
    \/ \E p \in DOMAIN task :
        \/ GateAge(p) \/ AnswerAge(p) \/ TrustFirst(p) \/ AnswerTrust(p)
        \/ Slot(p) \/ ReadApprovals(p) \/ Ask(p) \/ Answer(p) \/ Add(p) \/ Realize(p)
    \/ Finish \/ Killed

ApprovalsSpec == ApprovalsInit /\ [][ApprovalsNext]_approvalVars

-----------------------------------------------------------------------------
TaskSteps == {"age", "age asked", "trust", "trust asked", "slot", "read", "ask", "asked", "add", "run", "done", "failed"}
Tasks == [at : TaskSteps, keep : BOOLEAN, version : {"new", "locked"}, manifest : Manifests, read : SUBSET Manifests]

ApprovalsTypeOK ==
    /\ approvals \subseteq Manifests /\ sources \subseteq Origins /\ project \subseteq Origins /\ edited \in BOOLEAN
    /\ running # NoCommand =>
        /\ running \in [at : {"trust", "load", "check", "install"}, command : Commands,
                        origins : SUBSET Origins, own : SUBSET Origins]
        /\ DOMAIN task = DOMAIN Command.packages
    /\ task \in [DOMAIN task -> Tasks]
    /\ {asking, building} \subseteq DOMAIN task \cup {Nobody}
    /\ ~Installs => asking = Nobody /\ building = Nobody

(* What runs commands or sets variables has a manifest that the user agreed *)
(* to, in this command or an earlier one, also when a declined version fell *)
(* back to the locked one.                                                 *)
RanApproved ==
    \A p \in DOMAIN task :
        Installs /\ task[p].at \in {"run", "done"} /\ ApprovalDue(p) => <<"run", task[p].manifest>> \in answered

(* A version without a release time, and a first download without a digest, *)
(* are taken only by a setting, a flag or an answer of this command.       *)
TakenAgreed ==
    \A p \in DOMAIN task : Installs /\ task[p].at = "done" /\ task[p].version = "new" =>
        /\ AgeTaken(p) \/ <<"age", p>> \in answered
        /\ TrustTaken(p) \/ <<"trust", p>> \in answered

(* However the packages wait for the terminal and for the build, one of     *)
(* them can go on.                                                         *)
NobodyStuck ==
    Installs => /\ asking # Nobody => task[asking].at \in {"age asked", "trust asked", "asked", "add"}
                /\ building # Nobody => task[building].at \in {"read", "ask", "asked", "add", "run"}

(* A project installs only from sources that are trusted, although         *)
(* oku.toml may change once while the command reads it three times.        *)
SourcesTrusted == Installs => running.own \subseteq sources

(* The types, and all of these, hold of the questions that oku asks.       *)
ApprovalsHold == ApprovalsTypeOK /\ RanApproved /\ TakenAgreed /\ NobodyStuck /\ SourcesTrusted

(* oku never asks twice about a manifest: behaviours.md:1189.               *)
NeverAskedTwice ==
    \A p \in DOMAIN task : Installs /\ task[p].at = "asked" => <<"run", task[p].manifest>> \notin answered

=============================================================================
