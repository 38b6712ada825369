-------------------------- MODULE ApprovalsProofs --------------------------
(***************************************************************************)
(* ApprovalsHold holds of every set of commands, with any number of        *)
(* packages that ask, build and fall back to their locked version at once. *)
(*                                                                         *)
(* approvals.toml is written from what was read before the question, so    *)
(* RanApproved needs that neither the file nor what a package has read of  *)
(* it ever names a manifest without an answer (FileAgreed).  TakenAgreed   *)
(* is about packages that are done; TakenSoFar says it of every step after *)
(* the question.  SourcesTrusted rests on what a command knows of oku.toml *)
(* at each of its three reads (ReadsTrusted).                              *)
(***************************************************************************)
EXTENDS Approvals, TLAPS

Agreed == {m \in Manifests : <<"run", m>> \in answered}

FileAgreed == approvals \subseteq Agreed /\ \A p \in DOMAIN task : task[p].read \subseteq Agreed

AfterTrust == {"slot", "read", "ask", "asked", "add", "run", "done"}
AfterAge == {"trust", "trust asked"} \cup AfterTrust

\* A first download of p without an answer: TrustTaken of a new version.
DigestNeedless(p) == Package(p).stated \/ Command.acceptUnverified \/ Command.unverified = "allow"

TakenSoFar == \A p \in DOMAIN task : Installs /\ task[p].version = "new" =>
    /\ task[p].at \in AfterAge => AgeTaken(p) \/ <<"age", p>> \in answered
    /\ task[p].at \in AfterTrust => TrustTaken(p) \/ <<"trust", p>> \in answered

ReadsTrusted ==
    /\ running.at = "trust" /\ ~edited => project \ running.origins \subseteq sources
    /\ running.at = "load" /\ ~edited => project \subseteq sources
    /\ running.at = "check" => running.own \subseteq sources \/ (running.own = project /\ edited)

\* A new command finds no task done and nothing asked.
NotYet == running.at \in {"trust", "load", "check"} => \A p \in DOMAIN task : task[p].at = "age"

ApprovalsInv ==
    /\ ApprovalsTypeOK /\ FileAgreed /\ RanApproved /\ TakenSoFar /\ NobodyStuck
    /\ ReadsTrusted /\ SourcesTrusted /\ NotYet

LEMMA InstallsRuns == Installs => running # NoCommand
BY DEF Installs, NoCommand

LEMMA InstallsType ==
    ASSUME ApprovalsTypeOK, Installs, NEW p \in DOMAIN task
    PROVE  /\ running # NoCommand /\ Command \in Commands
           /\ task[p] \in Tasks
           /\ Package(p).locked \in Manifests \cup {Nobody}
<1>1. running # NoCommand
    BY InstallsRuns
<1>2. Command \in Commands /\ p \in DOMAIN Command.packages
    BY <1>1 DEF ApprovalsTypeOK, Command
<1> QED BY <1>1, <1>2, ApprovalsAssumption DEF ApprovalsTypeOK, Package

(* A step of one package: what the invariant asks of the step that its     *)
(* task comes to, and of who asks and builds after it.                     *)
LEMMA TaskMoves ==
    ASSUME ApprovalsInv, Installs, NEW p \in DOMAIN task, NEW t \in Tasks,
           task' = [task EXCEPT ![p] = t],
           UNCHANGED <<sources, project, edited, running>>,
           answered \subseteq answered',
           approvals' \subseteq Agreed', t.read \subseteq Agreed',
           t.at \in {"run", "done"} /\ ApprovalDue(p) => <<"run", t.manifest>> \in answered',
           t.version = "new" /\ t.at \in AfterAge => AgeTaken(p) \/ <<"age", p>> \in answered',
           t.version = "new" /\ t.at \in AfterTrust =>
               DigestNeedless(p) \/ <<"trust", p>> \in answered',
           \/ asking' = Nobody
           \/ asking' = p /\ t.at \in {"age asked", "trust asked", "asked", "add"}
           \/ asking' = asking /\ asking # p,
           \/ building' = Nobody
           \/ building' = p /\ t.at \in {"read", "ask", "asked", "add", "run"}
           \/ building' = building /\ building # p
    PROVE  ApprovalsInv'
<1>1. /\ DOMAIN task' = DOMAIN task /\ task' \in [DOMAIN task -> Tasks] /\ task'[p] = t
      /\ \A q \in DOMAIN task : q # p => task'[q] = task[q]
  <2>1. task \in [DOMAIN task -> Tasks]
    BY DEF ApprovalsInv, ApprovalsTypeOK
  <2>2. DOMAIN task' = DOMAIN task /\ task'[p] = t /\ \A q \in DOMAIN task : q # p => task'[q] = task[q]
    BY <2>1
  <2> QED BY <2>1, <2>2
<1>2. Agreed \subseteq Agreed' /\ Agreed' \subseteq Manifests
    BY DEF Agreed
<1>3. running # NoCommand /\ running' = running /\ Installs'
  <2>1. running' = running
    OBVIOUS
  <2>2. running # NoCommand
    BY InstallsRuns
  <2> QED BY <2>1, <2>2 DEF Installs
<1>4. ApprovalsTypeOK'
    BY <1>1, <1>2, <1>3 DEF ApprovalsInv, ApprovalsTypeOK, Command, Installs
<1>5. FileAgreed'
    BY <1>1, <1>2 DEF ApprovalsInv, FileAgreed
<1>6. RanApproved'
    BY <1>1, <1>3 DEF ApprovalsInv, RanApproved, ApprovalDue, RunsCommands, Package, Command
<1>7. TakenSoFar'
  <2> SUFFICES ASSUME NEW q \in DOMAIN task, task'[q].version = "new"
               PROVE  /\ task'[q].at \in AfterAge => AgeTaken(q) \/ <<"age", q>> \in answered'
                      /\ task'[q].at \in AfterTrust => TrustTaken(q)' \/ <<"trust", q>> \in answered'
    BY <1>1, <1>3 DEF TakenSoFar, AgeTaken, AgeDue, Package, Command
  <2>1. CASE q = p
    BY <1>1, <1>3, <2>1 DEF TrustTaken, TrustDue, DigestNeedless, Package, Command
  <2>2. CASE q # p
    BY <1>1, <1>3, <2>2 DEF ApprovalsInv, TakenSoFar, TrustTaken, TrustDue, Package, Command
  <2> QED BY <2>1, <2>2
<1>8. NobodyStuck'
  <2>1. asking' # Nobody => task'[asking'].at \in {"age asked", "trust asked", "asked", "add"}
    BY <1>1 DEF ApprovalsInv, ApprovalsTypeOK, NobodyStuck
  <2>2. building' # Nobody => task'[building'].at \in {"read", "ask", "asked", "add", "run"}
    BY <1>1 DEF ApprovalsInv, ApprovalsTypeOK, NobodyStuck
  <2> QED BY <2>1, <2>2 DEF NobodyStuck
<1>9. ReadsTrusted' /\ SourcesTrusted' /\ NotYet'
    BY <1>3 DEF ApprovalsInv, ReadsTrusted, SourcesTrusted, NotYet, Installs
<1> QED BY <1>4, <1>5, <1>6, <1>7, <1>8, <1>9 DEF ApprovalsInv

(* A package that is at no question does not hold the terminal, and one    *)
(* that is at no step of a build does not hold buildMu.                    *)
LEMMA HoldsNothing ==
    ASSUME ApprovalsInv, Installs, NEW p \in DOMAIN task
    PROVE  /\ task[p].at \notin {"age asked", "trust asked", "asked", "add"} => asking = Nobody \/ asking # p
           /\ task[p].at \notin {"read", "ask", "asked", "add", "run"} => building = Nobody \/ building # p
BY DEF ApprovalsInv, NobodyStuck

LEMMA TaskMovesOn ==
    ASSUME ApprovalsInv, Installs, NEW p \in DOMAIN task, NEW at \in TaskSteps,
           Moves(p, at), UNCHANGED Files, answered \subseteq answered',
           at \in {"run", "done"} /\ ApprovalDue(p) => <<"run", task[p].manifest>> \in answered',
           task[p].version = "new" /\ at \in AfterAge => AgeTaken(p) \/ <<"age", p>> \in answered',
           task[p].version = "new" /\ at \in AfterTrust => DigestNeedless(p) \/ <<"trust", p>> \in answered',
           \/ asking' = Nobody
           \/ asking' = p /\ at \in {"age asked", "trust asked", "asked", "add"}
           \/ asking' = asking /\ asking # p,
           \/ building' = Nobody
           \/ building' = p /\ at \in {"read", "ask", "asked", "add", "run"}
           \/ building' = building /\ building # p
    PROVE  ApprovalsInv'
<1> DEFINE t == [task[p] EXCEPT !.at = at]
<1>1. task[p] \in Tasks
    BY InstallsType DEF ApprovalsInv
<1>2. /\ t \in Tasks /\ t.at = at /\ t.read = task[p].read
      /\ t.manifest = task[p].manifest /\ t.version = task[p].version
    BY <1>1 DEF Tasks
<1>3. task' = [task EXCEPT ![p] = t]
    BY DEF Moves
<1>4. UNCHANGED <<sources, project, edited, running>> /\ approvals' = approvals
    BY DEF Files
<1>5. Agreed \subseteq Agreed'
    BY DEF Agreed
<1>6. approvals' \subseteq Agreed' /\ t.read \subseteq Agreed'
    BY <1>2, <1>4, <1>5 DEF ApprovalsInv, FileAgreed
<1> HIDE DEF t
<1> QED BY <1>2, <1>3, <1>4, <1>6, TaskMoves

(* A version that is not taken: the locked one, or none. *)
LEMMA DeclineKeeps ==
    ASSUME ApprovalsInv, Installs, NEW p \in DOMAIN task, Decline(p), UNCHANGED Files, answered' = answered,
           asking' = Nobody \/ (asking' = asking /\ task[p].at \notin {"age asked", "trust asked", "asked", "add"})
    PROVE  ApprovalsInv'
<1> DEFINE t == IF task[p].keep \/ Package(p).locked = Nobody THEN [task[p] EXCEPT !.at = "failed"]
                ELSE [task[p] EXCEPT !.at = "trust", !.keep = TRUE, !.version = "locked", !.manifest = Package(p).locked]
<1>1. task[p] \in Tasks /\ Package(p).locked \in Manifests \cup {Nobody}
    BY InstallsType DEF ApprovalsInv
<1>2. /\ t \in Tasks /\ t.at \in {"failed", "trust"} /\ t.read = task[p].read
      /\ t.at = "trust" => t.version = "locked"
  <2>1. CASE task[p].keep \/ Package(p).locked = Nobody
    BY <1>1, <2>1 DEF Tasks, TaskSteps
  <2>2. CASE ~(task[p].keep \/ Package(p).locked = Nobody)
    BY <1>1, <2>2 DEF Tasks, TaskSteps
  <2> QED BY <2>1, <2>2
<1>3. task' = [task EXCEPT ![p] = t]
    BY DEF Decline
<1>4. UNCHANGED <<sources, project, edited, running>> /\ approvals' = approvals /\ Agreed' = Agreed
    BY DEF Files, Agreed
<1>5. approvals' \subseteq Agreed' /\ t.read \subseteq Agreed'
    BY <1>2, <1>4 DEF ApprovalsInv, FileAgreed
<1>6. building' = Nobody \/ (building' = building /\ building # p)
    BY DEF Decline
<1>7. asking' = Nobody \/ (asking' = asking /\ asking # p)
    BY HoldsNothing
<1>8. /\ ~(t.at \in {"run", "done"}) /\ ~(t.version = "new" /\ t.at \in AfterAge) /\ ~(t.at \in AfterTrust)
    BY <1>2 DEF AfterAge, AfterTrust
<1> HIDE DEF t
<1> QED BY <1>2, <1>3, <1>4, <1>5, <1>6, <1>7, <1>8, TaskMoves

LEMMA NotTakenKeeps ==
    ASSUME ApprovalsInv, Installs, NEW p \in DOMAIN task, NotTaken(p), UNCHANGED <<Files, building>>, answered' = answered,
           task[p].at \in {"age", "age asked"},
           asking' = Nobody \/ (asking' = asking /\ task[p].at = "age")
    PROVE  ApprovalsInv'
<1> DEFINE t == IF Package(p).locked = Nobody THEN [task[p] EXCEPT !.at = "failed"]
                ELSE [task[p] EXCEPT !.at = "trust", !.version = "locked"]
<1>1. task[p] \in Tasks
    BY InstallsType DEF ApprovalsInv
<1>2. /\ t \in Tasks /\ t.at \in {"failed", "trust"} /\ t.read = task[p].read
      /\ t.at = "trust" => t.version = "locked"
    BY <1>1 DEF Tasks, TaskSteps
<1>3. task' = [task EXCEPT ![p] = t]
    BY DEF NotTaken
<1>4. UNCHANGED <<sources, project, edited, running>> /\ approvals' = approvals /\ Agreed' = Agreed
    BY DEF Files, Agreed
<1>5. approvals' \subseteq Agreed' /\ t.read \subseteq Agreed'
    BY <1>2, <1>4 DEF ApprovalsInv, FileAgreed
<1>6. building' = Nobody \/ (building' = building /\ building # p)
    BY HoldsNothing
<1>7. asking' = Nobody \/ (asking' = asking /\ asking # p)
    BY HoldsNothing
<1>8. /\ ~(t.at \in {"run", "done"}) /\ ~(t.version = "new" /\ t.at \in AfterAge) /\ ~(t.at \in AfterTrust)
    BY <1>2 DEF AfterAge, AfterTrust
<1> HIDE DEF t
<1> QED BY <1>2, <1>3, <1>4, <1>5, <1>6, <1>7, <1>8, TaskMoves

LEMMA GateAgeKeeps ==
    ASSUME ApprovalsInv, NEW p \in DOMAIN task, GateAge(p)
    PROVE  ApprovalsInv'
<1>1. /\ Installs /\ task[p].at = "age" /\ UNCHANGED Files /\ building' = building /\ answered' = answered
      /\ asking = Nobody \/ asking # p
      /\ building' = Nobody \/ (building' = building /\ building # p)
    BY HoldsNothing DEF GateAge
<1>2. CASE AgeTaken(p) /\ Moves(p, "trust") /\ asking' = asking
    BY <1>1, <1>2, TaskMovesOn DEF TaskSteps, AfterTrust
<1>3. CASE AgeAsks(p) /\ asking = Nobody /\ asking' = p /\ Moves(p, "age asked")
    BY <1>1, <1>3, TaskMovesOn DEF TaskSteps, AfterTrust, AfterAge
<1>4. CASE ~AgeTaken(p) /\ ~AgeAsks(p) /\ NotTaken(p) /\ asking' = asking
    BY <1>1, <1>4, NotTakenKeeps
<1> QED BY <1>2, <1>3, <1>4 DEF GateAge

LEMMA AnswerAgeKeeps ==
    ASSUME ApprovalsInv, NEW p \in DOMAIN task, AnswerAge(p)
    PROVE  ApprovalsInv'
<1>1. /\ Installs /\ task[p].at = "age asked" /\ UNCHANGED Files /\ building' = building /\ asking' = Nobody
      /\ building' = Nobody \/ (building' = building /\ building # p)
    BY HoldsNothing DEF AnswerAge
<1>2. CASE Moves(p, "trust") /\ answered' = answered \cup {<<"age", p>>}
    BY <1>1, <1>2, TaskMovesOn DEF TaskSteps, AfterTrust
<1>3. CASE NotTaken(p) /\ answered' = answered
    BY <1>1, <1>3, NotTakenKeeps
<1> QED BY <1>2, <1>3 DEF AnswerAge

(* What a package that comes to a step after a question keeps from before. *)
LEMMA TakenBefore ==
    ASSUME ApprovalsInv, Installs, NEW p \in DOMAIN task
    PROVE  /\ task[p].version = "new" /\ task[p].at \in AfterAge => AgeTaken(p) \/ <<"age", p>> \in answered
           /\ task[p].version = "new" /\ task[p].at \in AfterTrust => DigestNeedless(p) \/ <<"trust", p>> \in answered
           /\ task[p].version = "new" /\ TrustTaken(p) => DigestNeedless(p)
BY DEF ApprovalsInv, TakenSoFar, TrustTaken, TrustDue, DigestNeedless

LEMMA TrustFirstKeeps ==
    ASSUME ApprovalsInv, NEW p \in DOMAIN task, TrustFirst(p)
    PROVE  ApprovalsInv'
<1>1. /\ Installs /\ task[p].at = "trust" /\ UNCHANGED Files /\ answered' = answered
      /\ asking = Nobody \/ asking # p
      /\ building = Nobody \/ building # p
      /\ task[p].version = "new" => AgeTaken(p) \/ <<"age", p>> \in answered
    BY HoldsNothing, TakenBefore DEF TrustFirst, AfterAge
<1>2. CASE TrustTaken(p) /\ Moves(p, "slot") /\ UNCHANGED <<asking, building>>
    BY <1>1, <1>2, TaskMovesOn, TakenBefore DEF TaskSteps
<1>3. CASE TrustAsks(p) /\ asking = Nobody /\ asking' = p /\ Moves(p, "trust asked") /\ UNCHANGED building
    BY <1>1, <1>3, TaskMovesOn DEF TaskSteps, AfterTrust
<1>4. CASE ~TrustTaken(p) /\ ~TrustAsks(p) /\ Decline(p) /\ UNCHANGED asking
    BY <1>1, <1>4, DeclineKeeps
<1> QED BY <1>2, <1>3, <1>4 DEF TrustFirst

LEMMA AnswerTrustKeeps ==
    ASSUME ApprovalsInv, NEW p \in DOMAIN task, AnswerTrust(p)
    PROVE  ApprovalsInv'
<1>1. /\ Installs /\ task[p].at = "trust asked" /\ UNCHANGED Files /\ asking' = Nobody
      /\ building = Nobody \/ building # p
      /\ task[p].version = "new" => AgeTaken(p) \/ <<"age", p>> \in answered
    BY HoldsNothing, TakenBefore DEF AnswerTrust, AfterAge
<1>2. CASE Moves(p, "slot") /\ answered' = answered \cup {<<"trust", p>>} /\ UNCHANGED building
    BY <1>1, <1>2, TaskMovesOn DEF TaskSteps
<1>3. CASE Decline(p) /\ answered' = answered
    BY <1>1, <1>3, DeclineKeeps
<1> QED BY <1>2, <1>3 DEF AnswerTrust

LEMMA SlotKeeps ==
    ASSUME ApprovalsInv, NEW p \in DOMAIN task, Slot(p)
    PROVE  ApprovalsInv'
<1>1. /\ Installs /\ task[p].at = "slot" /\ Moves(p, "read") /\ UNCHANGED Files /\ answered' = answered /\ asking' = asking
      /\ asking = Nobody \/ asking # p
      /\ building = Nobody \/ building # p
      /\ building' = building \/ building' = p
      /\ task[p].version = "new" => AgeTaken(p) \/ <<"age", p>> \in answered
      /\ task[p].version = "new" => DigestNeedless(p) \/ <<"trust", p>> \in answered
    BY HoldsNothing, TakenBefore DEF Slot, AfterAge, AfterTrust
<1> QED BY <1>1, TaskMovesOn DEF TaskSteps

LEMMA ReadApprovalsKeeps ==
    ASSUME ApprovalsInv, NEW p \in DOMAIN task, ReadApprovals(p)
    PROVE  ApprovalsInv'
<1> DEFINE t == [task[p] EXCEPT !.read = approvals, !.at = AfterRead(p)]
<1>1. /\ Installs /\ task[p].at = "read" /\ UNCHANGED Files /\ answered' = answered /\ asking' = asking
      /\ asking = Nobody \/ asking # p
      /\ task[p].version = "new" => AgeTaken(p) \/ <<"age", p>> \in answered
      /\ task[p].version = "new" => DigestNeedless(p) \/ <<"trust", p>> \in answered
    BY HoldsNothing, TakenBefore DEF ReadApprovals, AfterAge, AfterTrust
<1>2. /\ AfterRead(p) \in {"run", "failed", "add", "ask"}
      /\ AfterRead(p) = "run" /\ ApprovalDue(p) => task[p].manifest \in approvals
    BY DEF Has, AfterRead
<1>3. task[p] \in Tasks /\ approvals \subseteq Manifests
    BY <1>1, InstallsType DEF ApprovalsInv, ApprovalsTypeOK
<1>4. task' = [task EXCEPT ![p] = t] /\ building' = IF building = p /\ task'[p].at = "failed" THEN Nobody ELSE building
    BY DEF ReadApprovals
<1>5. t \in Tasks /\ t.at = AfterRead(p) /\ t.read = approvals /\ t.manifest = task[p].manifest /\ t.version = task[p].version
    BY <1>2, <1>3 DEF Tasks, TaskSteps
<1> HIDE DEF t
<1>6. task'[p] = t
    BY <1>4
<1>7. \/ building' = Nobody
      \/ building' = p /\ t.at \in {"read", "ask", "asked", "add", "run"}
      \/ building' = building /\ building # p
    BY <1>2, <1>4, <1>5, <1>6
<1>8. UNCHANGED <<sources, project, edited, running>> /\ approvals' = approvals /\ Agreed' = Agreed
    BY <1>1 DEF Files, Agreed
<1>9. approvals' \subseteq Agreed' /\ t.read \subseteq Agreed'
    BY <1>5, <1>8 DEF ApprovalsInv, FileAgreed
<1>10. t.at \in {"run", "done"} /\ ApprovalDue(p) => <<"run", t.manifest>> \in answered'
    BY <1>1, <1>2, <1>5, <1>8, <1>9 DEF Agreed
<1> QED BY <1>1, <1>4, <1>5, <1>7, <1>8, <1>9, <1>10, TaskMoves

LEMMA AskKeeps ==
    ASSUME ApprovalsInv, NEW p \in DOMAIN task, Ask(p)
    PROVE  ApprovalsInv'
<1>1. /\ Installs /\ task[p].at = "ask" /\ UNCHANGED Files /\ answered' = answered /\ asking = Nobody
      /\ task[p].version = "new" => AgeTaken(p) \/ <<"age", p>> \in answered
      /\ task[p].version = "new" => DigestNeedless(p) \/ <<"trust", p>> \in answered
    BY TakenBefore DEF Ask, AfterAge, AfterTrust
<1>2. CASE asking' = p /\ Moves(p, "asked") /\ building' = building
    BY <1>1, <1>2, TaskMovesOn DEF TaskSteps
<1>3. CASE Decline(p) /\ asking' = asking
    BY <1>1, <1>3, DeclineKeeps
<1> QED BY <1>2, <1>3 DEF Ask

LEMMA AnswerKeeps ==
    ASSUME ApprovalsInv, NEW p \in DOMAIN task, Answer(p)
    PROVE  ApprovalsInv'
<1>1. /\ Installs /\ task[p].at = "asked" /\ UNCHANGED Files /\ answered' = answered
      /\ task[p].version = "new" => AgeTaken(p) \/ <<"age", p>> \in answered
      /\ task[p].version = "new" => DigestNeedless(p) \/ <<"trust", p>> \in answered
    BY TakenBefore DEF Answer, AfterAge, AfterTrust
<1>2. CASE Moves(p, "add") /\ asking' = asking /\ building' = building
    BY <1>1, <1>2, TaskMovesOn DEF TaskSteps
<1>3. CASE Decline(p) /\ asking' = Nobody
    BY <1>1, <1>3, DeclineKeeps
<1> QED BY <1>2, <1>3 DEF Answer

LEMMA AddKeeps ==
    ASSUME ApprovalsInv, NEW p \in DOMAIN task, Add(p)
    PROVE  ApprovalsInv'
<1> DEFINE t == [task[p] EXCEPT !.at = "run"]
<1>1. /\ Installs /\ task[p].at = "add" /\ UNCHANGED <<sources, project, edited, running>> /\ building' = building
      /\ approvals' = task[p].read \cup {task[p].manifest}
      /\ answered' = answered \cup {<<"run", task[p].manifest>>}
      /\ asking' = IF asking = p THEN Nobody ELSE asking
      /\ task[p].version = "new" => AgeTaken(p) \/ <<"age", p>> \in answered
      /\ task[p].version = "new" => DigestNeedless(p) \/ <<"trust", p>> \in answered
    BY TakenBefore DEF Add, AfterAge, AfterTrust
<1>2. task[p] \in Tasks
    BY <1>1, InstallsType DEF ApprovalsInv
<1>3. /\ t \in Tasks /\ t.at = "run" /\ t.read = task[p].read /\ t.manifest = task[p].manifest /\ t.version = task[p].version
      /\ task[p].manifest \in Manifests
    BY <1>2 DEF Tasks, TaskSteps
<1>4. task' = [task EXCEPT ![p] = t]
    BY DEF Add, Moves
<1>5. Agreed \cup {task[p].manifest} \subseteq Agreed'
    BY <1>1, <1>3 DEF Agreed
<1>6. task[p].read \subseteq Agreed
    BY DEF ApprovalsInv, FileAgreed
<1>7. approvals' \subseteq Agreed' /\ t.read \subseteq Agreed'
    BY <1>1, <1>3, <1>5, <1>6
<1> HIDE DEF t
<1> QED BY <1>1, <1>3, <1>4, <1>7, TaskMoves

LEMMA RealizeKeeps ==
    ASSUME ApprovalsInv, NEW p \in DOMAIN task, Realize(p)
    PROVE  ApprovalsInv'
<1>1. /\ Installs /\ task[p].at = "run" /\ Moves(p, "done") /\ UNCHANGED Files /\ answered' = answered /\ asking' = asking
      /\ asking = Nobody \/ asking # p
      /\ building' = Nobody \/ (building' = building /\ building # p)
      /\ task[p].version = "new" => AgeTaken(p) \/ <<"age", p>> \in answered
      /\ task[p].version = "new" => DigestNeedless(p) \/ <<"trust", p>> \in answered
    BY HoldsNothing, TakenBefore DEF Realize, AfterAge, AfterTrust
<1>2. ApprovalDue(p) => <<"run", task[p].manifest>> \in answered
    BY <1>1 DEF ApprovalsInv, RanApproved
<1> QED BY <1>1, <1>2, TaskMovesOn DEF TaskSteps

(***************************************************************************)
(* The steps of the command, and of what is around it.                     *)
(***************************************************************************)

LEMMA RunKeeps ==
    ASSUME ApprovalsInv, NEW c \in Commands, Run(c)
    PROVE  ApprovalsInv'
<1> DEFINE start(p) == [at |-> "age", keep |-> FALSE, version |-> "new", manifest |-> c.packages[p].manifest, read |-> {}]
<1>1. /\ running' = [at |-> "trust", command |-> c, origins |-> Untrusted, own |-> {}]
      /\ UNCHANGED <<approvals, sources, project, edited, asking, building, answered>>
      /\ running = NoCommand
    BY DEF Run
<1>2. \A p \in DOMAIN c.packages : start(p) \in Tasks /\ start(p).at = "age" /\ start(p).read = {}
    BY ApprovalsAssumption DEF Tasks, TaskSteps
<1>3. task' = [p \in DOMAIN c.packages |-> start(p)]
    BY DEF Run
<1> HIDE DEF start
<1>4. /\ DOMAIN task' = DOMAIN c.packages /\ task' \in [DOMAIN task' -> Tasks]
      /\ \A p \in DOMAIN task' : task'[p].at = "age" /\ task'[p].read = {}
    BY <1>2, <1>3
<1>5. /\ running' \in [at : {"trust", "load", "check", "install"}, command : Commands,
                       origins : SUBSET Origins, own : SUBSET Origins]
      /\ running'.at = "trust" /\ running'.command = c /\ running'.origins = project \ sources
    BY <1>1 DEF Untrusted, ApprovalsInv, ApprovalsTypeOK
<1>6. asking = Nobody /\ building = Nobody
    BY <1>1 DEF ApprovalsInv, ApprovalsTypeOK, Installs, NoCommand
<1>7. ApprovalsTypeOK'
    BY <1>1, <1>4, <1>5, <1>6 DEF ApprovalsInv, ApprovalsTypeOK, Command
<1>8. FileAgreed'
    BY <1>1, <1>4 DEF ApprovalsInv, FileAgreed, Agreed
<1>9. ReadsTrusted' /\ NotYet'
    BY <1>1, <1>4, <1>5 DEF ReadsTrusted, NotYet
<1>10. ~Installs'
    BY <1>5 DEF Installs
<1> QED BY <1>7, <1>8, <1>9, <1>10 DEF ApprovalsInv, RanApproved, TakenSoFar, NobodyStuck, SourcesTrusted

(* A command that is over leaves what the files hold. *)
LEMMA OverKeeps ==
    ASSUME ApprovalsInv, running' = NoCommand, UNCHANGED <<approvals, project>>,
           sources' \subseteq Origins, edited' \in BOOLEAN, asking' = Nobody, building' = Nobody,
           task' \in [DOMAIN task' -> Tasks], \A p \in DOMAIN task' : task'[p].read \subseteq Agreed,
           Agreed \subseteq Agreed'
    PROVE  ApprovalsInv'
<1>1. running'.at = "idle" /\ ~Installs'
    BY DEF NoCommand, Installs
<1>2. ApprovalsTypeOK'
    BY DEF ApprovalsInv, ApprovalsTypeOK
<1>3. FileAgreed'
    BY DEF ApprovalsInv, FileAgreed
<1>4. ReadsTrusted' /\ NotYet'
    BY <1>1 DEF ReadsTrusted, NotYet
<1> QED BY <1>1, <1>2, <1>3, <1>4 DEF ApprovalsInv, RanApproved, TakenSoFar, NobodyStuck, SourcesTrusted

(* A step of a command before its packages. *)
LEMMA ReadKeeps ==
    ASSUME ApprovalsInv, running # NoCommand, ~Installs, UNCHANGED <<approvals, project, task, asking, building, answered>>,
           running' \in [at : {"trust", "load", "check", "install"}, command : Commands,
                         origins : SUBSET Origins, own : SUBSET Origins],
           running'.command = running.command, sources' \subseteq Origins, edited' \in BOOLEAN,
           ReadsTrusted', SourcesTrusted'
    PROVE  ApprovalsInv'
<1>1. asking = Nobody /\ building = Nobody /\ \A p \in DOMAIN task : task[p].at = "age"
    BY DEF ApprovalsInv, ApprovalsTypeOK, NotYet, Installs
<1>2. ApprovalsTypeOK'
    BY <1>1 DEF ApprovalsInv, ApprovalsTypeOK, Command
<1>3. FileAgreed'
    BY DEF ApprovalsInv, FileAgreed, Agreed
<1>4. RanApproved' /\ TakenSoFar' /\ NobodyStuck' /\ NotYet'
    BY <1>1 DEF RanApproved, TakenSoFar, NobodyStuck, NotYet, AfterAge, AfterTrust
<1> QED BY <1>2, <1>3, <1>4 DEF ApprovalsInv

LEMMA TrustProjectKeeps ==
    ASSUME ApprovalsInv, TrustProject
    PROVE  ApprovalsInv'
<1>1. /\ running.at = "trust" /\ UNCHANGED <<approvals, project, task, asking, building, answered>>
      /\ running # NoCommand /\ ~Installs
    BY DEF TrustProject, NoCommand, Installs
<1>2. /\ running \in [at : {"trust", "load", "check", "install"}, command : Commands,
                      origins : SUBSET Origins, own : SUBSET Origins]
      /\ sources \subseteq Origins /\ edited \in BOOLEAN /\ asking = Nobody /\ building = Nobody
      /\ task \in [DOMAIN task -> Tasks]
    BY <1>1 DEF ApprovalsInv, ApprovalsTypeOK
<1>3. CASE /\ sources' = sources \cup running.origins /\ edited' = edited
           /\ running' = [running EXCEPT !.at = "load"]
  <2>1. /\ running' \in [at : {"trust", "load", "check", "install"}, command : Commands,
                         origins : SUBSET Origins, own : SUBSET Origins]
        /\ running'.at = "load" /\ running'.command = running.command
    BY <1>2, <1>3
  <2>2. ReadsTrusted' /\ SourcesTrusted'
    BY <1>1, <1>3, <2>1 DEF ApprovalsInv, ReadsTrusted, SourcesTrusted, Installs
  <2>3. sources' \subseteq Origins
    BY <1>2, <1>3
  <2> QED BY <1>1, <1>2, <1>3, <2>1, <2>2, <2>3, ReadKeeps
<1>4. CASE sources' = sources /\ running' = NoCommand /\ edited' = FALSE
  <2>1. (\A p \in DOMAIN task : task[p].read \subseteq Agreed) /\ Agreed' = Agreed
    BY <1>1 DEF ApprovalsInv, FileAgreed, Agreed
  <2> QED BY <1>1, <1>2, <1>4, <2>1, OverKeeps
<1> QED BY <1>3, <1>4 DEF TrustProject

LEMMA LoadOwnKeeps ==
    ASSUME ApprovalsInv, LoadOwn
    PROVE  ApprovalsInv'
<1>1. /\ running.at = "load" /\ UNCHANGED <<approvals, sources, project, edited, task, asking, building, answered>>
      /\ running # NoCommand /\ ~Installs /\ running' = [running EXCEPT !.at = "check", !.own = project]
    BY DEF LoadOwn, NoCommand, Installs
<1>2. /\ running \in [at : {"trust", "load", "check", "install"}, command : Commands,
                      origins : SUBSET Origins, own : SUBSET Origins]
      /\ sources \subseteq Origins /\ project \subseteq Origins /\ edited \in BOOLEAN
    BY <1>1 DEF ApprovalsInv, ApprovalsTypeOK
<1>3. /\ running' \in [at : {"trust", "load", "check", "install"}, command : Commands,
                       origins : SUBSET Origins, own : SUBSET Origins]
      /\ running'.at = "check" /\ running'.own = project /\ running'.command = running.command
    BY <1>1, <1>2
<1>4. ReadsTrusted' /\ SourcesTrusted'
    BY <1>1, <1>3 DEF ApprovalsInv, ReadsTrusted, SourcesTrusted, Installs
<1> QED BY <1>1, <1>2, <1>3, <1>4, ReadKeeps

LEMMA CheckSourcesKeeps ==
    ASSUME ApprovalsInv, CheckSources
    PROVE  ApprovalsInv'
<1>1. /\ running.at = "check" /\ UNCHANGED <<approvals, sources, project, task, asking, building, answered>>
      /\ running # NoCommand /\ ~Installs /\ edited' \in BOOLEAN
    BY DEF CheckSources, NoCommand, Installs
<1>2. /\ running \in [at : {"trust", "load", "check", "install"}, command : Commands,
                      origins : SUBSET Origins, own : SUBSET Origins]
      /\ sources \subseteq Origins /\ asking = Nobody /\ building = Nobody /\ task \in [DOMAIN task -> Tasks]
    BY <1>1 DEF ApprovalsInv, ApprovalsTypeOK
<1>3. CASE Untrusted = {}
  <2>1. running' = [running EXCEPT !.at = "install"]
    BY <1>3 DEF CheckSources
  <2>2. /\ running' \in [at : {"trust", "load", "check", "install"}, command : Commands,
                         origins : SUBSET Origins, own : SUBSET Origins]
        /\ running'.at = "install" /\ running'.own = running.own /\ running'.command = running.command
    BY <1>2, <2>1
  <2>3. running.own \subseteq sources
    BY <1>1, <1>3 DEF ApprovalsInv, ReadsTrusted, Untrusted
  <2>4. ReadsTrusted' /\ SourcesTrusted'
    BY <1>1, <2>2, <2>3 DEF ReadsTrusted, SourcesTrusted
  <2> QED BY <1>1, <1>2, <2>2, <2>4, ReadKeeps
<1>4. CASE Untrusted # {}
  <2>1. running' = NoCommand
    BY <1>4 DEF CheckSources
  <2>2. (\A p \in DOMAIN task : task[p].read \subseteq Agreed) /\ Agreed' = Agreed
    BY <1>1 DEF ApprovalsInv, FileAgreed, Agreed
  <2> QED BY <1>1, <1>2, <2>1, <2>2, OverKeeps
<1> QED BY <1>3, <1>4

LEMMA RecordTrustKeeps ==
    ASSUME ApprovalsInv, NEW o \in SUBSET Origins, RecordTrust(o)
    PROVE  ApprovalsInv'
<1>1. /\ running = NoCommand /\ running' = NoCommand /\ sources' = sources \cup o
      /\ UNCHANGED <<approvals, project, edited, task, asking, building, answered>>
    BY DEF RecordTrust
<1>2. asking = Nobody /\ building = Nobody
    BY <1>1 DEF ApprovalsInv, ApprovalsTypeOK, Installs, NoCommand
<1>3. sources' \subseteq Origins /\ edited' \in BOOLEAN /\ task \in [DOMAIN task -> Tasks]
    BY <1>1 DEF ApprovalsInv, ApprovalsTypeOK
<1>4. (\A p \in DOMAIN task : task[p].read \subseteq Agreed) /\ Agreed' = Agreed
    BY <1>1 DEF ApprovalsInv, FileAgreed, Agreed
<1> QED BY <1>1, <1>2, <1>3, <1>4, OverKeeps

LEMMA EditProjectKeeps ==
    ASSUME ApprovalsInv, NEW o \in SUBSET Origins, EditProject(o)
    PROVE  ApprovalsInv'
<1>1. /\ ~edited /\ project' = o /\ edited' = (running # NoCommand)
      /\ UNCHANGED <<approvals, sources, running, task, asking, building, answered>>
    BY DEF EditProject
<1>2. ApprovalsTypeOK'
    BY <1>1 DEF ApprovalsInv, ApprovalsTypeOK, Installs, Command
<1>3. FileAgreed' /\ NotYet'
    BY <1>1 DEF ApprovalsInv, FileAgreed, Agreed, NotYet
<1>4. ReadsTrusted'
  <2>1. running.at \in {"trust", "load", "check"} => running # NoCommand
    BY DEF NoCommand
  <2> QED BY <1>1, <2>1 DEF ApprovalsInv, ReadsTrusted
<1>5. RanApproved' /\ TakenSoFar'
    BY <1>1 DEF ApprovalsInv, RanApproved, TakenSoFar, Installs, ApprovalDue, RunsCommands,
       AgeTaken, AgeDue, TrustTaken, TrustDue, Package, Command
<1>6. NobodyStuck' /\ SourcesTrusted'
    BY <1>1 DEF ApprovalsInv, NobodyStuck, SourcesTrusted, Installs
<1> QED BY <1>2, <1>3, <1>4, <1>5, <1>6 DEF ApprovalsInv

LEMMA EndsKeeps ==
    ASSUME ApprovalsInv, Ends
    PROVE  ApprovalsInv'
<1>1. /\ running' = NoCommand /\ task' = <<>> /\ asking' = Nobody /\ building' = Nobody /\ edited' = FALSE
      /\ UNCHANGED <<approvals, sources, project>> /\ answered' = {a \in answered : a[1] = "run"}
    BY DEF Ends
<1>2. DOMAIN task' = {} /\ task' \in [DOMAIN task' -> Tasks]
    BY <1>1
<1>3. Agreed \subseteq Agreed'
    BY <1>1 DEF Agreed
<1>4. sources' \subseteq Origins
    BY <1>1 DEF ApprovalsInv, ApprovalsTypeOK
<1> QED BY <1>1, <1>2, <1>3, <1>4, OverKeeps

(* The types hold, what runs commands has the user's answer, a version and *)
(* a download without proof are taken with an answer or a setting, nobody  *)
(* waits for a terminal or a build that nobody gives up, and a project     *)
(* installs from trusted sources, for any commands and packages            *)
(* (approver, ageChecker, trustChecker, trustProject).                     *)
THEOREM ApprovalsAsked == ApprovalsSpec => []ApprovalsHold
<1>1. ApprovalsInit => ApprovalsInv
  <2> SUFFICES ASSUME ApprovalsInit PROVE ApprovalsInv
    OBVIOUS
  <2>1. running.at = "idle" /\ ~Installs /\ DOMAIN task = {} /\ task \in [DOMAIN task -> Tasks]
    BY DEF ApprovalsInit, NoCommand, Installs
  <2>2. ApprovalsTypeOK
    BY <2>1 DEF ApprovalsInit, ApprovalsTypeOK
  <2> QED BY <2>1, <2>2 DEF ApprovalsInit, ApprovalsInv, FileAgreed, RanApproved, TakenSoFar, NobodyStuck,
          ReadsTrusted, SourcesTrusted, NotYet
<1>2. ApprovalsInv /\ [ApprovalsNext]_approvalVars => ApprovalsInv'
  <2> SUFFICES ASSUME ApprovalsInv, [ApprovalsNext]_approvalVars PROVE ApprovalsInv'
    OBVIOUS
  <2>1. CASE \E c \in Commands : Run(c)
    BY <2>1, RunKeeps
  <2>2. CASE TrustProject \/ LoadOwn \/ CheckSources
    BY <2>2, TrustProjectKeeps, LoadOwnKeeps, CheckSourcesKeeps
  <2>3. CASE \E o \in SUBSET Origins : RecordTrust(o) \/ EditProject(o)
    BY <2>3, RecordTrustKeeps, EditProjectKeeps
  <2>4. ASSUME NEW p \in DOMAIN task,
               \/ GateAge(p) \/ AnswerAge(p) \/ TrustFirst(p) \/ AnswerTrust(p)
               \/ Slot(p) \/ ReadApprovals(p) \/ Ask(p) \/ Answer(p) \/ Add(p) \/ Realize(p)
        PROVE  ApprovalsInv'
    BY <2>4, GateAgeKeeps, AnswerAgeKeeps, TrustFirstKeeps, AnswerTrustKeeps, SlotKeeps,
       ReadApprovalsKeeps, AskKeeps, AnswerKeeps, AddKeeps, RealizeKeeps
  <2>5. CASE Finish \/ Killed
    BY <2>5, EndsKeeps DEF Finish, Killed
  <2>6. CASE UNCHANGED approvalVars
    <3>1. ApprovalsTypeOK' /\ FileAgreed' /\ NotYet'
        BY <2>6 DEF approvalVars, ApprovalsInv, ApprovalsTypeOK, FileAgreed, Agreed, NotYet, Installs, Command
    <3>2. RanApproved' /\ TakenSoFar'
        BY <2>6 DEF approvalVars, ApprovalsInv, RanApproved, TakenSoFar, Installs, ApprovalDue, RunsCommands,
           AgeTaken, AgeDue, TrustTaken, TrustDue, Package, Command
    <3>3. NobodyStuck' /\ ReadsTrusted' /\ SourcesTrusted'
        BY <2>6 DEF approvalVars, ApprovalsInv, NobodyStuck, ReadsTrusted, SourcesTrusted, Installs
    <3> QED BY <3>1, <3>2, <3>3 DEF ApprovalsInv
  <2> QED BY <2>1, <2>2, <2>3, <2>4, <2>5, <2>6 DEF ApprovalsNext
<1>3. ApprovalsInv => ApprovalsHold
    BY DEF ApprovalsInv, ApprovalsHold, TakenSoFar, TakenAgreed, AfterAge, AfterTrust
<1> QED BY <1>1, <1>2, <1>3, PTL DEF ApprovalsSpec

=============================================================================
