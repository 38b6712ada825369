------------------------------- MODULE Switch -------------------------------
(***************************************************************************)
(* What a change of the machine promises: the active generation, oku.toml  *)
(* and oku.lock change together and at once, or not at all, whatever fails *)
(* and wherever oku is killed.  The only other thing that ever changes a   *)
(* list is an edit of the user's.                                          *)
(*                                                                         *)
(* This is the reading of D59 (src/prd/decisions.md) and of B132, B133 and *)
(* B527 (src/prd/behaviours.md) that Change implements.                    *)
(***************************************************************************)
EXTENDS Naturals

CONSTANTS
    Contents,   \* what a generation may hold, and what oku.lock pins
    None,       \* no change is under way
    Withdrawn   \* the change under way can only be taken back

VARIABLES
    asked,      \* the content that the change under way leads to
    content,    \* what the active generation holds
    toml,       \* the text of oku.toml
    locked,     \* the text of oku.lock
    count       \* the edits the user made

switchVars == <<asked, content, toml, locked, count>>

SwitchInit == asked = None /\ count = 0

Ask(c) ==
    /\ asked = None
    /\ asked' = c
    /\ UNCHANGED <<content, toml, locked, count>>

Withdraw ==
    /\ asked \in Contents
    /\ asked' = Withdrawn
    /\ UNCHANGED <<content, toml, locked, count>>

(* A change that did not finish leaves everything as it was.  The lists    *)
(* may show edits that the user made meanwhile.                            *)
Undo ==
    /\ asked # None
    /\ asked' = None
    /\ UNCHANGED <<toml, locked>> \/ count > 0
    /\ UNCHANGED <<content, count>>

(* A change that finishes leaves the generation and the lock it asked for. *)
(* One that keeps the generation may pin what it does not install.  A lock *)
(* that the user edits while the change writes it is the user's.           *)
Commit ==
    /\ asked \in Contents
    /\ asked' = None
    /\ content' = asked
    /\ locked' = asked \/ asked = content \/ count > 0
    /\ UNCHANGED count

(* The user edits one of the lists, or something that is no list *)
Edit ==
    /\ count' = count + 1
    /\ toml' = toml \/ locked' = locked
    /\ UNCHANGED <<asked, content>>

SwitchNext == (\E c \in Contents : Ask(c)) \/ Withdraw \/ Undo \/ Commit \/ Edit

SwitchSpec == SwitchInit /\ [][SwitchNext]_switchVars
=============================================================================
