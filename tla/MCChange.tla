------------------------------ MODULE MCChange ------------------------------
(* Change with one target of each kind that the configuration names. *)
EXTENDS Change

CONSTANTS dotfile, copied, font, dock, s1

MCKind ==
    [t \in Targets |-> CASE t = dotfile -> "link"
                         [] t = copied  -> "copy"
                         [] t = font    -> "app"
                         [] t = dock    -> "setting"]

MCContents == Wants

(* The link has two sources, the copy and the setting come together *)
FewContents ==
    {w \in Wants : /\ \A t \in Targets : Kind[t] # "link" => w[t] \in {s1, Nothing}
                   /\ w[copied] = w[dock]}

AllSteps ==
    {"crash", "discard", "activate", "sync", "committing", "commitList",
     "commitLock", "finish", "undoList", "undoLock", "undoActivate",
     "undoSync", "undoDiscard", "undoFinish",
     "adoptLock", "unadoptList", "unadoptLock"}

(* Every step but the write of pending.toml that announces the commit *)
CommonSteps == AllSteps \ {"committing"}
=============================================================================
