------------------------------- MODULE MCHook -------------------------------
(* Hook in six settings (moving between two projects, with all that a list *)
(* can say; one project whose files change; three shells that an older oku *)
(* set up; exec with its own files), and Approvals with commands of two    *)
(* packages.                                                               *)
EXTENDS Hook, Approvals

MCNames == {"PATH", "OKU_ENV", "A", "B", "L"}

Val(v) == [is |-> "set", value |-> v]
Pre(v) == [is |-> "prepend", value |-> v]
Unset == [is |-> "unset"]
Required == [is |-> "required"]

TheList(fs, env) == [files |-> fs, env |-> env]
DotEnv(path, optional, unless, execOnly) ==
    [path |-> path, optional |-> optional, unless |-> unless, execOnly |-> execOnly]

File0(text, tracked) == [text |-> text, time |-> IF text = None THEN 0 ELSE 1, tracked |-> tracked]

Project(d, env, packages) ==
    [toml |-> d \o "/toml", local |-> d \o "/local", env |-> env, bin |-> d \o "/bin", packages |-> packages]

Global == [toml |-> "global", bin |-> "gbin", packages |-> Empty]

Shell(dir, vars, local) ==
    [dir |-> dir, local |-> local, session |-> <<>>, step |-> "read", record |-> None, holds |-> FALSE,
     active |-> None, own |-> vars, calm |-> TRUE, denied |-> {}, late |-> FALSE,
     x |-> [vars |-> vars, exported |-> Empty, passed |-> Empty, added |-> Empty, changed |-> {},
            oldPath |-> None, oldKeys |-> {}]]

Plain == [n \in MCNames |-> CASE n = "PATH" -> <<"gbin", "bin">> [] n = "A" -> <<"a">> [] OTHER -> None]

Still == [edits |-> {}, entries |-> {}, reloads |-> FALSE, sessions |-> {}, changing |-> {},
          writes |-> {}, pulls |-> {}, added |-> {}]

(* p reads A to set B, unsets A and prepends to L; q sets A over itself,   *)
(* prepends to PATH and sets L, which the user's list prepends to.         *)
Moving ==
    [edits |-> {<<"A", <<"mine">>>>, <<"A", None>>, <<"L", <<"mine">>>>, <<"L", None>>, <<"B", <<"mine">>>>},
     entries |-> {"p/bin"}, reloads |-> TRUE, sessions |-> {<<>>, <<"tool">>},
     global |-> Global, dirs |-> {"home", "p", "q"},
     projects |-> [d \in {"p", "q"} |-> Project(d, Empty, IF d = "p" THEN "B" :> <<"pkg">> ELSE Empty)],
     files |-> [f \in {"global", "p/toml", "p/local", "q/toml", "q/local"} |->
        IF f \in {"global", "p/toml", "q/toml"} THEN File0(f, f # "global") ELSE File0(None, FALSE)],
     contents |-> [f \in {"global", "p/toml", "q/toml"} |->
        TheList(<<>>, CASE f = "global" -> "L" :> Pre(<<"glib">>)
          [] f = "p/toml" -> [n \in {"A", "B", "L"} |->
                CASE n = "A" -> Unset [] n = "B" -> Val(<<"b", "B">>) [] n = "L" -> Pre(<<"plib">>)]
          [] f = "q/toml" -> [n \in {"A", "L", "PATH"} |->
                CASE n = "A" -> Val(<<"q", "A">>) [] n = "L" -> Val(<<"qlib", "A">>) [] n = "PATH" -> Pre(<<"qtools">>)])],
     shell |-> Shell("home", Plain, TRUE)] @@ Still

(* A list with a .env file of the user, one that git tracks, an overlay    *)
(* for OKU_ENV=dev and one that is local.                                  *)
ChangingFiles ==
    [global |-> Global, dirs |-> {"home", "p"},
     projects |-> [d \in {"p"} |-> Project(d, "dev" :> "p/dev", Empty)],
     changing |-> {"p"},
     files |-> [f \in {"global", "p/toml", "p/local", "p/dev", "mine.env", "repo.env"} |->
        CASE f = "p/toml" -> File0("list", TRUE)
          [] f = "p/dev" -> File0("dev", TRUE)
          [] f = "repo.env" -> File0("repo", TRUE)
          [] OTHER -> File0(None, FALSE)],
     contents |-> [t \in {"list", "list2", "broken", "dev", "repo", "one", "two", "local", "pulled", "dev2"} |->
        CASE t = "list" -> TheList(<<DotEnv("mine.env", TRUE, {}, FALSE), DotEnv("repo.env", FALSE, {"B"}, FALSE)>>, Empty)
          [] t = "list2" -> TheList(<<DotEnv("mine.env", TRUE, {}, FALSE)>>, "B" :> Val(<<"new">>))
          [] t = "broken" -> TheList(<<>>, "PATH" :> Val(<<"bin">>))
          [] t \in {"dev", "dev2", "local"} -> TheList(<<>>, "A" :> Val(<<t>>))
          [] t = "two" -> "B" :> <<"two">>
          [] OTHER -> "A" :> <<t>>],
     writes |-> {<<"mine.env", "one">>, <<"mine.env", "two">>, <<"p/toml", "list2">>, <<"p/toml", "broken">>, <<"p/local", "local">>},
     pulls |-> {<<"p/toml", "list2">>, <<"p/toml", "list">>, <<"repo.env", "pulled">>, <<"mine.env", "pulled">>, <<"p/dev", "dev2">>},
     added |-> {"mine.env"},
     shell |-> Shell("home", [Plain EXCEPT !["OKU_ENV"] = <<"dev">>], TRUE)] @@ Still

(* A shell of an older oku that is inside p, or of one that exports what   *)
(* it saved                                                                *)
Older(x, local) ==
    [shell |-> [Shell("p", Plain, local) EXCEPT !.x = x],
     edits |-> {<<"A", <<"mine">>>>}, entries |-> {}, reloads |-> FALSE, sessions |-> {<<>>}] @@ Moving

NoState == [exported |-> Empty, passed |-> Empty, added |-> Empty, changed |-> {}, oldPath |-> None, oldKeys |-> {}]

InP == [Plain EXCEPT !["PATH"] = <<"p/bin", "gbin", "bin">>, !["B"] = <<"b", "pkg">>, !["A"] = None, !["L"] = <<"plib", "glib">>]

Exported ==
    Older([vars |-> InP, exported |-> [n \in {"A", "B", "L"} |-> IF n = "A" THEN <<"a">> ELSE None],
           added |-> [n \in {"PATH", "L"} |-> IF n = "PATH" THEN <<"p/bin">> ELSE <<"plib", "glib">>]] @@ NoState, TRUE)

OldKeys ==
    Older([vars |-> [Plain EXCEPT !["PATH"] = <<"p/bin", "gbin", "bin">>, !["B"] = <<"pkg">>],
           oldPath |-> "p/bin", oldKeys |-> {"B"}] @@ NoState, TRUE)

OldHook == Older([vars |-> Plain] @@ NoState, FALSE)

(* A file for exec alone, one that a variable leaves out, a required       *)
(* variable, and a cycle in the user's list                                *)
Exec ==
    [edits |-> {<<"B", <<"mine">>>>, <<"A", None>>}, global |-> Global, dirs |-> {"home", "p"},
     projects |-> [d \in {"p"} |-> Project(d, Empty, Empty)],
     files |-> [f \in {"global", "p/toml", "p/local", "secret.env", "plain.env"} |->
        File0(IF f = "p/local" THEN None ELSE f, f = "p/toml")],
     contents |-> [f \in {"global", "p/toml", "secret.env", "plain.env", "bad", "worse"} |->
        CASE f = "global" -> TheList(<<>>, [n \in {"B", "L"} |-> IF n = "L" THEN Val(<<"B">>) ELSE Val(<<"L">>)])
          [] f = "p/toml" -> TheList(<<DotEnv("secret.env", FALSE, {}, TRUE), DotEnv("plain.env", FALSE, {"B"}, FALSE)>>,
                "A" :> Required)
          [] f = "secret.env" -> "B" :> <<"secret">>
          [] f = "plain.env" -> "L" :> <<"plain">>
          [] f = "worse" -> "PATH" :> <<"bin">>
          [] f = "bad" -> Bad],
     writes |-> {<<"plain.env", "bad">>, <<"plain.env", "worse">>, <<"secret.env", None>>, <<"global", None>>},
     shell |-> Shell("home", Plain, TRUE)] @@ Still

MCSettings == {Moving, ChangingFiles, Exported, OldKeys, OldHook, Exec}
-----------------------------------------------------------------------------
\* A package whose download sets variables, and one that is built and has a locked version.
Pack(m, l, how, rs, e) == [manifest |-> m, locked |-> l, how |-> how, runs |-> rs, env |-> e, dated |-> TRUE, stated |-> TRUE]
Sound == [packages |-> [a |-> Pack("m1", Nobody, "download", TRUE, TRUE), b |-> Pack("m2", "m3", "build", TRUE, FALSE)],
          yes |-> FALSE, terminal |-> TRUE, acceptAge |-> FALSE, unknownAge |-> "warn",
          acceptUnverified |-> FALSE, unverified |-> "warn", refuseUnsandboxed |-> FALSE]
Undated == [Sound EXCEPT !.packages["a"].dated = FALSE, !.packages["b"].dated = FALSE]
Unstated == [Sound EXCEPT !.packages["a"].stated = FALSE, !.packages["b"].stated = FALSE, !.packages["a"].locked = "m3"]
MCCommands ==
    {Sound, Undated, Unstated, [Sound EXCEPT !.yes = TRUE], [Sound EXCEPT !.terminal = FALSE],
     [Sound EXCEPT !.refuseUnsandboxed = TRUE], [Sound EXCEPT !.packages["b"].how = "cached", !.packages["b"].env = TRUE],
     [Sound EXCEPT !.packages["a"].how = "build"],
     [Undated EXCEPT !.unknownAge = "refuse"], [Undated EXCEPT !.acceptAge = TRUE], [Undated EXCEPT !.terminal = FALSE],
     [Unstated EXCEPT !.unverified = "refuse"], [Unstated EXCEPT !.unverified = "allow"], [Unstated EXCEPT !.terminal = FALSE]}

-----------------------------------------------------------------------------
\* The hook and the questions of a command share no state: part says which one moves.
VARIABLE part

MCHookInit ==
    /\ part \in {"hook", "approvals"}
    /\ HookInit /\ (part = "approvals" => setting = CHOOSE s \in Settings : TRUE)
    /\ ApprovalsInit

MCHookNext ==
    /\ UNCHANGED part
    /\ \/ part = "hook" /\ HookNext /\ UNCHANGED approvalVars
       \/ part = "approvals" /\ ApprovalsNext /\ UNCHANGED hookVars

MCHookSpec == MCHookInit /\ [][MCHookNext]_<<part, hookVars, approvalVars>>

=============================================================================
