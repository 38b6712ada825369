------------------------------ MODULE Environ ------------------------------
(***************************************************************************)
(* The environment that oku gives a directory, and how the shell hook      *)
(* applies and undoes it:                                                  *)
(*   internal/cli/envset.go   readHookState, base, wantedEnv, list, file,  *)
(*                            finalValues, execEnviron, overlaysOf         *)
(*   internal/cli/hook.go     hookChange, sessionFirst                     *)
(*   internal/list/env.go     ResolveEnv, Skipped                          *)
(*   internal/shellhook       pathSetup                                    *)
(*                                                                         *)
(* The value of a variable is the sequence of its entries, as PATH has     *)
(* them, <<>> when it is empty and None when it is not set.  A value in    *)
(* [env] is a sequence of entries and of names, which stand for ${NAME}.   *)
(* Maps are functions on a subset of Names.                                *)
(***************************************************************************)
EXTENDS Naturals, SequencesExt

CONSTANTS
    Names,      \* of variables, PATH and OKU_ENV among them
    None,       \* not set, no file
    Bad         \* a value that names itself, a file that oku refuses

ASSUME NamesAssumption == {"PATH", "OKU_ENV"} \subseteq Names /\ None \notin Names

Empty == [n \in {} |-> None]

Filled(v) == v \notin {None, <<>>}

(* A map without the names of a set *)
Less(f, names) == [n \in DOMAIN f \ names |-> f[n]]

-----------------------------------------------------------------------------
(* What a program that a shell starts gets from it is a record with        *)
(*   vars                the variables                                     *)
(*   exported            OKU_HOOK_SAVED, of a shell with an older hook     *)
(*   passed              OKU_HOOK_SAVED_LOCAL, for oku env alone           *)
(*   added, changed      OKU_HOOK_ADDED and OKU_HOOK_CHANGED               *)
(*   oldPath, oldKeys    OKU_HOOK_PATH and OKU_HOOK_KEYS, of an older oku  *)

(* readHookState *)
State(x) ==
    [saved |-> (IF x.passed # Empty THEN x.passed ELSE x.exported)
                @@ [n \in x.changed \cup x.oldKeys |-> None],
     added |-> x.added @@ IF x.oldPath = None THEN Empty ELSE "PATH" :> <<x.oldPath>>]

(* hookState.base, of every name.  The first of each entry is the hook's. *)
Base(st, x) ==
    [n \in Names |->
        IF n \in DOMAIN st.saved THEN st.saved[n]
        ELSE IF x.vars[n] = None \/ n \notin DOMAIN st.added THEN x.vars[n]
        ELSE FoldLeft(RemoveFirst, x.vars[n], st.added[n])]

-----------------------------------------------------------------------------
(* ResolveEnv.  The [env] of a list maps a name to one of                  *)
(*   [is |-> "set", value], [is |-> "unset"], [is |-> "prepend", value]    *)
(*   and [is |-> "required"].                                              *)
Kinds(env, is) == {n \in DOMAIN env : env[n].is = is}

(* ReservedEnv, of the names here *)
Reserved == {"PATH", "OKU_ENV"}

(* toEnv, toEnvValue and CheckEnvName: the tables that a list may have *)
EnvParses(env) ==
    \A n \in DOMAIN env :
        /\ env[n].is \in {"set", "unset", "prepend", "required"}
        /\ env[n].is = "prepend" => env[n].value # <<>>
        /\ n \in Reserved => n = "PATH" /\ env[n].is = "prepend"

(* toEnvFile *)
FilesParse(fs) == \A f \in ToSet(fs) : f.path # None /\ f.unless \subseteq Names

(* list.Read and list.ReadOverlay, of the part the hook uses *)
Broken(l) == l = None \/ ~EnvParses(l.env) \/ ~FilesParse(l.files)

(* A value reads its own variable as it was, and another as the list sets  *)
(* it, Bad when that one reads it again.                                   *)
Resolve(env, look) ==
    LET value[n \in Names, from \in Names \cup {None}, seen \in SUBSET Names] ==
            CASE n \in Kinds(env, "unset") -> None
              [] n \notin Kinds(env, "set") \cup Kinds(env, "unset") \/ from = n -> look[n]
              [] n \in Kinds(env, "set") /\ from # n ->
                    IF n \in seen THEN Bad
                    ELSE LET part(e) == IF e \notin Names THEN <<e>> ELSE value[e, n, seen \cup {n}]
                             parts == [i \in DOMAIN env[n].value |-> part(env[n].value[i])]
                         IN  IF Bad \in ToSet(parts) THEN Bad
                             ELSE FlattenSeq(SelectSeq(parts, LAMBDA v : v # None))
    IN  [n \in Kinds(env, "set") |-> value[n, None, {}]]

-----------------------------------------------------------------------------
(* shellEnv.  A list is [files, env], or None when there is no file, and a *)
(* .env file is a map, Bad when it does not parse.                         *)

NoWants == [set |-> Empty, unset |-> {}, prepend |-> Empty, missing |-> {}, problem |-> FALSE]

(* The variables as the sources so far leave them *)
Look(w, base) ==
    [n \in Names |-> IF n \in w.unset THEN None
                     ELSE IF n \in DOMAIN w.set THEN w.set[n] ELSE base[n]]

(* packages, and the variables of a file *)
Sets(w, f) == [w EXCEPT !.set = f @@ @, !.unset = @ \ DOMAIN f]

Skipped(f, look) == \E n \in f.unless : Filled(look[n])

Problem(w) == [w EXCEPT !.problem = TRUE]

(* file *)
File(w, f, text, exec, look) ==
    CASE Skipped(f, look) \/ (f.execOnly /\ ~exec) -> w
      [] ~Skipped(f, look) /\ (f.execOnly => exec) ->
            IF text = None /\ f.optional THEN w
            ELSE IF text \in {None, Bad} \/ DOMAIN text \cap Reserved # {} THEN Problem(w)
            ELSE Sets(w, text)

(* The [env] of a list over what its files set *)
ListEnv(w, env, look) ==
    LET values == Resolve(env, look)
        w1 == Sets(w, values)
        unset == Kinds(env, "unset")
        front == [n \in Kinds(env, "prepend") |-> env[n].value]
    IN  IF \E n \in DOMAIN values : values[n] = Bad THEN Problem(w)
        ELSE [w1 EXCEPT !.unset = @ \cup unset,
                        !.set = Less(@, unset),
                        !.prepend = [n \in DOMAIN front |->
                                        IF n \in DOMAIN @ THEN front[n] \o @[n] ELSE front[n]] @@ @,
                        !.missing = @ \cup {n \in Kinds(env, "required") : ~Filled(look[n])}]

(* list *)
List(w, l, texts, exec, base) ==
    IF l = None THEN w
    ELSE IF Broken(l) THEN Problem(w)
    ELSE LET w1 == FoldLeft(LAMBDA acc, f : File(acc, f, texts[f.path], exec, Look(acc, base)), w, l.files)
         IN  ListEnv(w1, l.env, Look(w1, base))

(* overlaysOf: oku.<env>.toml when OKU_ENV names one, then oku.local.toml. *)
(* A name without a file leaves out both.                                  *)
OverlayOf(project, texts, name) ==
    IF name[1] \in DOMAIN project.env THEN texts[project.env[name[1]]] ELSE None

Overlays(project, texts, base) ==
    LET name == base["OKU_ENV"]
        local == IF texts[project.local] = None THEN <<>> ELSE <<texts[project.local]>>
    IN  IF ~Filled(name) THEN local
        ELSE IF OverlayOf(project, texts, name) = None THEN <<Bad>>
        ELSE <<OverlayOf(project, texts, name)>> \o local

(* The programs, packages and lists of a project, over those of the user *)
ProjectEnv(w, project, texts, exec, base) ==
    LET path == IF "PATH" \in DOMAIN w.prepend THEN w.prepend["PATH"] ELSE <<>>
        bin == [w EXCEPT !.prepend = ("PATH" :> (<<project.bin>> \o path)) @@ @]
        listed == List(Sets(bin, project.packages), texts[project.toml], texts, exec, base)
        over == Overlays(project, texts, base)
    IN  IF over = <<Bad>> THEN Problem(listed)
        ELSE FoldLeft(LAMBDA acc, l : List(acc, l, texts, exec, base), listed, over)

(* wantedEnv of a project that applies, or None *)
WantedEnv(global, project, texts, exec, base) ==
    LET w1 == List(Sets(NoWants, global.packages), texts[global.toml], texts, exec, base)
        w2 == IF project = None THEN w1 ELSE ProjectEnv(w1, project, texts, exec, base)
    IN  [w2 EXCEPT !.problem = @ \/ w2.missing \ DOMAIN w2.set # {}]

(* finalValues *)
Prepended(w) == Less(w.prepend, DOMAIN w.set \cup w.unset)

Final(w, base) ==
    LET look == Look(w, base)
    IN  [n \in DOMAIN w.prepend |-> w.prepend[n] \o IF look[n] = None THEN <<>> ELSE look[n]]
        @@ w.set @@ [n \in w.unset |-> None]

-----------------------------------------------------------------------------
(* sessionFirst, and pathSetup of the hook line: dirs go to the front *)
InFront(path, dirs) == dirs \o SelectSeq(path, LAMBDA e : ~Contains(dirs, e))

(* Saved that takes the variables as they are *)
SavedNow(x, st, base, final, prepended) ==
    [n \in DOMAIN final \ DOMAIN prepended |-> x.vars[n]]

(* What hookChange saves: a list variable that was not set before the      *)
(* hook put entries in front is not set again after.                       *)
Saved(x, st, base, final, prepended) ==
    LET kept == DOMAIN final \ DOMAIN prepended
        unset == {n \in DOMAIN prepended :
                    IF n \in DOMAIN st.saved THEN st.saved[n] = None
                    ELSE n \notin DOMAIN st.added /\ x.vars[n] = None}
    IN  [n \in kept \cup unset |-> IF n \in kept THEN base[n] ELSE None]

(* hookChange whose saved names miss the lists that were not set *)
(* hookChange, up to its hint: what the shell has after it.  A shell whose *)
(* hook keeps the saved values itself exports their names alone.           *)
ShellChange(x, local, st, base, final, prepended) ==
    LET saved == Saved(x, st, base, final, prepended)
    IN  [vars |-> [n \in Names |->
                    IF n \in DOMAIN final THEN final[n]
                    ELSE IF n \in DOMAIN st.added \ DOMAIN st.saved /\ base[n] = None THEN <<>>
                    ELSE base[n]],
         exported |-> IF local THEN Empty ELSE saved,
         passed |-> IF local THEN saved ELSE x.passed,
         added |-> prepended,
         changed |-> IF local THEN DOMAIN saved ELSE x.changed,
         oldPath |-> None, oldKeys |-> {}]

SessionFirst(final, session) ==
    [n \in DOMAIN final |-> IF n = "PATH" THEN InFront(final[n], session) ELSE final[n]]

Applied(x, local, session, st, base, w) ==
    ShellChange(x, local, st, base, SessionFirst(Final(w, base), session), Prepended(w))

-----------------------------------------------------------------------------
(* execEnviron, over what a shell passes to any program.  ExecBase is what *)
(* it reads the lists over, and ExecEnviron what the command gets.         *)
ExecBase(x, global) == [Base(State(x), x) EXCEPT !["PATH"] = <<global.bin>> \o @]

(* execEnviron that leaves what the shell's hook set *)
ExecKeeps(x, base, w) ==
    [n \in Names |-> IF n \in DOMAIN Final(w, base) THEN Final(w, base)[n] ELSE x.vars[n]]

ExecEnviron(x, base, w) ==
    [n \in Names |->
        IF n \in DOMAIN Final(w, base) THEN Final(w, base)[n]
        ELSE IF n = "PATH" \/ n \in DOMAIN State(x).saved THEN base[n]
        ELSE x.vars[n]]
============================================================================
