-------------------------------- MODULE Hook --------------------------------
(***************************************************************************)
(* The shells of one user, with the hook that runs before each prompt, the *)
(* projects the user allows, and the files a pull or the user changes:     *)
(*   internal/cli/hook.go      hookChange, dirEnv, projectActive,          *)
(*                             projectUnsynced, setAllowed                 *)
(*   internal/cli/envtrust.go  newAllow, allowHolds, envFilesOfList        *)
(*   internal/trust/trust.go   ReadAllowed, Get, Set                       *)
(*   internal/shellhook        promptHook, pathSetup                       *)
(*                                                                         *)
(* A prompt is the steps of "oku env": it reads the allowed projects, then *)
(* asks git about the files, saves what it learnt, and then reads the      *)
(* lists and applies them.  Other terminals change things in between.      *)
(***************************************************************************)
EXTENDS Environ

CONSTANTS
    Settings,       \* what a run starts from: see HookInit
    MaxChanges,     \* changes of files and allows, over all terminals
    MaxEdits,       \* edits of variables in shells
    MaxShells

ASSUME HookBounds == {MaxChanges, MaxEdits, MaxShells} \subseteq Nat

(* The paths of the lists of a project, and the texts that a file has or   *)
(* gets in a setting                                                       *)
ListPaths(project) == {project.toml, project.local} \cup {project.env[n] : n \in DOMAIN project.env}

TextsAt(st, path) == {st.files[path].text} \cup {w[2] : w \in {v \in st.writes \cup st.pulls : v[1] = path}}

(* Of a shell: see below *)
ShellFields == {"dir", "x", "local", "session", "step", "record", "holds", "active", "own", "calm", "denied", "late"}

(* A setting names files that it has, and starts before the first prompt.  *)
ASSUME HookAssumption ==
    \A st \in Settings :
        /\ \A path \in DOMAIN st.files :
              LET f == st.files[path]
              IN  /\ DOMAIN f = {"text", "time", "tracked"} /\ f.tracked \in BOOLEAN
                  /\ f.time = IF f.text = None THEN 0 ELSE 1
        /\ {w[1] : w \in st.writes \cup st.pulls} \cup st.added \subseteq DOMAIN st.files
        /\ st.changing \subseteq DOMAIN st.projects
        /\ \A d \in DOMAIN st.projects : \A path \in ListPaths(st.projects[d]) :
              /\ path \in DOMAIN st.files
              /\ \A t \in TextsAt(st, path) \ {None} :
                    \A f \in ToSet(st.contents[t].files) : f.path \in DOMAIN st.files
        /\ DOMAIN st.shell = ShellFields /\ st.shell.step = "read"

VARIABLES
    setting,    \* the user's list, the projects by directory, and what may happen
    files,      \* of each path its text, None for no file, its time and whether git tracks it
    allow,      \* of each project its Allow in allow.toml, or None
    agreed,     \* ghost: the texts of each project that the user allowed, and the user's own since
    crossed,    \* ghost: the projects whose allow a prompt put back over an allow or a deny
    synced,     \* the projects whose profile matches their oku.lock
    shells,     \* the shells, by their order of start
    edits,      \* edits of variables so far
    clock       \* changes so far, and the time of the next write

hookVars == <<setting, files, allow, agreed, crossed, synced, shells, edits, clock>>

Projects == DOMAIN setting.projects

(* What the texts of the files say *)
Text(fs) == [path \in DOMAIN fs |-> IF fs[path].text = None THEN None ELSE setting.contents[fs[path].text]]

-----------------------------------------------------------------------------
(* The files that an allow is about *)

(* The project's oku.toml is missing or does not parse *)
NoList(project, fs) == Broken(Text(fs)[project.toml])

(* envFilesOfList, of a project whose oku.toml parses: the overlays there  *)
(* are and the .env files of the list and of the overlays that parse.      *)
PathsOf(project, texts) ==
    LET overlays == {p \in ListPaths(project) \ {project.toml} : texts[p] # None}
        lists == {project.toml} \cup {p \in overlays : ~Broken(texts[p])}
    IN  overlays \cup UNION {{f.path : f \in ToSet(texts[p].files)} : p \in lists}

(* allowDigest and modTime *)
Digest(project, fs, tracked) == <<fs[project.toml].text, [p \in tracked |-> fs[p].text]>>

ModTime(f) == IF f.text = None THEN 0 ELSE f.time

(* newAllow *)
NewAllow(project, fs) ==
    LET paths == PathsOf(project, Text(fs))
        tracked == {p \in paths : fs[p].tracked}
    IN  [digest |-> Digest(project, fs, tracked),
         untracked |-> [p \in paths \ tracked |-> ModTime(fs[p])]]

(* It never asks git again about a file that was the user's own *)
AskedOnce(a, p, f) == p \notin DOMAIN a.untracked

(* allowHolds, of the allow a that the prompt read.  git is asked about a  *)
(* file that is new to the allow or has changed since.                     *)
Asked(a, p, f) == p \notin DOMAIN a.untracked \/ a.untracked[p] # ModTime(f)

Holds(project, a, fs) ==
    IF a = None \/ NoList(project, fs) THEN [holds |-> FALSE, save |-> None]
    ELSE LET paths == PathsOf(project, Text(fs))
             asked == {p \in paths : Asked(a, p, fs[p])}
             tracked == {p \in asked : fs[p].tracked}
             new == [p \in (asked \ tracked) \cup DOMAIN a.untracked |->
                       IF p \in asked \ tracked THEN ModTime(fs[p]) ELSE a.untracked[p]]
             holds == Digest(project, fs, tracked) = a.digest
         IN  [holds |-> holds,
              save |-> IF holds /\ asked # tracked THEN [a EXCEPT !.untracked = new] ELSE None]

-----------------------------------------------------------------------------
(* A shell is a record of                                                  *)
(*   dir, x, local    where it is, what programs it starts get, with       *)
(*                    passed for oku env, and whether its hook is the one  *)
(*                    that keeps the saved values                          *)
(*   session          OKU_SHELL_PATH                                       *)
(*   step, record, holds    the prompt that runs                           *)
(*   active           the project it applies, None for none                *)
(*   own              ghost: the variables without the hook                *)
(*   calm             ghost: nothing changed since its last prompt began   *)
(*   denied           ghost: the projects denied when that prompt began    *)
(*   late             ghost: an allow or a deny of its project came since  *)
(*                    its prompt read allow.toml                           *)

ProjectAt(dir) == IF dir \in Projects THEN setting.projects[dir] ELSE None

Idle(s) == shells[s].step = "idle"

Stir(ss) == [s \in DOMAIN ss |-> [ss[s] EXCEPT !.calm = FALSE]]

Begin(sh) ==
    [sh EXCEPT !.step = "read", !.calm = TRUE, !.denied = {d \in Projects : agreed[d] = {}}]

(* The prompt reads allow.toml *)
PromptRead(s) ==
    /\ shells[s].step = "read"
    /\ shells' = [shells EXCEPT ![s].step = "check", ![s].late = FALSE,
                                ![s].record = IF shells[s].dir \in Projects THEN allow[shells[s].dir] ELSE None]
    /\ UNCHANGED <<setting, files, allow, agreed, crossed, synced, edits, clock>>

(* allowHolds, up to what it saves *)
PromptCheck(s) ==
    LET sh == shells[s]
        found == IF sh.dir \in Projects THEN Holds(ProjectAt(sh.dir), sh.record, files)
                 ELSE [holds |-> FALSE, save |-> None]
    IN  /\ sh.step = "check"
        /\ shells' = [shells EXCEPT ![s].holds = found.holds, ![s].record = found.save,
                                    ![s].step = IF found.save = None THEN "apply" ELSE "save"]
        /\ UNCHANGED <<setting, files, allow, agreed, crossed, synced, edits, clock>>

(* Set, of the shell's own project alone *)
PromptSave(s) ==
    /\ shells[s].step = "save"
    /\ allow' = [allow EXCEPT ![shells[s].dir] = shells[s].record]
    /\ crossed' = IF shells[s].late THEN crossed \cup {shells[s].dir} ELSE crossed
    /\ shells' = [shells EXCEPT ![s].step = "apply", ![s].record = None]
    /\ UNCHANGED <<setting, files, agreed, synced, edits, clock>>

(* The rest of projectActive, wantedEnv and what the shell evaluates *)
Wanted(sh, active, exec, base) ==
    WantedEnv(setting.global, IF active THEN ProjectAt(sh.dir) ELSE None, Text(files), exec, base)

After(sh, active) ==
    LET st == State(sh.x)
        base == Base(st, sh.x)
    IN  Applied(sh.x, sh.local, sh.session, st, base, Wanted(sh, active, FALSE, base))

PromptApply(s) ==
    LET sh == shells[s]
        active == sh.holds /\ sh.dir \in synced
    IN  /\ sh.step = "apply"
        /\ shells' = [shells EXCEPT ![s].x = After(sh, active), ![s].step = "idle", ![s].holds = FALSE,
                                    ![s].active = IF active THEN sh.dir ELSE None]
        /\ UNCHANGED <<setting, files, allow, agreed, crossed, synced, edits, clock>>

-----------------------------------------------------------------------------
(* What the user does in a shell, after which its prompt runs *)

(* A command that changes the directory, or none that matters *)
Cd(s, dir) ==
    /\ Idle(s)
    /\ dir \in setting.dirs
    /\ shells' = [shells EXCEPT ![s] = Begin([@ EXCEPT !.dir = dir])]
    /\ UNCHANGED <<setting, files, allow, agreed, crossed, synced, edits, clock>>

(* export and unset.  The hook sets a variable again that it set before,   *)
(* and a list that it put entries in is its own but for the rest.          *)
SetVar(s, n, value) ==
    LET sh == shells[s]
        st == State(sh.x)
        kept == IF value = None /\ n \in DOMAIN st.added THEN <<>> ELSE value
        set == [sh EXCEPT !.x.vars[n] = value, !.own[n] = IF n \in DOMAIN st.saved THEN @ ELSE kept]
    IN  /\ Idle(s)
        /\ edits < MaxEdits
        /\ <<n, value>> \in setting.edits
        /\ edits' = edits + 1
        /\ shells' = [shells EXCEPT ![s] = Begin(set)]
        /\ UNCHANGED <<setting, files, allow, agreed, crossed, synced, clock>>

(* PATH=entry:$PATH *)
PutInFront(s, entry) ==
    LET set == [shells[s] EXCEPT !.x.vars["PATH"] = <<entry>> \o @, !.own["PATH"] = <<entry>> \o @]
    IN  /\ Idle(s)
        /\ edits < MaxEdits
        /\ entry \in setting.entries
        /\ edits' = edits + 1
        /\ shells' = [shells EXCEPT ![s] = Begin(set)]
        /\ UNCHANGED <<setting, files, allow, agreed, crossed, synced, clock>>

(* The hook line of a startup file: pathSetup *)
Setup(sh) ==
    LET dirs == sh.session \o <<setting.global.bin>>
    IN  [sh EXCEPT !.x.vars["PATH"] = InFront(@, dirs), !.own["PATH"] = InFront(@, dirs)]

(* source ~/.bashrc *)
Reload(s) ==
    /\ Idle(s)
    /\ setting.reloads
    /\ shells' = [shells EXCEPT ![s] = Begin(Setup(@))]
    /\ UNCHANGED <<setting, files, allow, agreed, crossed, synced, edits, clock>>

(* A shell that another one starts, by name or with oku shell: it gets     *)
(* what is exported, and of a variable that the hook changed the old value *)
(* is gone.                                                                *)
StartChild(s, session) ==
    LET sh == shells[s]
        path(v) == session \o v
        own == [n \in Names |-> IF n \in sh.x.changed THEN None ELSE sh.own[n]]
        child == [sh EXCEPT !.x.passed = Empty,
                            !.x.vars["PATH"] = path(@), !.local = TRUE,
                            !.own = [own EXCEPT !["PATH"] = path(@)],
                            !.session = session \o @]
    IN  /\ Idle(s)
        /\ Len(shells) < MaxShells
        /\ session \in setting.sessions
        /\ shells' = Append(shells, Begin(Setup(child)))
        /\ UNCHANGED <<setting, files, allow, agreed, crossed, synced, edits, clock>>

-----------------------------------------------------------------------------
(* What happens in other terminals, at any time *)

Changes == clock < MaxChanges /\ clock' = clock + 1

Elsewhere == Changes /\ shells' = Stir(shells)

(* An allow or a deny, which a prompt in the project may have missed       *)
Decides(d) ==
    /\ Changes
    /\ shells' = [s \in DOMAIN shells |-> [Stir(shells)[s] EXCEPT !.late = @ \/ shells[s].dir = d]]
    /\ crossed' = crossed \ {d}

(* What the user agrees to with the files as they are *)
TextsOf(d, fs) ==
    LET project == setting.projects[d]
    IN  IF NoList(project, fs) THEN {}
        ELSE {<<p, fs[p].text>> : p \in {project.toml} \cup PathsOf(project, Text(fs))}

(* The texts that are the user's own to change *)
OwnTexts(fs) == {<<p, fs[p].text>> : p \in {q \in DOMAIN fs : ~fs[q].tracked}}

(* oku allow *)
Allow(d) ==
    LET project == setting.projects[d]
    IN  /\ Decides(d)
        /\ ~NoList(project, files)
        /\ allow' = [allow EXCEPT ![d] = NewAllow(project, files)]
        /\ agreed' = [agreed EXCEPT ![d] = TextsOf(d, files) \cup OwnTexts(files)]
        /\ UNCHANGED <<setting, files, synced, edits>>

(* oku deny *)
Deny(d) ==
    /\ Decides(d)
    /\ allow[d] # None
    /\ allow' = [allow EXCEPT ![d] = None]
    /\ agreed' = [agreed EXCEPT ![d] = {}]
    /\ UNCHANGED <<setting, files, synced, edits>>

(* The time of a write: later than that of every file there is *)
Now == clock + 2

Write(path, text) == files' = [files EXCEPT ![path].text = text, ![path].time = Now]

(* The user writes or deletes a file.  What git does not track is theirs   *)
(* to change.                                                              *)
UserWrites(path, text) ==
    /\ Elsewhere
    /\ <<path, text>> \in setting.writes
    /\ files[path].text # text
    /\ Write(path, text)
    /\ agreed' = [d \in Projects |->
                    IF ~files[path].tracked /\ agreed[d] # {} THEN agreed[d] \cup {<<path, text>>} ELSE agreed[d]]
    /\ UNCHANGED <<setting, allow, crossed, synced, edits>>

(* git pull, which brings a file that git tracks from then on *)
Pull(path, text) ==
    /\ Elsewhere
    /\ <<path, text>> \in setting.pulls
    /\ files[path].tracked \/ files[path].text = None
    /\ files[path].text # text
    /\ files' = [files EXCEPT ![path] = [text |-> text, time |-> Now, tracked |-> TRUE]]
    /\ UNCHANGED <<setting, allow, agreed, crossed, synced, edits>>

(* git add, of a file of the user *)
GitAdd(path) ==
    /\ Elsewhere
    /\ ~files[path].tracked /\ files[path].text # None
    /\ files' = [files EXCEPT ![path].tracked = TRUE]
    /\ UNCHANGED <<setting, allow, agreed, crossed, synced, edits>>

(* A pull that changes oku.lock, and oku sync *)
Resync(d) ==
    /\ Elsewhere
    /\ synced' = IF d \in synced THEN synced \ {d} ELSE synced \cup {d}
    /\ UNCHANGED <<setting, files, allow, agreed, crossed, edits>>
-----------------------------------------------------------------------------
HookInit ==
    /\ setting \in Settings
    /\ files = setting.files
    /\ agreed = [d \in Projects |-> IF NoList(setting.projects[d], files) THEN {}
                                   ELSE TextsOf(d, files) \cup OwnTexts(files)]
    /\ allow = [d \in Projects |-> IF NoList(setting.projects[d], files) THEN None
                                  ELSE NewAllow(setting.projects[d], files)]
    /\ crossed = {}
    /\ synced = DOMAIN setting.projects
    /\ shells = <<setting.shell>>
    /\ edits = 0
    /\ clock = 0

Prompt(s) == PromptRead(s) \/ PromptCheck(s) \/ PromptSave(s) \/ PromptApply(s)

Typed(s) ==
    \/ \E dir \in setting.dirs : Cd(s, dir)
    \/ \E e \in setting.edits : SetVar(s, e[1], e[2])
    \/ \E entry \in setting.entries : PutInFront(s, entry)
    \/ Reload(s)
    \/ \E session \in setting.sessions : StartChild(s, session)

Other ==
    \/ \E d \in setting.changing : Allow(d) \/ Deny(d) \/ Resync(d)
    \/ \E w \in setting.writes : UserWrites(w[1], w[2])
    \/ \E w \in setting.pulls : Pull(w[1], w[2])
    \/ \E path \in setting.added : GitAdd(path)

HookNext == Other \/ \E s \in DOMAIN shells : Prompt(s) \/ Typed(s)

HookSpec == HookInit /\ [][HookNext]_hookVars

-----------------------------------------------------------------------------
HookTypeOK ==
    /\ setting \in Settings
    /\ \A p \in DOMAIN files : files[p].tracked \in BOOLEAN /\ files[p].time \in 0 .. MaxChanges + 1
    /\ DOMAIN allow = Projects /\ synced \cup crossed \subseteq Projects
    /\ Len(shells) \in 1 .. MaxShells
    /\ \A s \in DOMAIN shells :
        /\ shells[s].dir \in setting.dirs
        /\ shells[s].step \in {"idle", "read", "check", "save", "apply"}
        /\ DOMAIN shells[s].x.vars = Names /\ DOMAIN shells[s].own = Names
    /\ edits \in 0 .. MaxEdits /\ clock \in 0 .. MaxChanges

Settled(s) == Idle(s) /\ shells[s].calm

(* What the variables of a shell should be: the lists applied once over    *)
(* what the user has.                                                      *)
Reference(sh, exec, own) ==
    LET w == Wanted(sh, sh.active # None, exec, own)
        final == Final(w, own)
    IN  [n \in Names |-> IF n \in DOMAIN final THEN final[n] ELSE own[n]]

(* However the user moved between projects, edited variables, loaded the   *)
(* hook again or started shells from shells: after a prompt each variable  *)
(* is what the lists say over the user's own values, and a variable that   *)
(* no list names has the user's own value back (hookChange).  The programs *)
(* of an oku shell come first on PATH, and a prompt may put them there.    *)
PromptTrue ==
    \A s \in DOMAIN shells :
        Settled(s) => SessionFirst(shells[s].x.vars, shells[s].session)
                        = SessionFirst(Reference(shells[s], FALSE, shells[s].own), shells[s].session)

(* A prompt in an unchanged directory changes nothing, neither a variable  *)
(* nor the state that the next one undoes from.                            *)
SecondQuiet ==
    \A s \in DOMAIN shells : Settled(s) => After(shells[s], shells[s].active # None) = shells[s].x

(* oku exec in a shell inside a project gives the command what the hook    *)
(* would set, over the user's values that are still there, and nothing     *)
(* that another directory set.  Lists that only the hook of the shell put  *)
(* entries in are left out: execEnviron keeps those.                       *)
ExecTrue ==
    \A s \in DOMAIN shells :
        LET sh == shells[s]
            x == [sh.x EXCEPT !.passed = Empty]
            base == ExecBase(x, setting.global)
            w == Wanted(sh, TRUE, TRUE, base)
            own == [n \in Names |-> IF n \in x.changed THEN None ELSE sh.own[n]]
            ref == Final(Wanted(sh, TRUE, TRUE, ExecBase([x EXCEPT !.vars = own, !.added = Empty, !.changed = {},
                                                                   !.exported = Empty], setting.global)),
                         [own EXCEPT !["PATH"] = <<setting.global.bin>> \o @])
        IN  Settled(s) /\ sh.dir \in Projects /\ sh.local /\ ~w.problem =>
                \A n \in Names \ DOMAIN sh.x.added :
                    ExecEnviron(x, base, w)[n] = IF n \in DOMAIN ref THEN ref[n] ELSE own[n]

(* A prompt during which nothing changed applies a project only with texts *)
(* that the user agreed to: the last allow has them, or the user wrote     *)
(* them where git does not look.  What a pull brought, whenever it came,   *)
(* waits for an allow, unless a prompt put an older allow back (B545).     *)
AppliedIsAllowed ==
    \A s \in DOMAIN shells :
        Settled(s) /\ shells[s].active # None /\ shells[s].active \notin crossed =>
            TextsOf(shells[s].active, files) \subseteq agreed[shells[s].active]

(* oku deny holds: a prompt that begins after it does not apply the        *)
(* project (B545).                                                         *)
DenyHolds ==
    \A s \in DOMAIN shells : Idle(s) /\ shells[s].active # None => shells[s].active \notin shells[s].denied

(* A prompt sets what it should and then rests: PromptTrue and             *)
(* SecondQuiet, with every variable of its kind.                           *)
PromptHolds == HookTypeOK /\ PromptTrue /\ SecondQuiet

=============================================================================
