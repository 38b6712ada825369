------------------------------- MODULE Files -------------------------------
(***************************************************************************)
(* [files] and [secrets]: what Parse accepts (internal/list toFile), what  *)
(* the merged entries become on this machine (internal/cli files.go), and  *)
(* how a file with a secret is written (internal/cli secrets.go).  How the *)
(* other kinds are placed is in Expose and Change.                         *)
(*                                                                         *)
(* An entry is a record: target, a record with location and rest, where    *)
(* rest may be a variable; also, its other targets; keys, the ones of      *)
(* link, text, render and secret that it has; key, mode (0 for none), when *)
(* and vars; names, pairs of a kind and a name that its text names; and    *)
(* link, the package and the path that a link leads to.                    *)
(***************************************************************************)
EXTENDS Platforms, TLC

CONSTANTS Firsts,    \* entries that the user may write
          Settings,  \* records: entries, machine, locations, vars, pkgs (names), secrets (names with a file),
                     \* and moves, whether the user changes the first entry and the secret
          Ciphers,   \* the versions of an encrypted file
          Nil        \* nothing

VARIABLES setting,   \* what the user has written
          cipher,    \* the encrypted file
          files,     \* the files of the generation, or Nil
          held,      \* what the target of the secret shows: a record with value, mode and hash, or Nil
          tmp,       \* the copy being written
          step       \* how far the write is
placeVars == <<setting, cipher, files, held, tmp, step>>

-----------------------------------------------------------------------------
\* toFile: one kind of content, and keys that go with it.
ToFile(e) ==
    /\ Cardinality(e.keys) = 1
    /\ e.key => e.keys = {"secret"}
    /\ e.mode # 0 => e.keys # {"link"}
    /\ e.mode <= 511
    /\ e.vars # {} => e.keys \cap {"link", "secret"} = {}

\* Parse: an entry for each target and each of its also, and no target named twice.
Targets(e) == {e.target} \cup e.also
ParseFiles(es) ==
    /\ \A i \in DOMAIN es : ToFile(es[i]) /\ es[i].target \notin es[i].also
    /\ \A i, j \in DOMAIN es : i # j => Targets(es[i]) \cap Targets(es[j]) = {}
Listed(es) == UNION {{[entry |-> es[i], target |-> t] : t \in Targets(es[i])} : i \in DOMAIN es}

\* target: a location of this OS and a path that stays inside it.
Rest(t, vars) == IF t.rest \in DOMAIN vars THEN vars[t.rest] ELSE t.rest
TargetReads(t, s) == t.location \in s.locations /\ Rest(t, s.vars) \notin {"", "..", "unset"}
Path(t, vars) == <<t.location, Rest(t, vars)>>

\* linkSource and packageFiles: a link into a package of the machine, inside it, to something that is there.
LinkReads(e, s) == e.link.pkg \in {""} \cup s.pkgs /\ e.link.path = "file"

\* content: every name of the text is a variable of the entry or the list, a location, a package of
\* this machine or a secret whose encrypted file can be read.
ContentReads(e, s) ==
    IF "secret" \in e.keys THEN "inline" \in s.secrets
    ELSE \A n \in e.names : CASE n[1] = "pkg" -> n[2] \in s.pkgs
                               [] n[1] = "secret" -> n[2] \in s.secrets
                               [] OTHER -> n[2] \in e.vars \cup DOMAIN s.vars \cup s.locations

\* The secrets that the content uses, as placeholders.
Refs(e) == IF "secret" \in e.keys THEN {"inline"} ELSE {n[2] : n \in {m \in e.names : m[1] = "secret"}}

\* A file with a secret is for the user alone unless its entry has a mode.
Mode(e) == IF Refs(e) # {} /\ e.mode = 0 THEN 384 ELSE e.mode

\* sealedHash: the content, the encrypted files behind it and the mode.
SealedHashText(e, c) == <<e.names, IF Refs(e) = {} THEN Nil ELSE c, 0>>
SealedHash(e, c) == <<e.names, IF Refs(e) = {} THEN Nil ELSE c, IF Refs(e) = {} THEN 0 ELSE Mode(e)>>

\* parentMode: the mode of a directory that placing the file creates.
ParentMode(e) == IF Refs(e) # {} \/ (Mode(e) # 0 /\ Mode(e) % 64 = 0) THEN 448 ELSE 493

\* templateVars and resolveFiles: a variable may not take the name of a location, a package or a secret,
\* and no two entries of this machine may end at one path.
VarsRead(names, s) == names \cap (s.locations \cup {"pkg.p", "secret.s"}) = {}
Mine(s) == {l \in Listed(s.entries) : Here(l.entry.when, s.machine)}
Resolves(s) ==
    /\ VarsRead(DOMAIN s.vars, s)
    /\ \A l \in Mine(s) :
          /\ TargetReads(l.target, s)
          /\ VarsRead(l.entry.vars, s)
          /\ IF "link" \in l.entry.keys THEN LinkReads(l.entry, s) ELSE ContentReads(l.entry, s)
    /\ \A l, k \in Mine(s) : Path(l.target, s.vars) = Path(k.target, s.vars) => l = k
File(l, s) == [path |-> Path(l.target, s.vars), kind |-> l.entry.keys, mode |-> IF "link" \in l.entry.keys THEN 0 ELSE Mode(l.entry),
               refs |-> Refs(l.entry), names |-> l.entry.names, dir |-> ParentMode(l.entry), hash |-> SealedHash(l.entry, cipher)]

-----------------------------------------------------------------------------
PlaceInit ==
    /\ setting \in Settings
    /\ cipher \in Ciphers
    /\ files = Nil /\ held = Nil /\ tmp = Nil /\ step = "idle"

\* A sync reads the list.  What does not parse or resolve changes nothing.
Resolve ==
    /\ step = "idle" /\ ParseFiles(setting.entries) /\ Resolves(setting)
    /\ files' = {File(l, setting) : l \in Mine(setting)}
    /\ UNCHANGED <<setting, cipher, held, tmp, step>>

\* The file with a secret of the generation, if it has one.
Sealed == IF files = Nil THEN {} ELSE {f \in files : f.refs # {}}

\* The item is placed again only when its hash changed.  unseal reads the values first, and writeSecret
\* restricts the new copy before it writes it.
RestrictCopy ==
    /\ step = "idle"
    /\ \E f \in Sealed : /\ ~(held # Nil /\ held.hash = f.hash)
                         /\ tmp' = [value |-> Nil, mode |-> f.mode, hash |-> f.hash, path |-> f.path]
    /\ step' = "restricted"
    /\ UNCHANGED <<setting, cipher, files, held>>
Write == step = "restricted" /\ step' = "written" /\ tmp' = [tmp EXCEPT !.value = tmp.hash[2]] /\ UNCHANGED <<setting, cipher, files, held>>
RemoveOld == step = "written" /\ step' = "removed" /\ held' = Nil /\ UNCHANGED <<setting, cipher, files, tmp>>
Rename == step = "removed" /\ step' = "idle" /\ held' = tmp /\ tmp' = Nil /\ UNCHANGED <<setting, cipher, files>>

\* Killed at any point; the copy stays behind.  The next sync starts with a new one.
Kill == step # "idle" /\ step' = "idle" /\ UNCHANGED <<setting, cipher, files, held, tmp>>

\* The user encrypts another value, or writes another list.
Encrypt == step = "idle" /\ setting.moves /\ cipher' \in Ciphers \ {cipher} /\ files' = Nil /\ UNCHANGED <<setting, held, tmp, step>>
WriteList ==
    /\ step = "idle"
    /\ setting.moves /\ \E e \in Firsts : setting' = [setting EXCEPT !.entries[1] = e]
    /\ files' = Nil
    /\ UNCHANGED <<cipher, held, tmp, step>>

PlaceNext == Resolve \/ RestrictCopy \/ Write \/ RemoveOld \/ Rename \/ Kill \/ Encrypt \/ WriteList
PlaceSpec == PlaceInit /\ [][PlaceNext]_placeVars

-----------------------------------------------------------------------------
\* The files of a generation have one path each, inside a location, through whatever variables and also
\* they are written (resolveFiles), with one content that names only what this machine has.
FilesResolved ==
    files # Nil =>
        /\ Cardinality({f.path : f \in files}) = Cardinality(files)
        /\ Cardinality(files) = Cardinality(Mine(setting))
        /\ \A f \in files : f.path[1] \in setting.locations /\ f.path[2] \notin {"", "..", "unset"} /\ Cardinality(f.kind) = 1
        /\ \A f \in files : f.refs # {} => f.dir = 448

\* Once a sync is through, a file with a secret shows the value and the mode of the list it read, and no
\* copy of a value is readable by more than the mode that its entry asked for (secrets.go, "the secret is
\* never readable by anyone else").
SecretsCurrent ==
    /\ \A c \in {held, tmp} : c # Nil /\ c.value # Nil => c.mode = 384 \/ \E e \in Firsts : e.mode = c.mode
    /\ step = "idle" /\ held # Nil =>
          \A f \in Sealed : held.hash = f.hash /\ held.path = f.path => held.value = cipher /\ held.mode = f.mode

\* What [files] and [secrets] place on this machine: FilesResolved and SecretsCurrent.
FilesHold == FilesResolved /\ SecretsCurrent

=============================================================================
