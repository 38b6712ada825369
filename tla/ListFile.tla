------------------------------ MODULE ListFile ------------------------------
(***************************************************************************)
(* The text of oku.toml: what Parse reads from it, and how `oku add` and   *)
(* `oku remove` edit it line by line, so that comments and order stay:     *)
(* internal/list.  A value of TOML of a type that a key does not take is   *)
(* "other".                                                                *)
(***************************************************************************)
EXTENDS Platforms, TLC

CONSTANTS Docs,     \* the texts a user may have written
          Entries,  \* the entries that add writes
          Pkgs,     \* the names it writes them under
          Ages,     \* ages as ParseAge gets them: records with n, unit and whole (a whole number was written)
          Longest,  \* the longest time.Duration, in hours
          Edits     \* bound on the edits of one text

ASSUME AgeAssumption == Longest \in Nat /\ \A a \in Ages : a.n \in Int

VARIABLES doc, want, edits, age
fileVars == <<doc, want, edits, age>>

-----------------------------------------------------------------------------
\* ParseAge: hours, days or weeks, at most what a Duration holds.  "0" is none.
Unit == [h |-> 1, d |-> 24, w |-> 168]
AgeReads(a) == \/ a.n = 0 /\ a.unit = ""
               \/ a.unit \in DOMAIN Unit /\ a.whole /\ a.n >= 1 /\ a.n <= Longest \div Unit[a.unit]

\* time.Duration(n) * unit, which wraps around.
ParseAge(a) == IF a.unit = "" THEN 0
               ELSE ((a.n * Unit[a.unit] + Longest + 1) % (2 * (Longest + 1))) - (Longest + 1)

\* An entry: each key of entryKeys, with what it is when it is not set.  Booleans are "true" and "".
Unset == [ref |-> "", version |-> "", asset |-> "", bin |-> <<>>, from_source |-> "", service |-> "", system |-> "",
          run_as |-> "", when |-> <<>>, min_release_age |-> "", signing_key |-> "", signer_workflow |-> ""]
EntryKeys == DOMAIN Unset

\* What each key takes, as toEntry checks it.  A bad signing key, workflow or age is "bad".
Takes(key, v) ==
    CASE key = "when" -> ParsesWhen(v, TRUE)
      [] key = "bin" -> v # <<"other">>
      [] key \in {"from_source", "service", "system"} -> v = "true"
      [] key = "run_as" -> v \in {"", "root"}
      [] key = "ref" -> v \notin {"", "other"}
      [] OTHER -> v \notin {"bad", "other"}

\* toEntry: a ref, or a table of known keys with a ref.
ReadsEntry(value) == value.short \/ ("ref" \in DOMAIN value.keys /\ \A k \in DOMAIN value.keys : k \in EntryKeys /\ Takes(k, value.keys[k]))
ToEntry(value) ==
    IF value.short THEN [Unset EXCEPT !.ref = value.keys.ref]
    ELSE [k \in EntryKeys |-> CASE k \notin DOMAIN value.keys -> Unset[k]
                                [] k = "when" -> ParseWhen(value.keys[k])
                                [] OTHER -> value.keys[k]]

\* Line: the short form when only the ref is set, or a table of what is set.
Set(e) == {k \in EntryKeys : e[k] # Unset[k]}
Line(e) == [short |-> Set(e) = {"ref"},
            keys |-> [k \in Set(e) \cup {"ref"} |-> IF k = "when" THEN TOML(e[k]) ELSE e[k]]]

-----------------------------------------------------------------------------
\* A line of the text: kind is "packages" for that header, "sub" for [packages.<name>], "table" for any
\* other header, "key" for a key with its value, "blank" or "comment".
Text(kind, name, value) == [kind |-> kind, name |-> name, value |-> value]
NoValue == [short |-> TRUE, keys |-> [ref |-> ""]]
Header(l) == l.kind \in {"packages", "sub", "table"}

\* The places edit finds: of the header, of the end of its section, and of the line that defines name.
Start(d) == LET at == {i \in DOMAIN d : d[i].kind = "packages"} IN IF at = {} THEN 0 ELSE Max(at)
End(d) == LET after == {i \in DOMAIN d : i > Start(d) /\ Header(d[i])}
          IN IF Start(d) = 0 \/ after = {} THEN Len(d) + 1 ELSE Min(after)
FoundAnywhere(d, name) ==
    LET at == {i \in DOMAIN d : d[i].kind = "key" /\ d[i].name = name} IN IF at = {} THEN 0 ELSE Max(at)
Found(d, name) ==
    LET at == {i \in DOMAIN d : Start(d) > 0 /\ i > Start(d) /\ i < End(d) /\ d[i].kind = "key" /\ d[i].name = name}
    IN IF at = {} THEN 0 ELSE Max(at)

\* A new line goes after the last line of the section that is not blank.
Place(d) == Max({Start(d)} \cup {i \in DOMAIN d : i > Start(d) /\ i < End(d) /\ d[i].kind # "blank"})

\* edit with a line, and without one.  A table of its own has to be edited by hand.
ByHand(d, name) == \E i \in DOMAIN d : d[i].kind = "sub" /\ d[i].name = name
Edited(d, name, value) ==
    LET line == Text("key", name, value) IN
    CASE Found(d, name) > 0 -> [d EXCEPT ![Found(d, name)] = line]
      [] Start(d) = 0 -> d \o (IF d = <<>> THEN <<>> ELSE <<Text("blank", "", NoValue)>>)
                           \o <<Text("packages", "", NoValue), line>>
      [] OTHER -> SubSeq(d, 1, Place(d)) \o <<line>> \o SubSeq(d, Place(d) + 1, Len(d))
Dropped(d, name) ==
    IF Found(d, name) = 0 THEN d ELSE SubSeq(d, 1, Found(d, name) - 1) \o SubSeq(d, Found(d, name) + 1, Len(d))

\* Parse's packages: the keys of [packages] and the tables under it.
Section(d, i) == LET above == {j \in DOMAIN d : j < i /\ Header(d[j])} IN IF above = {} THEN Text("table", "", NoValue) ELSE d[Max(above)]
Declares(d, i) ==
    \/ d[i].kind = "key" /\ Section(d, i).kind = "packages"
    \/ d[i].kind = "sub"
Parses(d) ==
    /\ \A i, j \in DOMAIN d : Declares(d, i) /\ Declares(d, j) /\ d[i].name = d[j].name => i = j
    /\ \A i \in DOMAIN d : Declares(d, i) => ReadsEntry(d[i].value)
Parse(d) == {[name |-> d[i].name, entry |-> ToEntry(d[i].value)] : i \in {j \in DOMAIN d : Declares(d, j)}}

\* The lines that no entry of a name in Pkgs is on.
Others(d) == SelectSeq(d, LAMBDA l : l.kind \in {"comment", "table", "sub"} \/ (l.kind = "key" /\ l.name \notin Pkgs))

-----------------------------------------------------------------------------
NoAge == [n |-> 0, unit |-> "", whole |-> TRUE]

FileInit ==
    /\ doc \in Docs /\ Parses(doc)
    /\ want = [entries |-> Parse(doc), others |-> Others(doc)]
    /\ edits = 0
    /\ age = NoAge

\* list.Set, as add and update write an entry.
Add(name, e) ==
    /\ edits < Edits /\ ~ByHand(doc, name)
    /\ doc' = Edited(doc, name, Line(e))
    /\ want' = [want EXCEPT !.entries = {w \in @ : w.name # name} \cup {[name |-> name, entry |-> e]}]
    /\ edits' = edits + 1
    /\ UNCHANGED age

\* list.Delete.
Delete(name) ==
    /\ edits < Edits /\ ~ByHand(doc, name)
    /\ doc' = Dropped(doc, name)
    /\ want' = [want EXCEPT !.entries = {w \in @ : w.name # name}]
    /\ edits' = edits + 1
    /\ UNCHANGED age

\* A min_release_age is read from the list.
ReadAge(a) == doc = <<>> /\ AgeReads(a) /\ age' = a /\ UNCHANGED <<doc, want, edits>>

FileNext ==
    \/ \E name \in Pkgs : Delete(name) \/ \E e \in Entries : Add(name, e)
    \/ \E a \in Ages : ReadAge(a)
FileSpec == FileInit /\ [][FileNext]_fileVars

-----------------------------------------------------------------------------
\* An age that is accepted is waited for in full: it does not wrap around to a shorter one.
AgeHolds == age.n * (IF age.unit = "" THEN 0 ELSE Unit[age.unit]) = ParseAge(age)

\* After any edits oku.toml still parses, says exactly what was added and not removed, with every setting
\* (list.go, "A misspelt or mistyped key would be left out, and with it a pin the user asked for"), and
\* has the other lines in their order (list.Set, "the user's comments and ordering stay").  An age that it
\* sets holds in full.
EntriesKept == Parses(doc) /\ Parse(doc) = want.entries /\ Others(doc) = want.others /\ AgeHolds

=============================================================================
