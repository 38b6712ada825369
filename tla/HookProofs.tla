----------------------------- MODULE HookProofs ------------------------------
(***************************************************************************)
(* AppliedIsAllowed holds for any user, with any projects, lists, .env     *)
(* files and shells, and any order of pulls, edits, allows and denies      *)
(* between the steps of their prompts.                                     *)
(*                                                                         *)
(* Good says what an allow is worth: the texts in its digest and those     *)
(* that git does not track are agreed to, and for a file whose time it     *)
(* keeps, so is the text that the file has as long as it has that time.    *)
(* A pull gives a file a new time, so that git is asked about it; that is  *)
(* why Good outlives every change of files (GoodStays).  An allow that is  *)
(* Good and holds covers what a prompt applies (HoldsIsAgreed), and what   *)
(* the prompt saves is Good again.                                         *)
(*                                                                         *)
(* A prompt carries the allow that it read through its steps.  That one    *)
(* is Good unless an allow or a deny came since (late); a prompt that      *)
(* saves it then puts the project in crossed.                              *)
(***************************************************************************)
EXTENDS Hook, SequenceTheorems, TLAPS

-----------------------------------------------------------------------------
(* The invariant.                                                          *)

FilesInv ==
    /\ setting \in Settings /\ clock \in Nat
    /\ DOMAIN files = DOMAIN setting.files
    /\ \A p \in DOMAIN files :
        /\ DOMAIN files[p] = {"text", "time", "tracked"}
        /\ files[p].tracked \in BOOLEAN
        /\ files[p].time \in Nat /\ files[p].time <= clock + 1
        /\ files[p].text # None => files[p].time # 0
        /\ files[p].text \in TextsAt(setting, p)

(* What the time t that an allow keeps of the file p says, of the texts    *)
(* that are agreed to, up to the time c + 1                                *)
Known(texts, c, p, t) ==
    /\ t \in Nat /\ t <= c + 1
    /\ t = ModTime(files[p]) => <<p, files[p].text>> \in texts
    /\ t = 0 => <<p, None>> \in texts

Good(texts, c, d, a) ==
    /\ <<setting.projects[d].toml, a.digest[1]>> \in texts
    /\ \A p \in DOMAIN a.digest[2] : <<p, a.digest[2][p]>> \in texts
    /\ OwnTexts(files) \subseteq texts
    /\ DOMAIN a = {"digest", "untracked"} /\ DOMAIN a.untracked \subseteq DOMAIN files
    /\ \A p \in DOMAIN a.untracked : Known(texts, c, p, a.untracked[p])

GoodNow(d, a) == Good(agreed[d], clock, d, a)

AllowInv ==
    /\ DOMAIN allow = Projects /\ DOMAIN agreed = Projects
    /\ \A d \in Projects : d \notin crossed /\ allow[d] # None => GoodNow(d, allow[d])

Applies(d) == d \in Projects /\ (d \notin crossed => TextsOf(d, files) \subseteq agreed[d])

ShellFits(sh) ==
    /\ DOMAIN sh = ShellFields
    /\ sh.step \in {"check", "save", "apply"} /\ sh.calm => ~sh.late
    /\ sh.step \in {"check", "save"} /\ sh.record # None =>
         /\ sh.dir \in Projects
         /\ ~sh.late /\ sh.dir \notin crossed => GoodNow(sh.dir, sh.record)
    /\ sh.step \in {"save", "apply"} /\ sh.holds /\ sh.calm => Applies(sh.dir)
    /\ sh.step = "idle" /\ sh.calm /\ sh.active # None => Applies(sh.active)

ShellsInv == /\ \E S : shells \in Seq(S)
             /\ \A s \in DOMAIN shells : ShellFits(shells[s])

HookInv == FilesInv /\ AllowInv /\ ShellsInv

-----------------------------------------------------------------------------
(* The files that an allow is about.                                       *)

LEMMA FilesAre ==
    ASSUME FilesInv, NEW d \in Projects, ~NoList(setting.projects[d], files)
    PROVE  {setting.projects[d].toml} \cup PathsOf(setting.projects[d], Text(files)) \subseteq DOMAIN files
<1> DEFINE pr == setting.projects[d]
           texts == Text(files)
<1>1. \A p \in ListPaths(pr) :
        /\ p \in DOMAIN files
        /\ \A t \in TextsAt(setting, p) \ {None} : \A f \in ToSet(setting.contents[t].files) : f.path \in DOMAIN files
  BY HookAssumption DEF FilesInv, Projects
<1>2. pr.toml \in ListPaths(pr)
  BY DEF ListPaths
<1>3. ASSUME NEW p \in ListPaths(pr), texts[p] # None, NEW f \in ToSet(texts[p].files)
      PROVE  f.path \in DOMAIN files
  <2>1. texts[p] = setting.contents[files[p].text] /\ files[p].text # None
    BY <1>1, <1>3 DEF Text
  <2>2. files[p].text \in TextsAt(setting, p) \ {None}
    BY <1>1, <2>1 DEF FilesInv
  <2> QED BY <1>1, <1>3, <2>1, <2>2
<1>4. texts[pr.toml] # None
  BY DEF NoList, Broken
<1> DEFINE overlays == {p \in ListPaths(pr) \ {pr.toml} : texts[p] # None}
           lists == {pr.toml} \cup {p \in overlays : ~Broken(texts[p])}
<1>5. PathsOf(pr, texts) = overlays \cup UNION {{f.path : f \in ToSet(texts[p].files)} : p \in lists}
  BY DEF PathsOf
<1>6. \A p \in lists : p \in ListPaths(pr) /\ texts[p] # None
  BY <1>2, <1>4
<1>7. UNION {{f.path : f \in ToSet(texts[p].files)} : p \in lists} \subseteq DOMAIN files
  <2> HIDE DEF lists, texts, pr
  <2> QED BY <1>3, <1>6
<1> QED BY <1>1, <1>2, <1>5, <1>7

(* What the user agreed to with the files as they are.                     *)
LEMMA NewIsGood ==
    ASSUME FilesInv, NEW d \in Projects, ~NoList(setting.projects[d], files),
           NEW yes, yes = TextsOf(d, files) \cup OwnTexts(files), NEW c \in Nat, c >= clock
    PROVE  Good(yes, c, d, NewAllow(setting.projects[d], files))
<1> DEFINE pr == setting.projects[d]
           paths == PathsOf(pr, Text(files))
           tracked == {p \in paths : files[p].tracked}
           a == NewAllow(pr, files)
<1>1. {pr.toml} \cup paths \subseteq DOMAIN files
  BY FilesAre
<1>2. \A p \in {pr.toml} \cup paths : <<p, files[p].text>> \in yes
  BY DEF TextsOf
<1> HIDE DEF paths, pr
<1>3. a.digest = <<files[pr.toml].text, [p \in tracked |-> files[p].text]>>
      /\ a.untracked = [p \in paths \ tracked |-> ModTime(files[p])]
      /\ DOMAIN a = {"digest", "untracked"}
  BY DEF NewAllow, Digest, paths
<1> HIDE DEF a
<1>4. <<pr.toml, a.digest[1]>> \in yes
  BY <1>2, <1>3
<1>5. \A p \in DOMAIN a.digest[2] : <<p, a.digest[2][p]>> \in yes
  BY <1>2, <1>3
<1>6. ASSUME NEW p \in paths PROVE Known(yes, c, p, ModTime(files[p]))
  <2>1. p \in DOMAIN files /\ <<p, files[p].text>> \in yes
    BY <1>1, <1>2
  <2> QED BY <2>1 DEF Known, ModTime, FilesInv
<1>7. DOMAIN a.untracked \subseteq DOMAIN files /\ \A p \in DOMAIN a.untracked : Known(yes, c, p, a.untracked[p])
  BY <1>1, <1>3, <1>6
<1> QED BY <1>3, <1>4, <1>5, <1>7 DEF Good, a, pr

(* An allow that is Good and holds covers what a prompt applies, and is    *)
(* Good with the times that the prompt saves.                              *)
LEMMA HoldsIsAgreed ==
    ASSUME FilesInv, NEW d \in Projects, NEW a, GoodNow(d, a), NEW found,
           found = Holds(setting.projects[d], a, files)
    PROVE  /\ found.holds => TextsOf(d, files) \subseteq agreed[d]
           /\ found.save # None => GoodNow(d, found.save)
<1> DEFINE pr == setting.projects[d]
           paths == PathsOf(pr, Text(files))
           asked == {p \in paths : Asked(a, p, files[p])}
           tracked == {p \in asked : files[p].tracked}
           new == [p \in (asked \ tracked) \cup DOMAIN a.untracked |->
                     IF p \in asked \ tracked THEN ModTime(files[p]) ELSE a.untracked[p]]
<1>1. CASE a = None \/ NoList(pr, files)
  BY <1>1 DEF Holds
<1>2. CASE ~(a = None \/ NoList(pr, files))
  <2>1. {pr.toml} \cup paths \subseteq DOMAIN files
    BY <1>2, FilesAre
  <2>2. /\ found.holds = (Digest(pr, files, tracked) = a.digest)
        /\ found.save = IF found.holds /\ asked # tracked THEN [a EXCEPT !.untracked = new] ELSE None
    BY <1>2 DEF Holds
  <2>3. ASSUME NEW p \in paths, ~files[p].tracked PROVE <<p, files[p].text>> \in agreed[d]
    <3>1. <<p, files[p].text>> \in OwnTexts(files)
      BY <2>1, <2>3 DEF OwnTexts
    <3> QED BY <3>1 DEF GoodNow, Good
  <2>4. ASSUME found.holds PROVE TextsOf(d, files) \subseteq agreed[d]
    <3>1. a.digest[1] = files[pr.toml].text /\ a.digest[2] = [p \in tracked |-> files[p].text]
      <4> HIDE DEF paths, pr, asked, tracked, new
      <4>1. Digest(pr, files, tracked) = a.digest
        BY <2>2, <2>4
      <4>2. a.digest = <<files[pr.toml].text, [p \in tracked |-> files[p].text]>>
        BY <4>1 DEF Digest
      <4> QED BY <4>2
    <3>2. <<pr.toml, files[pr.toml].text>> \in agreed[d]
      BY <3>1 DEF GoodNow, Good
    <3>3. ASSUME NEW p \in paths PROVE <<p, files[p].text>> \in agreed[d]
      <4>1. CASE p \notin asked
        <5>1. p \in DOMAIN a.untracked /\ a.untracked[p] = ModTime(files[p])
          BY <4>1 DEF Asked
        <5> QED BY <5>1 DEF GoodNow, Good, Known
      <4>2. CASE p \in tracked
        <5>1. p \in DOMAIN a.digest[2] /\ a.digest[2][p] = files[p].text
          BY <3>1, <4>2
        <5> QED BY <5>1 DEF GoodNow, Good
      <4> QED BY <4>1, <4>2, <2>3
    <3>4. TextsOf(d, files) = {<<p, files[p].text>> : p \in {pr.toml} \cup paths}
      BY <1>2 DEF TextsOf
    <3> HIDE DEF paths, pr
    <3> QED BY <3>2, <3>3, <3>4
  <2>5. ASSUME found.save # None PROVE GoodNow(d, found.save)
    <3>1. found.save = [a EXCEPT !.untracked = new] /\ DOMAIN a = {"digest", "untracked"}
      BY <2>2, <2>5 DEF GoodNow, Good
    <3>2. found.save.digest = a.digest /\ found.save.untracked = new /\ DOMAIN found.save = DOMAIN a
      BY <3>1
    <3>3. /\ DOMAIN new = (asked \ tracked) \cup DOMAIN a.untracked
          /\ \A p \in DOMAIN new : new[p] = IF p \in asked \ tracked THEN ModTime(files[p]) ELSE a.untracked[p]
      <4> HIDE DEF paths, pr, asked, tracked
      <4> QED OBVIOUS
    <3>4. ASSUME NEW p \in asked \ tracked PROVE Known(agreed[d], clock, p, ModTime(files[p]))
      <4>1. p \in DOMAIN files /\ <<p, files[p].text>> \in agreed[d]
        BY <2>1, <2>3, <3>4
      <4> QED BY <4>1 DEF Known, ModTime, FilesInv
    <3>5. DOMAIN new \subseteq DOMAIN files /\ \A p \in DOMAIN new : Known(agreed[d], clock, p, new[p])
      <4> HIDE DEF new, paths
      <4>1. DOMAIN new \subseteq DOMAIN files
        BY <2>1, <3>3 DEF GoodNow, Good
      <4>2. ASSUME NEW p \in DOMAIN new PROVE Known(agreed[d], clock, p, new[p])
        BY <3>3, <3>4 DEF GoodNow, Good
      <4> QED BY <4>1, <4>2
    <3> HIDE DEF new
    <3> QED BY <3>1, <3>2, <3>5 DEF GoodNow, Good
  <2> QED BY <2>4, <2>5
<1> QED BY <1>1, <1>2

-----------------------------------------------------------------------------
(* What a change leaves.                                                   *)

LEMMA Later ==
    ASSUME NEW c \in Nat, NEW e \in {c, c + 1}, NEW t \in Nat, t <= c + 1
    PROVE  t <= e + 1
OBVIOUS

(* An allow outlives every change that gives the files it changes the time *)
(* of the change, or takes them away, and agrees to the user's own texts.  *)
LEMMA GoodStays ==
    ASSUME FilesInv, FilesInv', setting' = setting, clock' \in {clock, clock + 1},
           \A p \in DOMAIN files :
              \/ ModTime(files'[p]) \in {0, clock + 2}
              \/ files'[p].text = files[p].text /\ files'[p].time = files[p].time,
           NEW d \in Projects, NEW a, GoodNow(d, a),
           agreed[d] \subseteq agreed'[d], OwnTexts(files') \subseteq agreed'[d]
    PROVE  GoodNow(d, a)'
<1>1. DOMAIN files' = DOMAIN files /\ clock \in Nat /\ clock' \in Nat
  BY DEF FilesInv
<1>2. ASSUME NEW p \in DOMAIN a.untracked
      PROVE  Known(agreed[d], clock, p, a.untracked[p])'
  <2> DEFINE t == a.untracked[p]
  <2>1. p \in DOMAIN files /\ Known(agreed[d], clock, p, t)
    BY <1>2 DEF GoodNow, Good
  <2> HIDE DEF t
  <2>2. t \in Nat /\ t <= clock' + 1
    <3>1. t \in Nat /\ t <= clock + 1
      BY <2>1 DEF Known
    <3> QED BY <1>1, <3>1, Later
  <2>3. t = 0 => <<p, None>> \in agreed'[d]
    BY <2>1 DEF Known
  <2>4. ASSUME t = ModTime(files'[p]) PROVE <<p, files'[p].text>> \in agreed'[d]
    <3>1. CASE ModTime(files'[p]) = 0
      <4>1. files'[p].text = None
        BY <1>1, <2>1, <3>1 DEF ModTime, FilesInv
      <4> QED BY <2>3, <2>4, <3>1, <4>1
    <3>2. CASE ModTime(files'[p]) = clock + 2
      BY <1>1, <2>1, <2>4, <3>2 DEF Known
    <3>3. CASE files'[p].text = files[p].text /\ files'[p].time = files[p].time
      <4>1. ModTime(files'[p]) = ModTime(files[p])
        BY <3>3 DEF ModTime
      <4> QED BY <2>1, <2>4, <3>3, <4>1 DEF Known
    <3> QED BY <2>1, <3>1, <3>2, <3>3
  <2> QED BY <2>2, <2>3, <2>4 DEF Known, t
<1>3. <<setting'.projects[d].toml, a.digest[1]>> \in agreed'[d]
  BY DEF GoodNow, Good
<1>4. \A p \in DOMAIN a.digest[2] : <<p, a.digest[2][p]>> \in agreed'[d]
  BY DEF GoodNow, Good
<1>5. DOMAIN a = {"digest", "untracked"} /\ DOMAIN a.untracked \subseteq DOMAIN files'
  BY <1>1 DEF GoodNow, Good
<1> QED BY <1>2, <1>3, <1>4, <1>5 DEF GoodNow, Good

(* What a prompt relies on stays when nothing but an allow changes, or     *)
(* another prompt puts one back.                                           *)
LEMMA FitsStays ==
    ASSUME UNCHANGED <<setting, files, agreed, clock>>, crossed \subseteq crossed',
           NEW sh, ShellFits(sh)
    PROVE  ShellFits(sh)'
<1>1. Projects' = Projects
  BY DEF Projects
<1>2. \A d, a : GoodNow(d, a)' = GoodNow(d, a)
  BY DEF GoodNow, Good, Known, OwnTexts
<1>3. \A d : TextsOf(d, files)' = TextsOf(d, files)
  BY DEF TextsOf, NoList, PathsOf, Text
<1>4. \A d : Applies(d) => Applies(d)'
  BY <1>1, <1>3 DEF Applies
<1> QED BY <1>1, <1>2, <1>4 DEF ShellFits

(* The prompt reads allow.toml again.                                      *)
LEMMA FitsRead ==
    ASSUME NEW sh, DOMAIN sh = ShellFields, sh.step = "read"
    PROVE  ShellFits(sh)'
BY DEF ShellFits

(* Shells that stay as many stay a sequence.                               *)
LEMMA SequenceStays ==
    ASSUME NEW ss, \E S : ss \in Seq(S), NEW tt, DOMAIN tt = DOMAIN ss, tt = [s \in DOMAIN ss |-> tt[s]]
    PROVE  \E S : tt \in Seq(S)
<1>1. PICK S : ss \in Seq(S)
  OBVIOUS
<1>2. Len(ss) \in Nat /\ DOMAIN ss = 1 .. Len(ss)
  BY <1>1, LenProperties
<1> DEFINE T == {tt[s] : s \in DOMAIN ss}
<1>3. tt \in [1 .. Len(ss) -> T]
  BY <1>2
<1>4. tt \in Seq(T)
  BY <1>2, <1>3, SeqDef
<1> QED BY <1>4

(* A step of one shell, whose other shells stay as they fit.               *)
LEMMA ShellSteps ==
    ASSUME ShellsInv, NEW s \in DOMAIN shells, NEW sh, shells' = [shells EXCEPT ![s] = sh], ShellFits(sh)',
           UNCHANGED <<setting, files, agreed, clock>>, crossed \subseteq crossed'
    PROVE  ShellsInv'
<1>1. DOMAIN shells' = DOMAIN shells /\ shells' = [r \in DOMAIN shells |-> shells'[r]]
  OBVIOUS
<1>2. \E S : shells' \in Seq(S)
  BY <1>1, SequenceStays DEF ShellsInv
<1>3. ASSUME NEW r \in DOMAIN shells PROVE ShellFits(shells[r])'
  <2>1. CASE r = s
    <3>1. shells'[r] = sh
      BY <2>1
    <3> QED BY <3>1 DEF ShellFits, GoodNow, Good, Known, Applies
  <2>2. CASE r # s
    <3> DEFINE old == shells[r]
    <3>1. ShellFits(old) /\ shells'[r] = old
      BY <2>2 DEF ShellsInv
    <3> QED BY <3>1, FitsStays
  <2> QED BY <2>1, <2>2
<1> QED BY <1>1, <1>2, <1>3 DEF ShellsInv

(* A change of files in another terminal.                                  *)
LEMMA FilesChange ==
    ASSUME HookInv, FilesInv', UNCHANGED <<setting, allow, crossed>>,
           clock' = clock + 1, shells' = Stir(shells), DOMAIN agreed' = Projects,
           \A p \in DOMAIN files :
              \/ ModTime(files'[p]) \in {0, clock + 2}
              \/ files'[p].text = files[p].text /\ files'[p].time = files[p].time,
           \A d \in Projects :
              /\ agreed[d] \subseteq agreed'[d]
              /\ agreed[d] # {} /\ OwnTexts(files) \subseteq agreed[d] => OwnTexts(files') \subseteq agreed'[d]
    PROVE  HookInv'
<1>1. FilesInv /\ AllowInv /\ ShellsInv /\ clock' \in {clock, clock + 1}
  BY DEF HookInv
<1>2. Projects' = Projects
  BY DEF Projects
<1>3. ASSUME NEW d \in Projects, NEW a, GoodNow(d, a) PROVE GoodNow(d, a)'
  <2>1. agreed[d] # {} /\ OwnTexts(files) \subseteq agreed[d]
    BY <1>3 DEF GoodNow, Good
  <2>2. agreed[d] \subseteq agreed'[d] /\ OwnTexts(files') \subseteq agreed'[d]
    BY <2>1
  <2> QED BY <1>1, <1>3, <2>2, GoodStays
<1>4. AllowInv'
  BY <1>1, <1>2, <1>3 DEF AllowInv
<1>5. DOMAIN shells' = DOMAIN shells /\ shells' = [s \in DOMAIN shells |-> shells'[s]]
  BY DEF Stir
<1>6. \E S : shells' \in Seq(S)
  BY <1>1, <1>5, SequenceStays DEF ShellsInv
<1>7. ASSUME NEW s \in DOMAIN shells PROVE ShellFits(shells[s])'
  <2> DEFINE old == shells[s]
  <2> PICK new : new = shells'[s]
    OBVIOUS
  <2>1. ShellFits(old)
    BY <1>1 DEF ShellsInv
  <2>2. new = [old EXCEPT !.calm = FALSE]
    BY DEF Stir
  <2>3. DOMAIN old = ShellFields
    BY <2>1 DEF ShellFits
  <2>4. /\ DOMAIN new = ShellFields /\ ~new.calm
        /\ new.step = old.step /\ new.record = old.record /\ new.dir = old.dir /\ new.late = old.late
    BY <2>2, <2>3 DEF ShellFields
  <2> HIDE DEF old
  <2>5. ASSUME new.step \in {"check", "save"}, new.record # None
        PROVE  /\ new.dir \in Projects
               /\ ~new.late /\ new.dir \notin crossed => GoodNow(new.dir, new.record)'
    BY <1>3, <2>1, <2>4, <2>5 DEF ShellFits
  <2>6. ShellFits(new)'
    BY <1>2, <2>4, <2>5 DEF ShellFits
  <2> QED BY <2>6 DEF ShellFits, GoodNow, Good, Known, Applies
<1> QED BY <1>1, <1>4, <1>5, <1>6, <1>7 DEF HookInv, ShellsInv

(* The files after a change.                                               *)
LEMMA FilesFit ==
    ASSUME FilesInv, setting' = setting, clock' = clock + 1, DOMAIN files' = DOMAIN files,
           \A p \in DOMAIN files :
              /\ DOMAIN files'[p] = {"text", "time", "tracked"} /\ files'[p].tracked \in BOOLEAN
              /\ files'[p].text \in TextsAt(setting, p)
              /\ \/ files'[p].time = clock + 2
                 \/ files'[p].time = files[p].time /\ files'[p].text = files[p].text
    PROVE  FilesInv'
<1>1. setting' \in Settings /\ clock \in Nat /\ clock' \in Nat /\ DOMAIN files' = DOMAIN setting'.files
  BY DEF FilesInv
<1>2. ASSUME NEW p \in DOMAIN files'
      PROVE  /\ files'[p].time \in Nat /\ files'[p].time <= clock' + 1
             /\ files'[p].text # None => files'[p].time # 0
  <2>1. CASE files'[p].time = clock + 2
    BY <1>1, <2>1
  <2>2. CASE files'[p].time = files[p].time /\ files'[p].text = files[p].text
    <3>1. files[p].time \in Nat /\ files[p].time <= clock + 1 /\ (files[p].text # None => files[p].time # 0)
      BY DEF FilesInv
    <3> QED BY <1>1, <2>2, <3>1, Later
  <2> QED BY <2>1, <2>2
<1> QED BY <1>1, <1>2 DEF FilesInv

(* The user's own file or one of git, as the user writes it.               *)
LEMMA UserWritesKeeps ==
    ASSUME HookInv, NEW path, NEW text, UserWrites(path, text)
    PROVE  HookInv'
<1>1. FilesInv /\ AllowInv /\ clock \in Nat /\ clock' = clock + 1
  BY DEF HookInv, FilesInv, UserWrites, Elsewhere, Changes
<1>2. UNCHANGED <<setting, allow, crossed>> /\ shells' = Stir(shells)
  BY DEF UserWrites, Elsewhere
<1>3. path \in DOMAIN setting.files /\ text \in TextsAt(setting, path)
  <2>1. <<path, text>> \in setting.writes /\ setting \in Settings
    BY <1>1 DEF UserWrites, FilesInv
  <2> QED BY <2>1, HookAssumption DEF TextsAt
<1>4. /\ files' = [files EXCEPT ![path].text = text, ![path].time = clock + 2]
      /\ agreed' = [d \in Projects |->
           IF ~files[path].tracked /\ agreed[d] # {} THEN agreed[d] \cup {<<path, text>>} ELSE agreed[d]]
  BY DEF UserWrites, Write, Now
<1>5. /\ path \in DOMAIN files /\ DOMAIN files' = DOMAIN files
      /\ \A p \in DOMAIN files : p # path => files'[p] = files[p]
      /\ files'[path] = [files[path] EXCEPT !.text = text, !.time = clock + 2]
  BY <1>1, <1>3, <1>4 DEF FilesInv
<1>6. /\ DOMAIN files'[path] = {"text", "time", "tracked"} /\ files'[path].tracked = files[path].tracked
      /\ files'[path].text = text /\ files'[path].time = clock + 2
  BY <1>1, <1>5 DEF FilesInv
<1>7. FilesInv'
  <2>1. ASSUME NEW p \in DOMAIN files
        PROVE  /\ DOMAIN files'[p] = {"text", "time", "tracked"} /\ files'[p].tracked \in BOOLEAN
               /\ files'[p].text \in TextsAt(setting, p)
               /\ \/ files'[p].time = clock + 2
                  \/ files'[p].time = files[p].time /\ files'[p].text = files[p].text
    <3>1. CASE p = path
      BY <1>1, <1>3, <1>5, <1>6, <3>1 DEF FilesInv
    <3>2. CASE p # path
      <4>1. files'[p] = files[p]
        BY <1>5, <3>2
      <4> QED BY <1>1, <4>1 DEF FilesInv
    <3> QED BY <3>1, <3>2
  <2> QED BY <1>1, <1>2, <1>5, <2>1, FilesFit
<1>8. \A p \in DOMAIN files :
         \/ ModTime(files'[p]) \in {0, clock + 2}
         \/ files'[p].text = files[p].text /\ files'[p].time = files[p].time
  BY <1>5, <1>6 DEF ModTime
<1>9. ASSUME NEW d \in Projects
      PROVE  /\ agreed[d] \subseteq agreed'[d]
             /\ agreed[d] # {} /\ OwnTexts(files) \subseteq agreed[d] => OwnTexts(files') \subseteq agreed'[d]
  <2>1. agreed[d] \subseteq agreed'[d]
    BY <1>4
  <2>2. ASSUME agreed[d] # {}, OwnTexts(files) \subseteq agreed[d],
               NEW p \in DOMAIN files, ~files'[p].tracked
        PROVE  <<p, files'[p].text>> \in agreed'[d]
    <3>1. CASE p = path
      BY <1>4, <1>6, <2>2, <3>1
    <3>2. CASE p # path
      BY <1>5, <2>1, <2>2, <3>2 DEF OwnTexts
    <3> QED BY <3>1, <3>2
  <2>3. OwnTexts(files') = {<<p, files'[p].text>> : p \in {q \in DOMAIN files : ~files'[q].tracked}}
    BY <1>5 DEF OwnTexts
  <2> QED BY <2>1, <2>2, <2>3
<1>10. DOMAIN agreed' = Projects
  BY <1>4
<1> QED BY <1>1, <1>2, <1>7, <1>8, <1>9, <1>10, FilesChange

(* A pull: the file is of git from then on, and has a new time.            *)
LEMMA PullKeeps ==
    ASSUME HookInv, NEW path, NEW text, Pull(path, text)
    PROVE  HookInv'
<1>1. FilesInv /\ AllowInv /\ clock \in Nat /\ clock' = clock + 1
  BY DEF HookInv, FilesInv, Pull, Elsewhere, Changes
<1>2. UNCHANGED <<setting, allow, crossed, agreed>> /\ shells' = Stir(shells)
  BY DEF Pull, Elsewhere
<1>3. path \in DOMAIN setting.files /\ text \in TextsAt(setting, path)
  <2>1. <<path, text>> \in setting.pulls /\ setting \in Settings
    BY <1>1 DEF Pull, FilesInv
  <2> QED BY <2>1, HookAssumption DEF TextsAt
<1>4. files' = [files EXCEPT ![path] = [text |-> text, time |-> clock + 2, tracked |-> TRUE]]
  BY DEF Pull, Now
<1>5. /\ path \in DOMAIN files /\ DOMAIN files' = DOMAIN files
      /\ \A p \in DOMAIN files : p # path => files'[p] = files[p]
      /\ files'[path] = [text |-> text, time |-> clock + 2, tracked |-> TRUE]
  BY <1>1, <1>3, <1>4 DEF FilesInv
<1>6. FilesInv'
  <2>1. ASSUME NEW p \in DOMAIN files
        PROVE  /\ DOMAIN files'[p] = {"text", "time", "tracked"} /\ files'[p].tracked \in BOOLEAN
               /\ files'[p].text \in TextsAt(setting, p)
               /\ \/ files'[p].time = clock + 2
                  \/ files'[p].time = files[p].time /\ files'[p].text = files[p].text
    <3>1. CASE p = path
      <4>1. /\ DOMAIN files'[p] = {"text", "time", "tracked"} /\ files'[p].tracked = TRUE
            /\ files'[p].text = text /\ files'[p].time = clock + 2
        BY <1>5, <3>1
      <4> QED BY <1>3, <3>1, <4>1
    <3>2. CASE p # path
      <4>1. files'[p] = files[p]
        BY <1>5, <3>2
      <4> QED BY <1>1, <4>1 DEF FilesInv
    <3> QED BY <3>1, <3>2
  <2> QED BY <1>1, <1>2, <1>5, <2>1, FilesFit
<1>7. \A p \in DOMAIN files :
         \/ ModTime(files'[p]) \in {0, clock + 2}
         \/ files'[p].text = files[p].text /\ files'[p].time = files[p].time
  BY <1>5 DEF ModTime
<1>8. OwnTexts(files') \subseteq OwnTexts(files)
  BY <1>5 DEF OwnTexts
<1> QED BY <1>1, <1>2, <1>6, <1>7, <1>8, FilesChange DEF AllowInv

(* git add takes a file from the user's own.                               *)
LEMMA GitAddKeeps ==
    ASSUME HookInv, NEW path \in setting.added, GitAdd(path)
    PROVE  HookInv'
<1>1. FilesInv /\ AllowInv /\ clock \in Nat /\ clock' = clock + 1
  BY DEF HookInv, FilesInv, GitAdd, Elsewhere, Changes
<1>2. UNCHANGED <<setting, allow, crossed, agreed>> /\ shells' = Stir(shells)
  BY DEF GitAdd, Elsewhere
<1>3. path \in DOMAIN files
  BY <1>1, HookAssumption DEF FilesInv
<1>4. files' = [files EXCEPT ![path].tracked = TRUE]
  BY DEF GitAdd
<1>5. /\ DOMAIN files' = DOMAIN files
      /\ \A p \in DOMAIN files : p # path => files'[p] = files[p]
      /\ files'[path] = [files[path] EXCEPT !.tracked = TRUE]
  BY <1>3, <1>4
<1>6. /\ DOMAIN files'[path] = {"text", "time", "tracked"} /\ files'[path].tracked
      /\ files'[path].text = files[path].text /\ files'[path].time = files[path].time
  BY <1>1, <1>3, <1>5 DEF FilesInv
<1>7. FilesInv'
  <2>1. \A p \in DOMAIN files :
              /\ DOMAIN files'[p] = {"text", "time", "tracked"} /\ files'[p].tracked \in BOOLEAN
              /\ files'[p].text \in TextsAt(setting, p)
              /\ files'[p].time = files[p].time /\ files'[p].text = files[p].text
    BY <1>1, <1>5, <1>6 DEF FilesInv
  <2> QED BY <1>1, <1>2, <1>5, <2>1, FilesFit
<1>8. \A p \in DOMAIN files : files'[p].text = files[p].text /\ files'[p].time = files[p].time
  BY <1>5, <1>6
<1>9. OwnTexts(files') \subseteq OwnTexts(files)
  BY <1>5, <1>6 DEF OwnTexts
<1> QED BY <1>1, <1>2, <1>7, <1>8, <1>9, FilesChange DEF AllowInv

LEMMA ResyncKeeps ==
    ASSUME HookInv, NEW d, Resync(d)
    PROVE  HookInv'
<1>1. FilesInv /\ AllowInv /\ clock \in Nat /\ clock' = clock + 1
  BY DEF HookInv, FilesInv, Resync, Elsewhere, Changes
<1>2. UNCHANGED <<setting, allow, crossed, agreed, files>> /\ shells' = Stir(shells)
  BY DEF Resync, Elsewhere
<1>3. FilesInv'
  <2>1. \A p \in DOMAIN files :
              /\ DOMAIN files'[p] = {"text", "time", "tracked"} /\ files'[p].tracked \in BOOLEAN
              /\ files'[p].text \in TextsAt(setting, p)
              /\ files'[p].time = files[p].time /\ files'[p].text = files[p].text
    BY <1>1, <1>2 DEF FilesInv
  <2> QED BY <1>1, <1>2, <2>1, FilesFit
<1> QED BY <1>1, <1>2, <1>3, FilesChange DEF AllowInv

-----------------------------------------------------------------------------
(* Allows, denies, and the steps of a prompt.                              *)

(* An allow or a deny of d: what else a prompt relies on stays, and one    *)
(* that read the allow before is late.                                     *)
LEMMA DecisionKeeps ==
    ASSUME HookInv, NEW d \in Projects, Decides(d), UNCHANGED <<setting, files>>,
           DOMAIN allow' = Projects, DOMAIN agreed' = Projects,
           \A e \in Projects \ {d} : agreed'[e] = agreed[e] /\ allow'[e] = allow[e],
           allow'[d] # None => GoodNow(d, allow[d])'
    PROVE  HookInv'
<1>1. FilesInv /\ AllowInv /\ ShellsInv /\ clock \in Nat /\ clock' = clock + 1 /\ crossed' = crossed \ {d}
  BY DEF HookInv, FilesInv, Decides, Changes
<1>2. Projects' = Projects
  BY DEF Projects
<1>3. FilesInv'
  <2>1. \A p \in DOMAIN files :
              /\ DOMAIN files'[p] = {"text", "time", "tracked"} /\ files'[p].tracked \in BOOLEAN
              /\ files'[p].text \in TextsAt(setting, p)
              /\ files'[p].time = files[p].time /\ files'[p].text = files[p].text
    BY <1>1 DEF FilesInv
  <2> QED BY <1>1, <2>1, FilesFit
<1>4. ASSUME NEW e \in Projects \ {d}, NEW a, GoodNow(e, a) PROVE GoodNow(e, a)'
  <2>1. agreed'[e] = agreed[e] /\ OwnTexts(files) \subseteq agreed[e] /\ OwnTexts(files') = OwnTexts(files)
    BY <1>4 DEF GoodNow, Good
  <2>2. \A p \in DOMAIN files : files'[p].text = files[p].text /\ files'[p].time = files[p].time
    OBVIOUS
  <2>3. clock' \in {clock, clock + 1}
    BY <1>1
  <2> QED BY <1>1, <1>3, <1>4, <2>1, <2>2, <2>3, GoodStays
<1>5. AllowInv'
  <2>1. ASSUME NEW e \in Projects, e \notin crossed', allow'[e] # None PROVE GoodNow(e, allow[e])'
    <3>1. CASE e = d
      BY <2>1, <3>1
    <3>2. CASE e # d
      <4> PICK a : a = allow[e]
        OBVIOUS
      <4>1. GoodNow(e, a) /\ a = allow'[e]
        BY <1>1, <2>1, <3>2 DEF AllowInv
      <4>2. GoodNow(e, a)'
        BY <1>4, <3>2, <4>1
      <4> QED BY <4>1, <4>2 DEF GoodNow, Good, Known
    <3> QED BY <3>1, <3>2
  <2> QED BY <1>2, <2>1 DEF AllowInv
<1>6. /\ DOMAIN shells' = DOMAIN shells /\ shells' = [s \in DOMAIN shells |-> shells'[s]]
      /\ \A s \in DOMAIN shells :
           shells'[s] = [[shells[s] EXCEPT !.calm = FALSE] EXCEPT !.late = @ \/ shells[s].dir = d]
  BY DEF Decides, Stir
<1>7. \E S : shells' \in Seq(S)
  BY <1>1, <1>6, SequenceStays DEF ShellsInv
<1>8. ASSUME NEW s \in DOMAIN shells PROVE ShellFits(shells[s])'
  <2> DEFINE old == shells[s]
  <2> PICK new : new = shells'[s]
    OBVIOUS
  <2>1. ShellFits(old)
    BY <1>1 DEF ShellsInv
  <2>2. DOMAIN old = ShellFields
    BY <2>1 DEF ShellFits
  <2>3. new = [[old EXCEPT !.calm = FALSE] EXCEPT !.late = @ \/ old.dir = d]
    BY <1>6
  <2> HIDE DEF old
  <2>4. /\ DOMAIN new = ShellFields /\ ~new.calm
        /\ new.step = old.step /\ new.record = old.record /\ new.dir = old.dir
        /\ new.late = (old.late \/ old.dir = d)
    BY <2>2, <2>3 DEF ShellFields
  <2>5. ASSUME new.step \in {"check", "save"}, new.record # None
        PROVE  /\ new.dir \in Projects
               /\ ~new.late /\ new.dir \notin crossed' => GoodNow(new.dir, new.record)'
    <3>1. new.dir \in Projects /\ (~old.late /\ new.dir \notin crossed => GoodNow(new.dir, new.record))
      BY <2>1, <2>4, <2>5 DEF ShellFits
    <3>2. ASSUME ~new.late, new.dir \notin crossed' PROVE GoodNow(new.dir, new.record)'
      <4>1. new.dir # d /\ ~old.late
        BY <2>4, <3>2
      <4>2. GoodNow(new.dir, new.record)
        BY <1>1, <3>1, <3>2, <4>1
      <4> QED BY <1>4, <3>1, <4>1, <4>2
    <3> QED BY <3>1, <3>2
  <2>6. ShellFits(new)'
    BY <1>2, <2>4, <2>5 DEF ShellFits
  <2> QED BY <2>6 DEF ShellFits, GoodNow, Good, Known, Applies
<1> QED BY <1>3, <1>5, <1>6, <1>7, <1>8 DEF HookInv, ShellsInv

LEMMA AllowKeeps ==
    ASSUME HookInv, NEW d \in Projects, Allow(d)
    PROVE  HookInv'
<1> DEFINE project == setting.projects[d]
           yes == TextsOf(d, files) \cup OwnTexts(files)
<1>1. FilesInv /\ AllowInv /\ clock \in Nat /\ clock' = clock + 1
  BY DEF HookInv, FilesInv, Allow, Decides, Changes
<1>2. /\ Decides(d) /\ UNCHANGED <<setting, files>> /\ ~NoList(project, files)
      /\ allow' = [allow EXCEPT ![d] = NewAllow(project, files)] /\ agreed' = [agreed EXCEPT ![d] = yes]
  BY DEF Allow
<1>3. /\ DOMAIN allow' = Projects /\ DOMAIN agreed' = Projects
      /\ allow'[d] = NewAllow(project, files) /\ agreed'[d] = yes
      /\ \A e \in Projects \ {d} : agreed'[e] = agreed[e] /\ allow'[e] = allow[e]
  BY <1>1, <1>2 DEF AllowInv
<1>4. Good(yes, clock', d, NewAllow(project, files))
  <2>1. clock' \in Nat /\ clock' >= clock
    BY <1>1
  <2> QED BY <1>1, <1>2, <2>1, NewIsGood
<1>5. GoodNow(d, allow[d])'
  <2> HIDE DEF yes, project
  <2>1. Good(agreed'[d], clock', d, allow'[d])
    BY <1>3, <1>4
  <2> QED BY <1>2, <2>1 DEF GoodNow, Good, Known
<1> QED BY <1>2, <1>3, <1>5, DecisionKeeps

LEMMA DenyKeeps ==
    ASSUME HookInv, NEW d \in Projects, Deny(d)
    PROVE  HookInv'
<1>1. AllowInv
  BY DEF HookInv
<1>2. /\ Decides(d) /\ UNCHANGED <<setting, files>>
      /\ allow' = [allow EXCEPT ![d] = None] /\ agreed' = [agreed EXCEPT ![d] = {}]
  BY DEF Deny
<1>3. /\ DOMAIN allow' = Projects /\ DOMAIN agreed' = Projects /\ allow'[d] = None
      /\ \A e \in Projects \ {d} : agreed'[e] = agreed[e] /\ allow'[e] = allow[e]
  BY <1>1, <1>2 DEF AllowInv
<1> QED BY <1>2, <1>3, DecisionKeeps

LEMMA UnchangedKeeps ==
    ASSUME UNCHANGED <<setting, files, allow, agreed, crossed, clock>>
    PROVE  /\ FilesInv => FilesInv'
           /\ AllowInv => AllowInv'
<1>1. FilesInv => FilesInv'
  BY DEF FilesInv
<1>2. AllowInv => AllowInv'
  BY DEF AllowInv, GoodNow, Good, Known, OwnTexts, Projects
<1> QED BY <1>1, <1>2

(* A step of one shell alone.                                              *)
LEMMA ShellKeeps ==
    ASSUME HookInv, NEW s \in DOMAIN shells, NEW sh, shells' = [shells EXCEPT ![s] = sh], ShellFits(sh)',
           UNCHANGED <<setting, files, allow, agreed, crossed, clock>>
    PROVE  HookInv'
BY UnchangedKeeps, ShellSteps DEF HookInv

LEMMA PromptReadKeeps ==
    ASSUME HookInv, NEW s \in DOMAIN shells, PromptRead(s)
    PROVE  HookInv'
<1> DEFINE old == shells[s]
           record == IF old.dir \in Projects THEN allow[old.dir] ELSE None
<1> PICK new : new = [old EXCEPT !.step = "check", !.late = FALSE, !.record = record]
  OBVIOUS
<1>1. shells' = [shells EXCEPT ![s] = new] /\ UNCHANGED <<setting, files, allow, agreed, crossed, clock>>
  BY DEF PromptRead
<1>2. DOMAIN old = ShellFields
  BY DEF HookInv, ShellsInv, ShellFits
<1>3. /\ DOMAIN new = ShellFields /\ new.step = "check" /\ ~new.late /\ new.record = record /\ new.dir = old.dir
  BY <1>2 DEF ShellFields
<1>4. new.record # None => new.dir \in Projects /\ (new.dir \notin crossed => GoodNow(new.dir, new.record))
  BY <1>3 DEF HookInv, AllowInv
<1> HIDE DEF old, record
<1>5. ShellFits(new)
  BY <1>3, <1>4 DEF ShellFits
<1> QED BY <1>1, <1>5, FitsStays, ShellKeeps

LEMMA PromptCheckKeeps ==
    ASSUME HookInv, NEW s \in DOMAIN shells, PromptCheck(s)
    PROVE  HookInv'
<1> DEFINE old == shells[s]
           Checked == IF old.dir \in Projects THEN Holds(ProjectAt(old.dir), old.record, files)
                      ELSE [holds |-> FALSE, save |-> None]
<1> PICK found : found = Checked
  OBVIOUS
<1> PICK new : new = [old EXCEPT !.holds = found.holds, !.record = found.save,
                                 !.step = IF found.save = None THEN "apply" ELSE "save"]
  OBVIOUS
<1>1. shells' = [shells EXCEPT ![s] = new] /\ UNCHANGED <<setting, files, allow, agreed, crossed, clock>>
  BY DEF PromptCheck
<1>2. ShellFits(old) /\ DOMAIN old = ShellFields /\ old.step = "check"
  BY DEF HookInv, ShellsInv, ShellFits, PromptCheck
<1>3. /\ DOMAIN new = ShellFields /\ new.step = (IF found.save = None THEN "apply" ELSE "save")
      /\ new.late = old.late /\ new.calm = old.calm /\ new.dir = old.dir
      /\ new.holds = found.holds /\ new.record = found.save
  BY <1>2 DEF ShellFields
<1>4. FilesInv
  BY DEF HookInv
<1>5. ASSUME found.holds \/ found.save # None
      PROVE  /\ old.dir \in Projects /\ old.record # None
             /\ found = Holds(setting.projects[old.dir], old.record, files)
  <2>1. old.dir \in Projects
    BY <1>5
  <2>2. found = Holds(setting.projects[old.dir], old.record, files)
    BY <2>1 DEF ProjectAt
  <2>3. old.record # None
    BY <1>5, <2>2 DEF Holds
  <2> QED BY <2>1, <2>2, <2>3
<1>6. ASSUME found.holds \/ found.save # None, ~old.late, old.dir \notin crossed
      PROVE  /\ found.holds => TextsOf(old.dir, files) \subseteq agreed[old.dir]
             /\ found.save # None => GoodNow(old.dir, found.save)
  <2> HIDE DEF Checked
  <2>1. GoodNow(old.dir, old.record)
    BY <1>2, <1>5, <1>6 DEF ShellFits
  <2> QED BY <1>4, <1>5, <1>6, <2>1, HoldsIsAgreed
<1> HIDE DEF old, Checked
<1>7. old.calm => ~old.late
  BY <1>2 DEF ShellFits
<1>8. found.holds /\ old.calm => Applies(old.dir)
  BY <1>5, <1>6, <1>7 DEF Applies
<1>9. ShellFits(new)
  <2>1. CASE found.save = None
    BY <1>3, <1>7, <1>8, <2>1 DEF ShellFits
  <2>2. CASE found.save # None
    BY <1>3, <1>5, <1>6, <1>7, <1>8, <2>2 DEF ShellFits
  <2> QED BY <2>1, <2>2
<1> QED BY <1>1, <1>9, FitsStays, ShellKeeps

LEMMA PromptSaveKeeps ==
    ASSUME HookInv, NEW s \in DOMAIN shells, PromptSave(s)
    PROVE  HookInv'
<1> DEFINE old == shells[s]
<1> PICK new : new = [old EXCEPT !.step = "apply", !.record = None]
  OBVIOUS
<1>1. /\ shells' = [shells EXCEPT ![s] = new] /\ UNCHANGED <<setting, files, agreed, clock>>
      /\ allow' = [allow EXCEPT ![old.dir] = old.record]
      /\ crossed' = IF old.late THEN crossed \cup {old.dir} ELSE crossed
      /\ FilesInv /\ AllowInv /\ ShellsInv
  BY DEF PromptSave, HookInv
<1>2. ShellFits(old) /\ DOMAIN old = ShellFields /\ old.step = "save"
  BY <1>1 DEF ShellsInv, ShellFits, PromptSave
<1>3. /\ DOMAIN new = ShellFields /\ new.step = "apply" /\ new.late = old.late /\ new.calm = old.calm
      /\ new.dir = old.dir /\ new.holds = old.holds
  BY <1>2 DEF ShellFields
<1> HIDE DEF old
<1>4. ShellFits(new)
  BY <1>2, <1>3 DEF ShellFits
<1>5. ShellFits(new)' /\ crossed \subseteq crossed'
  BY <1>1, <1>4, FitsStays
<1>6. ShellsInv'
  BY <1>1, <1>5, ShellSteps
<1>7. FilesInv'
  BY <1>1 DEF FilesInv
<1>8. Projects' = Projects /\ \A d, a : GoodNow(d, a)' = GoodNow(d, a)
  BY <1>1 DEF Projects, GoodNow, Good, Known, OwnTexts
<1>9. ASSUME NEW d \in Projects, d \notin crossed', allow'[d] # None PROVE GoodNow(d, allow[d])'
  <2> PICK a : a = allow'[d]
    OBVIOUS
  <2>1. GoodNow(d, a)
    <3>1. CASE d = old.dir
      <4>1. a = old.record /\ ~old.late /\ d \notin crossed
        BY <1>1, <1>9, <3>1 DEF AllowInv
      <4> QED BY <1>2, <1>9, <3>1, <4>1 DEF ShellFits
    <3>2. CASE d # old.dir
      <4>1. a = allow[d] /\ d \notin crossed
        BY <1>1, <1>9, <3>2 DEF AllowInv
      <4> QED BY <1>1, <1>9, <4>1 DEF AllowInv
    <3> QED BY <3>1, <3>2
  <2>2. GoodNow(d, a)'
    BY <1>8, <2>1
  <2> QED BY <2>2 DEF GoodNow, Good, Known
<1>10. DOMAIN allow' = Projects /\ DOMAIN agreed' = Projects
  BY <1>1 DEF AllowInv
<1> QED BY <1>6, <1>7, <1>8, <1>9, <1>10 DEF HookInv, AllowInv

LEMMA PromptApplyKeeps ==
    ASSUME HookInv, NEW s \in DOMAIN shells, PromptApply(s)
    PROVE  HookInv'
<1> DEFINE old == shells[s]
           active == old.holds /\ old.dir \in synced
<1> PICK new : new = [old EXCEPT !.x = After(old, active), !.step = "idle", !.holds = FALSE,
                                 !.active = IF active THEN old.dir ELSE None]
  OBVIOUS
<1>1. shells' = [shells EXCEPT ![s] = new] /\ UNCHANGED <<setting, files, allow, agreed, crossed, clock>>
  BY DEF PromptApply
<1>2. ShellFits(old) /\ DOMAIN old = ShellFields /\ old.step = "apply"
  BY DEF HookInv, ShellsInv, ShellFits, PromptApply
<1>3. /\ DOMAIN new = ShellFields /\ new.step = "idle" /\ new.calm = old.calm
      /\ new.active = IF active THEN old.dir ELSE None
  BY <1>2 DEF ShellFields
<1> HIDE DEF old
<1>4. ShellFits(new)
  BY <1>2, <1>3 DEF ShellFits
<1> QED BY <1>1, <1>4, FitsStays, ShellKeeps

-----------------------------------------------------------------------------
(* What the user types.                                                    *)

LEMMA BeginReads ==
    ASSUME NEW sh, DOMAIN sh = ShellFields
    PROVE  DOMAIN Begin(sh) = ShellFields /\ Begin(sh).step = "read"
BY DEF Begin, ShellFields

LEMMA TypedKeeps ==
    ASSUME HookInv, NEW s \in DOMAIN shells, NEW sh, DOMAIN sh = ShellFields,
           shells' = [shells EXCEPT ![s] = Begin(sh)],
           UNCHANGED <<setting, files, allow, agreed, crossed, clock>>
    PROVE  HookInv'
<1> PICK new : new = Begin(sh)
  OBVIOUS
<1>1. DOMAIN new = ShellFields /\ new.step = "read"
  BY BeginReads
<1>2. ShellFits(new)'
  BY <1>1, FitsRead
<1> QED BY <1>2, ShellKeeps

LEMMA StartChildKeeps ==
    ASSUME HookInv, NEW s \in DOMAIN shells, NEW session, StartChild(s, session)
    PROVE  HookInv'
<1>1. PICK sh : DOMAIN sh = ShellFields /\ shells' = Append(shells, Begin(sh))
  <2> DEFINE old == shells[s]
             own == [n \in Names |-> IF n \in old.x.changed THEN None ELSE old.own[n]]
             child == [old EXCEPT !.x.passed = Empty,
                            !.x.vars["PATH"] = session \o @, !.local = TRUE,
                            !.own = [own EXCEPT !["PATH"] = session \o @],
                            !.session = session \o @]
  <2>1. DOMAIN old = ShellFields
    BY DEF HookInv, ShellsInv, ShellFits
  <2>2. DOMAIN child = ShellFields
    BY <2>1
  <2>3. DOMAIN Setup(child) = ShellFields
    <3> HIDE DEF child
    <3> QED BY <2>2 DEF Setup
  <2>4. shells' = Append(shells, Begin(Setup(child)))
    BY DEF StartChild
  <2> QED BY <2>3, <2>4
<1>2. UNCHANGED <<setting, files, allow, agreed, crossed, clock>>
  BY DEF StartChild
<1> PICK new : new = Begin(sh)
  OBVIOUS
<1>3. DOMAIN new = ShellFields /\ new.step = "read"
  BY <1>1, BeginReads
<1>4. FilesInv /\ AllowInv /\ ShellsInv
  BY DEF HookInv
<1>5. PICK S : shells \in Seq(S)
  BY <1>4 DEF ShellsInv
<1>6. shells \in Seq(S \cup {new}) /\ new \in S \cup {new}
  BY <1>5, SeqMonotonic
<1>7. /\ shells' \in Seq(S \cup {new}) /\ DOMAIN shells = 1 .. Len(shells) /\ Len(shells) \in Nat
      /\ DOMAIN shells' = 1 .. Len(shells')
      /\ Len(shells') = Len(shells) + 1
      /\ \A i \in 1 .. Len(shells) : shells'[i] = shells[i]
      /\ shells'[Len(shells) + 1] = new
  BY <1>1, <1>6, AppendProperties, LenProperties
<1>8. ASSUME NEW r \in DOMAIN shells' PROVE ShellFits(shells[r])'
  <2>1. CASE r = Len(shells) + 1
    <3>1. ShellFits(new)' /\ shells'[r] = new
      BY <1>3, <1>7, <2>1, FitsRead
    <3> QED BY <3>1 DEF ShellFits, GoodNow, Good, Known, Applies
  <2>2. CASE r # Len(shells) + 1
    <3> PICK old : old = shells[r]
      OBVIOUS
    <3>1. r \in DOMAIN shells /\ shells'[r] = old
      BY <1>7, <2>2
    <3>2. ShellFits(old)
      BY <1>4, <3>1 DEF ShellsInv
    <3>3. ShellFits(old)'
      BY <1>2, <3>2, FitsStays
    <3> QED BY <3>1, <3>3 DEF ShellFits, GoodNow, Good, Known, Applies
  <2> QED BY <2>1, <2>2
<1>9. ShellsInv'
  BY <1>7, <1>8 DEF ShellsInv
<1> QED BY <1>2, <1>4, <1>9, UnchangedKeeps DEF HookInv

LEMMA ShellTypedKeeps ==
    ASSUME HookInv, NEW s \in DOMAIN shells, Typed(s)
    PROVE  HookInv'
<1> DEFINE old == shells[s]
<1>1. DOMAIN old = ShellFields
  BY DEF HookInv, ShellsInv, ShellFits
<1>2. ASSUME NEW dir, Cd(s, dir) PROVE HookInv'
  <2> PICK new : new = [old EXCEPT !.dir = dir]
    OBVIOUS
  <2>1. DOMAIN new = ShellFields
    BY <1>1
  <2>2. shells' = [shells EXCEPT ![s] = Begin(new)] /\ UNCHANGED <<setting, files, allow, agreed, crossed, clock>>
    BY <1>2 DEF Cd
  <2> QED BY <2>1, <2>2, TypedKeeps
<1>3. ASSUME NEW n, NEW value, SetVar(s, n, value) PROVE HookInv'
  <2> DEFINE st == State(old.x)
             kept == IF value = None /\ n \in DOMAIN st.added THEN <<>> ELSE value
  <2> PICK new : new = [old EXCEPT !.x.vars[n] = value, !.own[n] = IF n \in DOMAIN st.saved THEN @ ELSE kept]
    OBVIOUS
  <2>1. DOMAIN new = ShellFields
    BY <1>1
  <2>2. shells' = [shells EXCEPT ![s] = Begin(new)] /\ UNCHANGED <<setting, files, allow, agreed, crossed, clock>>
    BY <1>3 DEF SetVar
  <2> QED BY <2>1, <2>2, TypedKeeps
<1>4. ASSUME NEW entry, PutInFront(s, entry) PROVE HookInv'
  <2> PICK new : new = [old EXCEPT !.x.vars["PATH"] = <<entry>> \o @, !.own["PATH"] = <<entry>> \o @]
    OBVIOUS
  <2>1. DOMAIN new = ShellFields
    BY <1>1
  <2>2. shells' = [shells EXCEPT ![s] = Begin(new)] /\ UNCHANGED <<setting, files, allow, agreed, crossed, clock>>
    BY <1>4 DEF PutInFront
  <2> QED BY <2>1, <2>2, TypedKeeps
<1>5. ASSUME Reload(s) PROVE HookInv'
  <2> PICK new : new = Setup(old)
    OBVIOUS
  <2>1. DOMAIN new = ShellFields
    BY <1>1 DEF Setup
  <2>2. shells' = [shells EXCEPT ![s] = Begin(new)] /\ UNCHANGED <<setting, files, allow, agreed, crossed, clock>>
    BY <1>5 DEF Reload
  <2> QED BY <2>1, <2>2, TypedKeeps
<1> QED BY <1>2, <1>3, <1>4, <1>5, StartChildKeeps DEF Typed

-----------------------------------------------------------------------------
LEMMA HookBegins == ASSUME HookInit PROVE HookInv
<1>1. setting \in Settings /\ files = setting.files /\ clock = 0 /\ shells = <<setting.shell>>
  BY DEF HookInit
<1>2. FilesInv
  <2>1. ASSUME NEW p \in DOMAIN files
        PROVE  /\ DOMAIN files[p] = {"text", "time", "tracked"} /\ files[p].tracked \in BOOLEAN
               /\ files[p].time = IF files[p].text = None THEN 0 ELSE 1
    BY <1>1, HookAssumption
  <2>2. \A p \in DOMAIN files : files[p].text \in TextsAt(setting, p)
    BY <1>1 DEF TextsAt
  <2> QED BY <1>1, <2>1, <2>2 DEF FilesInv
<1>3. AllowInv
  <2>1. ASSUME NEW d \in Projects, allow[d] # None PROVE GoodNow(d, allow[d])
    <3>1. /\ ~NoList(setting.projects[d], files) /\ allow[d] = NewAllow(setting.projects[d], files)
          /\ agreed[d] = TextsOf(d, files) \cup OwnTexts(files)
      BY <2>1 DEF HookInit
    <3>2. clock \in Nat /\ clock >= clock
      BY <1>1
    <3> QED BY <1>2, <3>1, <3>2, NewIsGood DEF GoodNow
  <2>2. DOMAIN allow = Projects /\ DOMAIN agreed = Projects
    BY DEF HookInit
  <2> QED BY <2>1, <2>2 DEF AllowInv
<1>4. ShellsInv
  <2>1. DOMAIN setting.shell = ShellFields /\ setting.shell.step = "read"
    BY <1>1, HookAssumption
  <2>2. ShellFits(setting.shell)
    BY <2>1 DEF ShellFits
  <2> DEFINE sh == setting.shell
  <2>3. shells \in Seq({sh}) /\ DOMAIN shells = {1} /\ shells[1] = sh
    <3> HIDE DEF sh
    <3> QED BY <1>1 DEF sh
  <2> QED BY <2>2, <2>3 DEF ShellsInv
<1> QED BY <1>2, <1>3, <1>4 DEF HookInv

LEMMA HookKeeps == HookInv /\ [HookNext]_hookVars => HookInv'
<1> SUFFICES ASSUME HookInv, [HookNext]_hookVars PROVE HookInv'
  OBVIOUS
<1>1. CASE UNCHANGED hookVars
  <2>1. UNCHANGED <<setting, files, allow, agreed, crossed, clock, shells>>
    BY <1>1 DEF hookVars
  <2>2. ShellsInv'
    <3>1. ASSUME NEW s \in DOMAIN shells PROVE ShellFits(shells[s])'
      <4> DEFINE old == shells[s]
      <4>1. ShellFits(old)
        BY DEF HookInv, ShellsInv
      <4>2. ShellFits(old)'
        BY <2>1, <4>1, FitsStays
      <4> QED BY <2>1, <4>2 DEF ShellFits, GoodNow, Good, Known, Applies
    <3>2. \E S : shells' \in Seq(S)
      BY <2>1 DEF HookInv, ShellsInv
    <3> QED BY <2>1, <3>1, <3>2 DEF ShellsInv
  <2> QED BY <2>1, <2>2, UnchangedKeeps DEF HookInv
<1>2. CASE Other
  <2>1. ASSUME NEW d \in setting.changing, Allow(d) \/ Deny(d) \/ Resync(d) PROVE HookInv'
    <3>1. d \in Projects
      BY HookAssumption DEF HookInv, FilesInv, Projects
    <3> QED BY <2>1, <3>1, AllowKeeps, DenyKeeps, ResyncKeeps
  <2>2. ASSUME NEW w, UserWrites(w[1], w[2]) PROVE HookInv'
    BY <2>2, UserWritesKeeps
  <2>3. ASSUME NEW w, Pull(w[1], w[2]) PROVE HookInv'
    BY <2>3, PullKeeps
  <2>4. ASSUME NEW path \in setting.added, GitAdd(path) PROVE HookInv'
    BY <2>4, GitAddKeeps
  <2> QED BY <1>2, <2>1, <2>2, <2>3, <2>4 DEF Other
<1>3. ASSUME NEW s \in DOMAIN shells, Prompt(s) PROVE HookInv'
  BY <1>3, PromptReadKeeps, PromptCheckKeeps, PromptSaveKeeps, PromptApplyKeeps DEF Prompt
<1>4. ASSUME NEW s \in DOMAIN shells, Typed(s) PROVE HookInv'
  BY <1>4, ShellTypedKeeps
<1> QED BY <1>1, <1>2, <1>3, <1>4 DEF HookNext

(* A prompt applies nothing that the user did not agree to (allowHolds,    *)
(* envtrust.go): for any projects, files and shells, a settled prompt that *)
(* applies a project has only texts in its lists and files that its allow  *)
(* saw, or that the user wrote since where git does not look.              *)
THEOREM AppliedAreAllowed == HookSpec => []AppliedIsAllowed
<1>1. HookInit => HookInv
  BY HookBegins
<1>2. HookInv /\ [HookNext]_hookVars => HookInv'
  BY HookKeeps
<1>3. HookInv => AppliedIsAllowed
  <2> SUFFICES ASSUME HookInv, NEW s \in DOMAIN shells, Settled(s), shells[s].active # None,
                      shells[s].active \notin crossed
               PROVE  TextsOf(shells[s].active, files) \subseteq agreed[shells[s].active]
    BY DEF AppliedIsAllowed
  <2> QED BY DEF HookInv, ShellsInv, ShellFits, Settled, Idle, Applies
<1> QED BY <1>1, <1>2, <1>3, PTL DEF HookSpec

=============================================================================
