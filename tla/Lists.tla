------------------------------- MODULE Lists -------------------------------
(***************************************************************************)
(* oku.toml with the lists it includes: internal/cli/lists.go.  A list is  *)
(* a file of the user, a file of a repo or a file at a URL, and a remote   *)
(* one changes over time.  A sync reads an included list as oku.lock pins  *)
(* it, an update reads the newest and has what changed reviewed, and both  *)
(* merge the includes under the list that names them.                      *)
(*                                                                         *)
(* What a list holds is a record: include is a sequence of records with    *)
(* list, when, beside (a path relative to the list) and bad (a version, or *)
(* a local path in a remote list); pkg is the entry of the one package     *)
(* name that the properties follow, file the entry of one target of        *)
(* [files], and tables the tables without a when that it has.              *)
(***************************************************************************)
EXTENDS Platforms, TLC

CONSTANTS Own,      \* the user's own list
          Absent,   \* no entry, no pin
          Machines, \* records with platform and name
          Worlds    \* records: lists (each a record with kind and at: what it holds at each commit),
                    \* last (the last commit of the repo), project, lockPlatforms and the machines that load it

VARIABLES world, now, lock, out, taken
listVars == <<world, now, lock, out, taken>>

\* A package of the merged list, and a merger.
NoMerge == [packages |-> {}, files |-> {}, tables |-> <<>>, includes |-> <<>>, seen |-> {}, lists |-> 0, failed |-> FALSE]
Failed(m) == [m EXCEPT !.failed = TRUE]

maxIncludeDepth == 8

\* What the list l is when a repo is at the commit c.  Only a repo keeps its commits.
Fetched(l, c) == world.lists[l].at[IF world.lists[l].kind = "repo" /\ c # 0 THEN c ELSE now]
Commit(l, c) == IF world.lists[l].kind # "repo" THEN 0 ELSE IF c # 0 THEN c ELSE now

\* Overrides regardless of the whens that lead to the lists.
AddPackageLater(m, pkg) == [m EXCEPT !.packages = {pkg}]

\* addPackage: pkg overrides the one from a list that its list includes, or that has the same scope.
\* Otherwise the two must agree, and the package applies where either does.
AddPackage(m, pkg) ==
    IF m.packages = {} THEN [m EXCEPT !.packages = {pkg}]
    ELSE LET before == CHOOSE b \in m.packages : TRUE IN
         CASE before.list > pkg.list \/ before.scope = pkg.scope -> [m EXCEPT !.packages = {pkg}]
           [] before.entry # pkg.entry \/ before.commit # pkg.commit -> Failed(m)
           [] OTHER -> [m EXCEPT !.packages = {[pkg EXCEPT !.when = Either(before.when, pkg.when),
                                                           !.scope = Either(before.scope, pkg.scope)]}]

\* merge's loop over the packages.  A package whose when no machine can match is left out.  commit is
\* where a manifest named by a relative path is read, and its ref then names the list's repo.
Packages(m, l, remote, scope, id) ==
    IF l.pkg = Absent \/ m.failed \/ ~Applies(scope, l.pkg.when) THEN m
    ELSE LET beside == l.pkg.beside /\ remote.kind # "file"
         IN AddPackage(m, [entry |-> IF beside THEN <<remote.list, l.pkg.set>> ELSE l.pkg.set, list |-> id, scope |-> scope,
                           when |-> And(scope, l.pkg.when), commit |-> IF beside THEN remote.commit ELSE 0])

\* What a list may not hold where it is: [files] or [secrets] at a URL, a path outside its repo, [env]
\* in an included list, what changes the machine in a project, [runtimes] under a when.
Refused(l, remote, scope, depth) ==
    \/ remote.kind = "http" /\ (l.file # Absent \/ "secrets" \in l.tables)
    \/ remote.kind = "repo" /\ l.file # Absent /\ l.file.outside
    \/ depth > 0 /\ "env" \in l.tables
    \/ world.project /\ (l.file # Absent \/ l.tables \cap {"vars", "secrets", "settings"} # {})
    \/ scope # <<>> /\ "runtimes" \in l.tables

\* merge's loop over [files]: a later list overrides an entry with the same target and when.
Files(m, l, name, scope) ==
    IF l.file = Absent \/ ~Applies(scope, l.file.when) THEN m
    ELSE LET when == And(scope, l.file.when)
         IN [m EXCEPT !.files = {f \in @ : f.when # when} \cup {[when |-> when, list |-> name]}]

\* The tables without a when apply where the includes that lead to the list do, over those of earlier lists.
Tables(m, l, name, scope, machine) ==
    IF Here(scope, machine) THEN [m EXCEPT !.tables = [t \in l.tables |-> name] @@ @] ELSE m

\* A load by oku: pins from oku.lock, or with refresh the newest lists, which review accepts or refuses
\* when they changed.  down are the lists it cannot read.
Load(machine, refresh, review, down) == [machine |-> machine, refresh |-> refresh, review |-> review, down |-> down]

\* A remote list that is not what oku.lock pins stops a sync, and an update unless its review accepts it.
ChangedAt(load, pinned, data) == pinned # Absent /\ pinned.commit # 0 /\ pinned.data # data /\ (load.refresh => load.review = "refuse")
Changed(load, pinned, data) == pinned # Absent /\ pinned.data # data /\ (load.refresh => load.review = "refuse")

RECURSIVE Merge(_, _, _, _, _, _, _)

\* One round of merge's loop over the includes of the list at remote.
Include(load, m, inc, remote, when, depth) ==
    LET scope == And(when, inc.when)
        local == world.lists[inc.list].kind = "file"
        pinned == lock[inc.list]
        pin == IF load.refresh \/ pinned = Absent THEN [commit |-> 0, data |-> Absent] ELSE pinned
        commit == IF inc.beside /\ remote.kind # "file" THEN remote.commit ELSE pin.commit
        data == Fetched(inc.list, commit)
        at == [list |-> inc.list, kind |-> world.lists[inc.list].kind, commit |-> Commit(inc.list, commit)]
        got == [m EXCEPT !.seen = @ \cup {inc.list},
                         !.includes = @ @@ (inc.list :> [commit |-> at.commit, data |-> IF local THEN Absent ELSE data])]
    IN CASE m.failed -> m
         [] inc.bad -> Failed(m)
         [] ~Applies(when, inc.when) -> m
         [] inc.list \in m.seen \cup load.down \/ (~local /\ Changed(load, pinned, data)) -> Failed(m)
         [] OTHER -> Merge(load, got, data, inc.list, at, scope, depth + 1)

\* merge: the includes of l, then what l holds itself.
Merge(load, m, l, name, remote, when, depth) ==
    IF depth > maxIncludeDepth THEN Failed(m)
    ELSE LET included == FoldLeft(LAMBDA acc, inc : Include(load, acc, inc, remote, when, depth),
                                  [m EXCEPT !.lists = @ + 1], l.include)
             named == Packages(included, l, remote, when, m.lists)
         IN IF named.failed THEN named
            ELSE IF Refused(l, remote, when, depth) THEN Failed(named)
            ELSE Tables(Files(named, l, name, when), l, name, when, load.machine)

\* loadList.
LoadList(load) == Merge(load, NoMerge, Fetched(Own, 0), Own, [list |-> Own, kind |-> "file", commit |-> 0], <<>>, 0)

\* lockPlatforms: the platforms besides the host that oku.lock pins a package with this when for.
LockPlatforms(machine, when) ==
    {p \in world.lockPlatforms : (p # machine.platform \/ ~Here(when, machine)) /\ WhenMatches(when, p)}

-----------------------------------------------------------------------------
NotRead == [merged |-> NoMerge, load |-> Absent]

\* taken are the contents of remote lists that a first use or a review accepted.
ListsInit ==
    /\ world \in Worlds
    /\ now = 1
    /\ lock = [l \in DOMAIN world.lists |-> Absent]
    /\ out = NotRead
    /\ taken = {}

\* A command loads the list and, when its sync succeeds, oku.lock pins the includes it read.
Loads(load) ==
    LET merged == LoadList(load) IN
    /\ out' = [merged |-> merged, load |-> load]
    /\ lock' = IF merged.failed THEN lock
               ELSE [l \in DOMAIN lock |-> IF l \in DOMAIN merged.includes THEN merged.includes[l] ELSE Absent]
    /\ UNCHANGED <<world, now>>

\* oku sync.  A list without a pin is taken as it is.
Sync ==
    \E machine \in world.machines, down \in {{}} \cup {{l} : l \in DOMAIN world.lists \ {Own}} :
        /\ down # {} => world.last > 1
        /\ Loads(Load(machine, FALSE, "refuse", down))
        /\ taken' = taken \cup {<<l, lock'[l].data>> : l \in {k \in DOMAIN lock : lock[k] = Absent /\ lock'[k] # Absent}}

\* oku update.  A review accepts every list that changed, or the update stops.
Update ==
    \E machine \in world.machines, review \in {"accept", "refuse"} :
        /\ Loads(Load(machine, TRUE, review, {}))
        /\ taken' = taken \cup {<<l, lock'[l].data>> : l \in {k \in DOMAIN lock :
                         lock'[k] # Absent /\ (lock[k] = Absent \/ review = "accept")}}

\* The repo gets a commit, and what is at a URL changes.
Push == now < world.last /\ now' = now + 1 /\ UNCHANGED <<world, lock, out, taken>>

ListsNext == Sync \/ Update \/ Push
ListsSpec == ListsInit /\ [][ListsNext]_listVars

-----------------------------------------------------------------------------
Remote(l) == world.lists[l].kind # "file"

\* What the lock pins of a remote list is what a first use or a review accepted (lists.go, "The pin
\* protects against a list that changes somewhere else"): no order of pushes, syncs and refused
\* updates brings in another content.
IncludesTaken == \A l \in DOMAIN lock : lock[l] # Absent /\ Remote(l) => <<l, lock[l].data>> \in taken

\* The same files give the same lock on every machine: the lists that are pinned, the packages with their
\* when, and the files do not depend on the machine that reads them, nor does whether they can be read.
\* Nor do the platforms a package is pinned for, on any machine whose platform [lock] names.
SameEverywhere ==
    out.load # Absent =>
        \A machine \in Machines :
            LET there == LoadList([out.load EXCEPT !.machine = machine])
                here == LoadList(out.load)
            IN /\ there.failed = here.failed
               /\ ~here.failed => /\ there.packages = here.packages /\ there.includes = here.includes
                                  /\ there.files = here.files
               /\ machine.platform \in world.lockPlatforms =>
                     \A pkg \in here.packages :
                         {p \in {machine.platform} : Here(pkg.when, machine)} \cup LockPlatforms(machine, pkg.when)
                           = {p \in world.lockPlatforms : WhenMatches(pkg.when, p)}

\* The lists that name the package, with the order in which merge reads them: the number of a list, the
\* lists that lead to it, and their whens.
RECURSIVE Reads(_, _, _, _)
Reads(l, path, scope, at) ==
    <<[list |-> l, path |-> path, scope |-> scope, at |-> at]>>
      \o FoldLeft(LAMBDA acc, i : acc \o
                    IF ~Applies(scope, Fetched(l, at).include[i].when) THEN <<>>
                    ELSE Reads(Fetched(l, at).include[i].list, path \cup {l}, And(scope, Fetched(l, at).include[i].when), at),
                  <<>>, [i \in 1..Len(Fetched(l, at).include) |-> i])

\* The entries that no list above theirs overrides, and no later one under the same when.
Names(reads, i) == LET p == Fetched(reads[i].list, reads[i].at).pkg IN p # Absent /\ Applies(reads[i].scope, p.when)
Standing(reads) ==
    LET top == {i \in DOMAIN reads : Names(reads, i) /\ \A j \in DOMAIN reads : Names(reads, j) => reads[j].list \notin reads[i].path}
    IN {i \in top : ~\E j \in top : j > i /\ reads[j].scope = reads[i].scope}
Applied(reads, machine) ==
    \E i \in Standing(reads) : Here(And(reads[i].scope, Fetched(reads[i].list, reads[i].at).pkg.when), machine)

\* A list names the package and so does one it includes, while an earlier list names it under another when.
Shadows(reads) ==
    \E i, j, k \in DOMAIN reads :
        /\ Names(reads, i) /\ Names(reads, j) /\ Names(reads, k) /\ i < j /\ j < k
        /\ reads[j].list \in reads[k].path /\ reads[i].list \notin reads[j].path \cup reads[k].path

\* A package is on a machine where a list that names it applies (addPackage): a list overrides what it includes and
\* a later list under the same when overrides an earlier one, and the entries left must agree.
Resolved(reads, merged) ==
    ~merged.failed =>
        /\ \A machine \in Machines : (\E p \in merged.packages : Here(p.when, machine)) <=> Applied(reads, machine)
        /\ Cardinality({Fetched(reads[i].list, reads[i].at).pkg.set : i \in Standing(reads)}) <= 1

\* The merge of lists that do not shadow is the one that their order defines.  (With shadowing it is not: Overrides.)
PackagesResolved ==
    out.load # Absent /\ world.last = 1 =>
        LET reads == Reads(Own, {}, <<>>, 0) IN Shadows(reads) \/ Resolved(reads, out.merged)

\* What the lists become: one set of packages whatever machine reads them, and the one their order defines.
ListsMerged == SameEverywhere /\ PackagesResolved

\* The same with shadowing, which the comment of addPackage promises too.
Overrides ==
    out.load # Absent /\ world.last = 1 => Resolved(Reads(Own, {}, <<>>, 0), out.merged)

=============================================================================
