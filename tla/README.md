# oku in TLA+

oku is a package manager: a list (`oku.toml`) says what a machine has, a lock (`oku.lock`) pins
it, `oku sync` brings the machine to it. This directory models the parts of oku that change
state, checks them with TLC on small instances, and proves some of the results with TLAPS for
instances of any size. Paths below are those of the repository, `internal/cli/change.go` for
`src/internal/cli/change.go`; `PROJECT.json` maps every definition to the lines it models.

Contents: [the system](#the-system), [the modules](#the-modules-and-the-code),
[the runs](#the-runs), [fairness](#fairness), [the proofs](#the-proofs),
[findings and what was seen](#findings), [what is abstracted](#what-is-abstracted),
[what is not modelled](#what-is-not-modelled), [the plan](#the-plan).

## The system

One oku process runs one command. Nothing is resident: state is on disk, several processes may
run at once, and any of them may be killed at any step. Inside a command that installs, one
goroutine per package works in parallel.

| Part | State it keeps | Operations | Talks to |
|---|---|---|---|
| change transaction (`cli/change.go`, `add`, `remove`, `sync`, `reconcile`, `adopt`, `generations`) | `pending.toml`: generation before, generation staged, bytes of the list and the lock before and after, `Committing` | plan, apply, revert, recovery by the next command | profile, ledger, list, lock |
| profile (`profile/profile.go`) | generations 1..n (a directory, a snapshot of the lock), link `current` | Stage, Activate, Discard, Prune, rollback | change, gc |
| exposed items (`expose/expose.go`, `cli/expose.go`, `cli/settings.go`) | the ledger: each target with its kind, source and prior value; the targets themselves (links, copies, apps, fonts, settings) | Check, Edited, Sync | change |
| lock between processes (`busy`, `cli/busy.go`) | one OS file lock | take, release at exit or kill | every command that writes |
| store (`store/`) | a directory per package with a meta file, `<path>.old`, temporary directories, `.links`, records of what is running | Realize, Tree, Build, Substitute, Share, Remove, verify --repair | installs, gc |
| garbage collection (`cli/gc.go`, `gc_projects.go`, `roots.go`) | roots, sessions, registered projects | prune, mark, sweep, share | profile, store, ledger |
| installs of a sync (`cli/install.go`, `reconcile.go`, `limit/`) | depCache with its entries and waiters, the build mutex, slots, the context | one goroutine per package, a shared dep installed once, cancellation | store, lock |
| pins and their checks (`cli/install.go`, `cli/verified.go`, `store/store.go`, `store/vendor.go`) | the lock: version, digest per platform, how the digest was checked, key | sync, sync --locked, update with its options | upstream, store |
| lock file and its merge (`lock/`, `cli/lockconflict.go`) | `oku.lock` | read, write, three-way merge | change |
| lists, includes, platforms (`list/`, `cli/lists.go`, `platform/`) | `oku.toml`, the lists it includes with their pins | load and merge, review, edit by `add` and `remove` | change, installs |
| files and secrets (`cli/files.go`, `cli/secrets.go`, `secret/`) | placed files with the hash of what they hold | resolve, decrypt, write, restrict | change |
| resolution (`resolve/`, `npm/`, `pypi/`, `crates/`, `goproxy/`, `osv/`) | none | list, compare, filter, pick a release | forges |
| forge clients (`forge/`) | answers of a command, answers on disk with ETags, the wait of a rate limit | get, revalidate, page through, follow redirects | network |
| network policy (`netpolicy/`) | none | allow or refuse a host and an address | all requests |
| download cache (`store/download.go`) | files by digest, an index by URL, partial downloads | fetch, share, `gc --cache` | installs |
| trust and approvals (`trust/`, `cli/approve.go`, `sourcetrust.go`, `envtrust.go`, `sigstore/`) | approved manifests, sources and environments | ask, record, look up | installs, hook |
| shell hook and environments (`shellhook/`, `cli/hook.go`, `shell.go`, `envset.go`) | variables of the shell, saved values, allowed projects | enter, leave, reload, exec | profile, trust |
| manifests (`manifest/`, `infer/`, `shape/`) | none | validate, lint, select; infer from a release; translate from other package managers | resolution, store |
| self update and setup (`cli/selfupdate.go`, `self*.go`, `setup.go`) | the oku binary, its man pages and directories | replace, uninstall | file system |
| services (`service/`, `cli/service.go`) | unit files and running processes | start, stop, replace | ledger |
| the rest: reports, terminal output, archives, sandbox, file primitives | none, or one system call | | |

### What is hard

* **Crashes.** A change touches the generation link, the list, the lock, the ledger and the
  machine itself, one write at a time. A kill between any two leaves a mixture that the next
  command has to undo, and it may be killed in the recovery as well.
* **The user.** oku does not own `oku.toml`, the dotfiles or the settings it writes to. The user
  edits them while a command runs, and between a crash and its recovery.
* **Two processes.** A shell or a program from the store runs without the lock while gc deletes.
* **Goroutines.** Packages that share deps wait for each other; failures cancel the rest.
* **Reuse of names.** Numbers of generations, store paths and `<path>.old` are used again.
* **Upstream.** A file, a digest or a key changes under a locked version, two machines that
  share one lock have each seen something else, and a list of releases grows while it is read page by page.
* **Stale reads.** The hook, the approver, the lookup and the self update each read a file or an
  answer, wait for something else (git, the user, another request), and then act on it.
* **Readers that disagree.** `validate`, `lint`, the resolver, the store and the lock each read the same
  keys of a manifest by their own rules, and inference and translation write manifests for all of them.

### What makes each part correct

* change: the generation, the list and the lock change together or not at all (`ImplementsSwitch`),
  a user's edit is not lost (`EditsSurvive`), a revert always has a generation to go back to
  (`GenerationsKept`), every pending change can come to an end (`ChangesEnd`);
* exposed items: what oku did not place is as the user left it (`OwnKept`, `PriorIsOwn`,
  `UserFileStays`), what the active generation exposes is on the machine (`StateMatches`),
  system scope changes only with the user's agreement (`SystemScopeKept`);
* store and gc: what a generation or a running program uses is whole and sharing gives no package
  another one's edits (`StoreHolds`), everything else goes (`GcCollects`), no command gets stuck
  (`CommandsGoOn`);
* installs: nobody waits forever (`WaitsEnd`, `RunEnds`), a package's closure holds every dep
  whoever installed it (`ClosuresWhole`), the error reported is the cause (`ReportTrue`);
* pins: a sync installs what is pinned and does not change it (`SyncHolds`, `LockedSyncWorks`), nothing
  is trusted that must not be (`GuardsHold`), an update is the same on every machine (`UpdateHolds`);
* hook: after a prompt every variable is what the lists say over the user's own values
  (`PromptHolds`, `ExecTrue`), and only what the user agreed to is applied (`AppliedIsAllowed`);
* approvals: nothing runs or is installed without the answer it needs (`ApprovalsHold`);
* lookups, requests, downloads: no answer is stale and no release is missed (`AnswersHold`,
  `LookupTrue`), a login stays with its host and a request inside the policy (`RequestsKept`), a
  shared download is what was asked for (`GivenHolds`);
* lists: no content is pinned that nobody reviewed (`IncludesTaken`), all machines merge alike
  (`ListsMerged`), an edit changes its own entry only (`EntriesKept`), placed files are those of the list
  (`FilesHold`);
* manifests and versions: what is accepted, inferred or translated can be installed
  (`ManifestsInstall`, `InferredServes`, `TranslatedServes`), and the release taken is the right one (`PicksHold`);
* oku itself: an update or uninstall that stops anywhere can be run again (`SelfHolds`).

## The modules and the code

```
Switch  <-- refined by -- Change -- extends --> Expose
                            |                      |
                        ChangeProofs          ExposeProofs
Store   <-- extended by -- Collect -- CollectProofs         MCCollect
Install -- InstallProofs                                    MCInstall
Pins    -- PinsProofs                                       MCPins
Environ <-- extended by -- Hook         Approvals           MCHook (both)
                           HookProofs   ApprovalsProofs
Lookup    Requests    Downloads    Self -- NetworkProofs    MCNetwork (all four)
Platforms <-- extended by -- Lists, ListFile, Files         MCLists (all three)
Platforms <-- Manifests <-- Infer <-- Recipes    Versions   MCPackages, from MCAuthored, MCReleased, MCTranslated
```

A module that composes parts without shared state (`MCNetwork`, `MCLists`, `MCPackages`) explores each part on
its own: `part`, chosen in the first state, says which one moves, so the run checks the union of their
behaviours and not their product. `MCHook` does the same with the shells and the approvals.

**Expose** is `expose.Sync` and the handlers of its kinds. `machine` is what is at each target,
`own` what the user last put there, `ledger` the file of recorded items, `items` the ledger a
running Sync has in memory, `goal` what it is to reach. A Sync is `Begin`, then per target
`RemoveItem` (take it off the machine) and `DropItem` (write the ledger without it), or `RecordItem` (write
the ledger with it) and `PlaceItem` (write the machine), and `End`; `Refused` and `Blocked` are its
error returns, `Abort` a crash or a failed write, and
`Touch` the user who edits, replaces or deletes a target. The four kinds differ in the code and
in the model: a link is replaced only where the ledger knows it, a copy only where the user did
not edit it, an app or font is a whole directory that can be half there, a setting has a prior
value that it goes back to.

**Change** is `apply`, `revert` and `recover` of `cli/change.go` with the commands that call them.
`gens`, `current`, `list` and `lock` are on disk, `pend` is `pending.toml`, `step` and `chg` are the
running process, `p` the part of its plan that the later steps read. Every write is a step of its
own, in the order of the code, and every step may fail or be the last before a crash. `faults`
and `edits` count what has gone wrong and what the user did, against `MaxFaults` and `MaxEdits`.

**Switch** is what a change promises: one step that switches content, list and lock together, a
user who edits, and nothing in between. `Change!ImplementsSwitch` is its specification with the
mapping of the detailed state; while a change is pending the mapping shows the state that the
change or its revert will end in.

**Store** is a machine's store: `disk`, `old` and `temps` say how much of a package is at `<path>`, at
`<path>.old` and in temporary directories, `frozen` and `touched` what of it is in use or edited, `entry`
and `linked` the shared files, `records` what runs, `job` the steps of one command.
**Collect** composes it with the lock between processes (`holder`, `cmd`), the generations of
profiles and projects, sessions, exposed items and gc. A deletion is several steps and a kill may
come between any two.

**Install** is the run of `reconcile`'s goroutines: `stack` is the call stack of `ensureDep` for
each root, `entries` and `waiting` are the fields of depCache, `builder` is buildMu, `list`
chooses the packages, their deps and the slots.

**Pins** is one package in one list and one lock on two machines, with an upstream that releases
versions, uploads a file again, changes its manifest, its checksum file or its key. One action per
command (`sync`, `sync --locked`, `update` with its flags), each with everything that picks,
checks and writes a pin.

**Environ** is what a directory's lists make of the variables: `wantedEnv`, `.env` files and overlays, `${NAME}`,
prepending, and `hookChange`, which from the shell's variables and the saved ones computes what to set, unset and
save. A value is the sequence of its entries, so that `PATH` and a list variable can be taken apart.
**Hook** is a user with several terminals over it. `shells` has each shell's variables and the step its prompt is at:
it reads `allow.toml`, asks git about each file, saves a modification time, and applies. Between any two, `oku allow`,
`oku deny`, a pull, an edit, `git add` or a prompt of another shell may come. A shell may move, set variables, load
the hook again, start a shell inside itself or run `oku exec`.

**Approvals** is one command that installs several packages at once: each may ask about a version's age, about a
download without a check, about the manifest's commands, and the command asks about the project's sources first.
Questions come one at a time; `approvals.toml` and `oku.toml` may change between a read and a write.

**Lookup** is the path from a package to the list of a repo's releases: the answers a command shares, the answers
kept on disk with their ETag, 304, the rate limit's wait, pages read one after another or at once, drafts, retries of attestations.
Two commands, gc and a host that publishes run at once. **Requests** is one request with its redirects:
which token each host gets, which headers survive a redirect, and what `[network]` allows, by name and by the
address it resolves to at that moment. **Downloads** is `fetch`: files by digest, the index by URL, the download
that two packages share, partial files, damage, days that pass, gc. **Self** is `oku self update` step by step against a
nightly whose files are replaced one by one, and `oku self uninstall` with a kill between any two deletions.

**Platforms** has `when` and its algebra (`And`, `either`, `Cover`). **Lists** loads and merges: a list includes others,
each a file, a file of a repo or a URL, pinned by content, and an update has changes reviewed. **ListFile** is the
line editor behind `add` and `remove`, with the parser that reads the result, and `ParseAge` with its overflow.
**Files** is `[files]` and `[secrets]`: from entries to paths, contents and modes, and the steps of `writeSecret`.

**Manifests** gives a manifest the keys that the checks tell apart and states `Validate`, `Lint`, `Select` and what an
install then needs of them; an author edits one key after another. **Infer** picks assets by the words of their
names, opens them, finds programs, checksum files and signatures, and writes a manifest. **Recipes** does the same from
aqua, casks, taps, Scoop, winget, npm, crates, Go, PyPI and a plain URL; both write values of **Manifests**, so the
same definitions judge them. **Versions** is the order of versions, ranges, and what each source lists and picks.

## The runs

Each passing run asks one question of one part of the system; each violation run shows one
sentence of the repository's own docs or comments to be false of the code (see
[Findings](#findings)). Bounds are the constants of the `.cfg` and the settings of the `MC` module.

| Run | Question | Bounds, and why they are enough |
|---|---|---|
| `change_atomic` | Do generation, list and lock change together, whatever stops the change? Is an edit ever lost? | Three generations, so that a number is reused while two others are active and staged; two texts; two faults, so that the recovery itself crashes or fails; one edit at any point. One target, since the ledger plays no part. |
| `change_exposed` | After a change, a revert or a recovery: are lock, ledger and links those of the active generation, and is what is the user's kept? | A link with two sources (replacing differs from placing), a copy and a setting; a file of the user; one fault, one edit. The order in which Sync takes its targets is open, so three targets give every position of a fault before, within and after an item. |
| `change_system` | Does system scope change only with the user's agreement, is an adoption undone, does every change end? | A font in system scope beside a setting; two faults, none of them fair. |
| `store` | Is what a generation or a program uses whole, does gc delete the rest, is sharing safe, does a command get stuck? | Eight machines, each with the packages and commands that bear on one mechanism (build and rebuild; a build with deps that are built; hard links; clones; deletion in place on Windows; running programs; a project that goes; a cache); a kill at any step and any number of times. |
| `install` | Does every run end, with whole closures and the true cause? | Seven shapes of up to three packages and three deps: shared deps in both orders, a listed package as a dep, a ring of three, two cycles. Each with five patterns of failure and drift, one slot with builds, and an interrupt. Three is the smallest ring whose wait is not between two roots. |
| `pins` | Does a sync keep and install what is pinned? May an update weaken a check or trust what it must not? Does the result depend on the machine? | Two machines, fifteen settings; two versions, two uploads, two keys; one or two upstream changes each. Two changes are what it takes for the lock, a store and upstream to hold three different files. |

| `hook` | Are the variables right after every prompt, and is only applied what the user agreed to? Does a question of one package harm another? | Six settings, each with the lists that bear on one mechanism: two projects that set, unset, prepend and read each other's variables; one project with `.env` files of the user and of the repo; shells set up by an older oku; `exec` with its own files. Two shells, one started from the other, is what it takes for a value to be saved in one and restored in the other. Four changes of files or allows: allow, pull, prompt, deny. Approvals: two packages (one built, one downloaded) in fourteen commands, two commands in a row. |
| `network` | Is an answer ever stale, a release missed, a login sent elsewhere, a download another one's, the binary torn? | Two commands with two packages each, three releases, pages of one release so that a release published meanwhile moves others to the next page; one failed request. Chains of up to three redirects over seven hosts of every kind. Two URLs and two contents over three half days, with a damaged file and a kill. Two nightlies and three releases, one of them misplaced in time. |
| `lists` | Is unreviewed content ever pinned, do machines merge alike, does an edit touch anything else, are placed files those of the list? | Four lists, nested two deep, a package in any of them in four forms, four `when`s that overlap in part; a repo with two lists and a URL that change twice. Texts of up to ten lines with every kind of line before, in and after `[packages]`, two edits. Ages around the largest duration, scaled to 2047. Two entries of `[files]` that may collide through a variable, two encryptions of a secret. |
| `packages` | Can what oku accepts, infers or translates be installed, everywhere and for the next version, and is the release it takes the right one? | Six manifests, each edited in two keys, since most rules of `validate` and `lint` relate two; releases of up to three out of seventeen assets that differ in OS, arch, libc, form and contents, and one with every mix of checksum files and signatures; entries of each package manager in the mixes that its reader tells apart; lists of three versions, twelve forms of version, four settings of age. |

Deadlock is checked in `change_*`, `pins` and `hook`. The others switch it off: an install ends,
and a machine where every root failed with no process left to start has nothing to do; a lookup, a
merge, a translation or a pick ends with its answer. `CommandsGoOn`, `RunEnds` and `NobodyStuck` (a part of
`ApprovalsHold`) say what must not stop.

The change runs bound faults and edits by `MaxFaults` and `MaxEdits`; the proofs do not.

### The properties

*change_atomic*: `ImplementsSwitch` (refinement of `Switch`), `EditsSurvive` (an `oku.toml` or
`oku.lock` that the user edited during a change or before its recovery is not overwritten by the
revert, B527), `GenerationsKept` (the active generation, and the one a revert goes back to,
exist).
*change_exposed*: `StateMatches` (once nothing is pending, the lock, the
ledger and each link are those of the active generation unless the user changed them: `LockMatches`, for commands other than those
that write the lock without a new generation (a pin, an adoption), `LedgerMatches`,
`LinksMatch`), `OwnKept` (what the ledger does not hold is as the user left it), `PriorIsOwn` (the prior value a
setting goes back to is the user's, not one oku wrote), `UserFileStays` (no step overwrites or
deletes a file that the user put where a link was).
*change_system*: `SystemScopeKept`, `AdoptionUndone` (the lists that `sync <list-ref>` wrote go away
with a command that did not commit), `ChangesEnd`.
*store*: `StoreHolds` (`UsedIsWhole`, `SessionsHeld`, `FreshIsTrue`), `GcCollects`, `CommandsGoOn`.
*install*: `WaitsEnd`, `ClosuresWhole`, `ReportTrue` (`CauseNamed`, `DriftNamed`), `RunEnds`.
*pins*: `SyncHolds` (`LockedDownloads`, and `SyncKeepsLock`, stated for downloads), `LockedSyncWorks`, `GuardsHold`
(`ChecksHold`, `FirstUseRefused`, `KeyGuards`), `UpdateHolds` (`UpdateRepeats`, `UpdateAgrees`).
*hook*: `PromptHolds` (`PromptTrue`: however the user moved, edited and nested shells, a variable that no list names has
the user's own value back; `SecondQuiet`: a second prompt changes nothing), `ExecTrue`, `AppliedIsAllowed` (what a pull
brought waits for an allow, unless a prompt put an older allow back over it, `crossed`), `ApprovalsHold` (`RanApproved`, `TakenAgreed`, `NobodyStuck`, `SourcesTrusted`).
*network*: `AnswersHold` (`NeverStale`: what a command is told at a URL was served there during that command;
`AttestedVerifies`: a download attested before the command verifies, whatever attestations are kept), `LookupTrue`
(`PicksTrue`, `PinnedFound`: no page is left out or taken from another time), `RequestsKept`
(`TokenKept`, `PolicyKept`), `GivenHolds` (`GivenTrue`, `GivenRecent`), `SelfHolds` (`ReplacedIsFound`, `NeverBack`,
`RunsAgain`, `NothingLost`).
*lists*: `IncludesTaken`, `ListsMerged` (`SameEverywhere`, and `PackagesResolved` against a reference definition of who
overrides whom), `EntriesKept` (parse after edit equals the entries asked for), `FilesHold` (`FilesResolved`, `SecretsCurrent`).
*packages*: `ManifestsInstall` (`AcceptedInstalls`, `LintedInstalls`), `InferredServes` (`InferredFits`: never another
OS, arch or a glibc build on musl; `InferredInstalls`), `TranslatedServes` (`TranslatedInstalls`, `TranslatedHolds`: nothing of
the entry's own version is left in a manifest that follows the vendor), `PicksHold` (`PickIsNewest` against a reference
definition, `RangesTrue`: the order is transitive, `^` and `~` keep the numbers they say).

Every property of a passing run has a mutant in `PROJECT.json`: a small change of a mapped
definition, such as a dropped guard or a swapped order, under which TLC finds it violated.

## Fairness

* `FairChangeSpec` (run `change_system`) assumes weak fairness of `Progress`: the running process
  goes on, and when a change is pending some command runs recovery. The first is the scheduler;
  the second is how `recoverPending` is placed, at the start of every command that changes the
  machine, so `ChangesEnd` reads: a user who runs oku again gets an end. Failures and crashes are
  not fair and are bounded.
* `InstallSpec` (run `install`) assumes weak fairness of each goroutine and of
  the end of the run: the Go scheduler runs every runnable goroutine, and a channel that is
  closed or a mutex that is free lets one waiter go on. Downloads and build steps are assumed to
  return, since contexts and timeouts end them.
* `Collect` and the modules behind `pins`, `hook`, `network`, `lists` and `packages` assume none. `CommandsGoOn` says of each state that the command that holds the lock has
  a step, with ENABLED.

## The proofs

Eight modules hold proofs, each beside the module it is about. They assume the named assumptions of the modules they
extend: kinds and values are told apart (a value that stands for "none" is not one of the others), bounds are naturals,
contents are wanted contents, deps are sequences of packages, a closure holds the closures of its deps, a setting of Hook
names files that it has. TLC evaluates these in every run. Constants are otherwise arbitrary: no proof uses that a set is finite or how many there are.

**ExposeProofs.** For any set of targets, kinds and sources, `ExposeInv` is inductive. It adds to the
types: the ledger on disk and the one in memory are *sound* (`Sound`: a target that is not held is
as the user left it, and the prior value of a held setting is the user's), a link is never half
there (`WholeLinks`), while a Sync runs its memory and the disk agree but for the item at hand
(`Running`), and what is being placed was recorded first (`Recorded`). `OwnKept` alone is not
inductive: a Sync that crashes is judged by the ledger on disk while it worked from the one in
memory. Results: `ExposeInvariant`, `TypeCorrect`, `OwnIsKept`, `PriorIsKept`, `UserFilesStay`.

**ChangeProofs.** For any number of generations, faults and edits, `ChangeInv` is inductive: the types,
`GenerationsKept`, and where each step of a command stands to `pending.toml`: while planning nothing is
pending, while applying the process's copy is the one on disk, a revert that has passed
`undoActivate` is on the generation it came from, a staged generation is not the earlier one, Sync
runs only within the change or its revert. Results: `ChangeInvariant`, `GenerationsAreKept`,
`ChangeTypesCorrect`; `ChangeImplementsExpose`: every behaviour of a change is a behaviour of Expose, so
that the results about the user's files carry over (`ChangeKeepsOwn`); `SystemScopeIsKept` with
the second invariant `SystemIdle`: without agreed rights, a running Sync has nothing to do in system scope.

`StateAgrees` (`StateMatches`) needs two more. `ShownInv`: which generation the machine shows at each step of apply and
revert, that a Sync is given that generation as its goal, and that it ends only when memory, ledger and links agree on it.
`ListsInv`: `pending.toml` has the lists as they were found, and oku writes a list only after it said so there. From both
follows `ChangeImplementsSwitch`: each step maps to one step of Switch or to none. It is proved where no command adopts a
list (`NoAdopt`): an adoption writes the lists before there is a `pending.toml`, and what it promises instead is
`AdoptionIsUndone`. `change_atomic` checks the refinement with the same commands. `EditsAreKept` needs that the write of
`Committing` does not fail (`ChangeEdits.cfg` shows what happens when it does): then the process and `pending.toml` agree on the
change (`Told`). The abstract contents are `Contents` and the empty profile, from which the first change starts.

**InstallProofs.** For any list, any deps (cyclic or not) and any number of slots: `InstallTypes`, from
`TypeInv` (`InstallTypeOK`, and every package below the top of a stack still has the dep above it to
do), and `WaitsNeverCircle`, from `WaitInv`. `WaitsEnd` is stated without recursion: whoever waits is
outside some set of roots that is closed under "waits for" and holds the owner of what it waits for. The step that
matters is the one that starts to wait: the walk of `depCache` has visited a closed set without the
asker, and the other steps only end waits or finish entries.

`ClosuresAreWhole` adds `Told`: in each frame of a stack a dep is left to do or the frame has all it needs, a frame is for the
next dep of the one below it, and an entry that ended without an error has all its dep needs. `ReportIsTrue` adds
`ReportTold`: who cancelled the run, and why a root that ended has no closure.

**CollectProofs.** For any packages, deps, machines, processes and profiles, after any number of kills. `BaseInv` has the
types, what the lock gives (a command past its first step holds it, and the jobs are those of the holder), buildMu, and which
steps fit which package. `GcLeavesNothing` (`GcCollects`) follows from `SweepInv`: all that nothing uses is in gc's list or is
the path that Remove is at. `StoreKeeps` (`StoreHolds`) rests on `FreshInv` for the bytes of shared files and on `StoreInv`:

* a path in use is usable and no job clears it (`HeldInv`);
* what a job made or found is usable, or another job of the command clears it to put it there again (`MadeInv`), so
  all is there when the last job ends and a generation takes it;
* where the old build is at each step of a rebuild (`BuildOK`);
* the record of each running program has its closure (`SessionInv`), gc keeps them (`KeepInv`), so what is in its list is not
  in use (`SpareInv`): a program that starts later needs the lock first.

`UsedIsWhole` alone is not inductive in any of these places. The hypothesis `NothingTorn` leaves out two machines on which a deletion
that stops halfway is taken for whole; the configurations for `TornSettings` and `TreeSettings` below show both. It holds on
every machine of the run `store`. `MetaMeansWhole`: under it a path with its meta file is whole whenever no command runs.

**ApprovalsProofs.** For any commands and packages that ask at once: `ApprovalsAsked` (`ApprovalsHold`). `approvals.toml` is
written from what was read before the question, so neither the file nor what a package read of it may name a manifest without an
answer (`FileAgreed`); `TakenSoFar` says of each step after the question what `TakenAgreed` says of the last, and
`ReadsTrusted` what a command knows of `oku.toml` at each of its reads.

**PinsProofs.** For any machines, platforms, manifests, keys and requests, in any order with what upstream and the list do:
`SyncIsKept` (`SyncHolds`), `GuardsAreKept` (`GuardsHold`), `LockedSyncsWork` (`LockedSyncWorks`) and the types. An action property
compares a command with the lock before it, so what has to be inductive is what one command leaves to the next (`PinsInv`): an entry
fits the manifest that it is locked with (its strategy is one the manifest has there, its file is the stated one), every platform that
a machine covers has an entry, and a build in a store that a digest was stated for was made from that file. Without the last a sync
could take a build of another file and write it over the pin. The rest follows the command inwards: `CommandGives` says what any
command does in terms of lock and store (`Fits`), from what the install on this machine gives (`InstallHereGives`) and the pins of
other platforms (`PinForGives`), and those from the single checks.

**HookProofs.** For any projects, lists, `.env` files and shells: `AppliedAreAllowed` (`AppliedIsAllowed`). `Good` says what an
allow is worth: the texts in its digest and those that git does not track are agreed to, and so is the text of a file with a kept time
as long as the file has that time. A write or pull gives a file a new time, so that git is asked again; hence every allow outlives
every change of files (`GoodStays`), and one that holds covers what the prompt applies (`HoldsIsAgreed`). The property is not
inductive, since an allow is carried through the steps of a prompt: it is `Good` until an allow or a deny comes (the ghost `late`), and
a late prompt that saves what it read puts its project in `crossed`, where nothing is promised until the next allow or deny (B545).

**NetworkProofs.** Four components that share no state.

* Requests: for any hosts, addresses, `[network]` and logins, and redirects of any number, `RequestsKeep` (`RequestsKept`). The
  invariant is `LoginMeant`: the first URL of the request is of a host the login is meant for, and no redirect has left that host, or
  a host below it, or https. (`net/http` compares each redirect with the host of the *first* request.)
* Downloads: for any URLs, contents, calls, commands and half days, `DownloadsGive` (`GivenHolds`), from `ServedNow` (a URL served
  now what it serves), `IndexTrue` (an entry of the index is not younger than what it names), `BodyNow` (what was read was served
  since the command started) and `Placed` (what was renamed to its digest's name is whole and what was asked for).
* Self: for any releases, nightlies and placed items, `SelfKeeps` (`SelfHolds`), from `UpdateChecked` (what the signatures and the
  file beside the binary establish at each step) and `Removed` (what each deletion of an uninstall has left).
* Lookup: for any commands, packages, releases, failures and answers kept by an older oku, `AnswersAreTrue` (`AnswersHold`). What a
  command is told must be something the host served *since it began*, though the bytes may come from a file that is older. `SeenNow`
  has the reason: a command that has begun has seen what the host serves now, so a 304 confirms one of those documents; only a file
  at a full SHA is used without a request, and that one never changes (`KeptTrue`). A refusal of attestations rests on an answer
  of this command's own retry (`VerifyTrue`).

**Only model-checked.** `LookupTrue`, which joins and filters the pages of a list with recursive operators of the library; `UpdateHolds`, which
compares the outcomes of two machines' commands; `PromptHolds` and `ExecTrue`, which compute values entry by entry; and
the modules of `lists` and `packages` (Lists, ListFile, Files, Manifests, Infer, Recipes, Versions), whose properties
compare with a reference definition over data (a merge, a parse, an order, a text): that is induction over data, which is outside
what this proof system does. `ImplementsSwitch` with adoptions, since an adoption writes lists before anything is pending. Liveness
(`ChangesEnd`, `RunEnds`) and ENABLED (`CommandsGoOn`) are outside it too.

## Findings

1. `change_removed` (`internal/expose/expose.go:452`). `remove` takes an item off the machine, then
   writes the ledger. A crash in between leaves the item in the ledger, the recovery finds it
   there and does not place it again: the machine is not put back (B133).
2. `hook_denied` (`internal/cli/envtrust.go:81`). `allowHolds` saves the allow that it read before it asked git.
   An `oku deny` in between is overwritten, and each later prompt applies the project (B545).

### Seen with a configuration of their own

Five configurations beside those of the runs, and four settings of MCCollect, show what the code does in one place; TLC finds the
named property violated in each. A configuration is run by hand (`tlc -config X.cfg M`); for a setting, `Settings` and the
invariants of `Collect.cfg` are replaced by those named.

* `ChangeEdits.cfg` (MCChange, `EditsSurvive`; `internal/cli/change.go:129`). `Committing` is set in memory before
  `pending.toml` is written. When that write fails, the revert takes a user's edit for oku's own (B527).
  `change_atomic` checks the same property with every other step failing, where it holds.
* `TornSettings` (MCCollect, `CompleteIsWhole`; `internal/store/build.go:200`). A rebuild deletes `<path>.old` in
  directory order. Killed there, and followed by a gc that is killed between `<path>` and `<path>.old`, the next build
  takes the rest for a whole package.
* `ServedSettings` (MCCollect, `InstallWorks`; `internal/store/cache.go:145`). A killed build leaves its prefix; once
  a cache has the entry, each install fails at the rename.
* `TreeSettings` (MCCollect, `StoreHolds`; `internal/store/store.go:1128`). `RemoveAside` deletes in place where its rename fails, on
  Windows. A gc killed there leaves a part of a repo's files, and `Tree` uses what is at the path as it is: it has no meta file to
  go by. The attempt to prove `StoreKeeps` for every machine found this one.
* `ServiceSettings` (MCCollect, `ExposedKept`; `internal/cli/roots.go:86`). A service that a declined system change
  left in place loses its deps at the second gc.
* `InstallCycle.cfg` (MCInstall, `CycleIsReal`; `internal/cli/install.go:270`). A root that was woken but has not run yet
  is still in `waiting`: another root's walk can report a cycle that is none.
* `PinsRelabel.cfg` (MCPins, `RelabelKeeps`; `internal/cli/install.go:1550`). `lockOthers` ignores the refusal of `checkVerified`
  for an entry that an update labels again; its comment says "A relabelled entry has the same manifest, version and file, so its new label
  weakens nothing". Take a build source whose digest upstream published with `--min-release-age 0`, then update while the release is
  young: the update falls back to the locked release, which comes without digests, and another platform's `published` becomes
  `first-use` without `--accept-weaker-check`. `ChecksHold` leaves relabelling out.
* `ListsOverrides.cfg` (MCLists, `Overrides`; `internal/cli/lists.go:466`). The comment of `addPackage` says "Two lists
  included under different when must agree on the package, which then applies wherever either does". When a list
  overrides a package that an include has under a `when`, the result depends on which of two includes was merged before.
* `ApprovalsTwice.cfg` (MCHook, `NeverAskedTwice`; `internal/cli/approve.go:285`). The approver writes the list it read before
  its question. Two packages that ask in one command lose one of two approvals, and a later command asks again
  (`prd/behaviours.md:1189`: "The same manifest hash is never asked twice"). What runs was still agreed to (`RanApproved`).

### Seen while modelling

Pins and exposed items:

* With `[lock] platforms`, a sync writes another platform's source pin again after the checksum
  file changed (`PinBuild`, `internal/store/vendor.go:490`), and a build that is in the store reports the
  source it was made from whatever is pinned. `docs/reference/lock.md`: "A machine installs from
  the lock without changing it". `SyncKeepsLock` is therefore stated for downloads.
* When `when` leaves out the host and the list drops `signing_key`, `update --accept-key` writes
  `checksum-file` over `minisign` without `--accept-weaker-check`: `lockOthers` does not compare when it
  only relabels (`internal/cli/install.go:1541`).
* With `unverified = "refuse"` a sync may still write a `first-use` pin for a build: one in the store reports the source it was
  made from, and that is not asked about again. `FirstUseRefused` leaves builds out that the machine has.
* For another platform, `minisign` is recorded from a stated digest without a look at the
  signature, since `Pin` returns early.
* B594 ("does not depend on which machine ran it") fails when the manifest changed at the same
  version and nothing states a digest, or when a key is the only check: the host keeps its pin and
  other platforms are pinned again. `UpdateAgrees` carries those conditions.
* The comment at `internal/cli/install.go:675` says an update drops a source pin only with the version or a
  stated digest. The code drops it at every update.
* A copied file that the user edits between the plan and its placing is overwritten: `Edited` is
  asked in the plan only (`internal/expose/expose.go:418`; comment at 502).

Hook, approvals and oku itself:

* The save that brings a denied project back (finding 2) can as well put the older of two allows back over the newer one.
  `AppliedIsAllowed` says nothing of such a project until the next allow or deny; the proof needs no other exception.
* `execEnviron` (`internal/cli/envset.go:343`) gives back only the saved names, so a list variable other than `PATH` keeps
  entries of the project the shell is in. `ExecTrue` leaves those variables out.
* An unchanged, untracked `.env` of an allowed project that is then added with `git add` is not noticed. The look at git
  and at the modification time of one file is one step in the model.
* An approval given for the `[env]` of a package from a cache also covers its build commands, which were not shown.
* `oku self update` without a flag takes the latest release also when it is older than what runs, if it is old enough
  (`prd/behaviours.md`, B374: "It never takes a release older than the one that runs"). `NeverBack` is stated for nightlies and for
  the release that waits.
* Two self updates at once stage at one `<executable>.new` without a lock; Self assumes one updater. On Windows a kill
  between moving the binary aside and the rename leaves no oku. `uninstall` releases the lock before it deletes the data.

Network:

* On a host whose `Link` names the last page, pages are read in parallel, and a release published meanwhile can hide an older
  one (`internal/forge/forge.go:205`). `PinnedFound` is stated for the hosts whose pages are read in turn.

Lists, manifests and versions:

* `lint` does not read shell names, template variables of `fetch.url`, of a step's `env` or of `build.source`, and accepts
  `{{dep.x.prefix}}` in the URL of an artifact. `LintedInstalls` says so. An npm artifact whose URL is not the registry's
  tarball is trusted on first use without a warning.
* `Compare` has cycles among contrived mixes (1.26-rc1 < 1.26a-rc1 < 1.26rc1 < 1.26-rc1). When every release is too new, an
  old prerelease or yanked version that is sorted behind is picked (`internal/resolve/resolve.go:562`: "so the newest is never one").
* Inference stops at an asset that it cannot read when the host's layout was already known from a pinned platform, where
  a comment of `infer.go` says that it leaves such a platform out. A signature bundle of an asset is written unread once the one of
  the checksum file matched (`internal/infer/signatures.go:43`).
* `liveValue` (`internal/infer/livecheck.go:217`) indexes a match before it asks whether there is one: a cask whose livecheck
  reads an XML value in another form ends in a panic. Recipes has the outcome `panicked` for it.
* The comment of aqua's `over` says "returns o with what it leaves out taken from p", but overrides, `rosetta2`,
  `windows_arm_emulation` and `no_asset` are not taken.
* winget's `strip` counts for all files of a zip although one file asked for it; a zip without nested files gives an
  artifact without outputs. A cask's variations for one platform are looked at in the order of a Go map. Scoop's
  `replace` in checkver is ignored.

## What is abstracted

* **Change.** A generation is its content; contents, packages and the lock that belongs to them are
  one value. `NoFile` stands for a list that is absent or empty. A merge conflict in `oku.lock` is
  resolved as an adoption is and has no action. A rollback to a generation from before
  lock snapshots is left out. A project's change is the same without exposed items.
* **Expose.** The order of items is open, where the code sorts. Values are told apart by who
  wrote them. A write of the ledger or of `pending.toml` is atomic, as `durable.WriteFile` is.
* **Store and Collect.** A package is whole, partly there or absent, with or without its meta file. One
  large file stands for all that is shared; builds share nothing. A generation is a profile with
  its roots. The deps of a job are installed by that job (Install has the depCache). gc sweeps in any
  order. In the passing run `tears` is off: a deletion does take the meta file first, except in
  `TornSettings`. The caches of downloads are in Downloads.
* **Install.** The key of depCache is the package: every root pins a dep the same way. The retry
  after an approval, and the split of build-only from runtime closures, are left out.
* **Pins.** Left out: versions per artifact, moving tags, `SignedAt`, Sigstore, cosign and signer
  workflows (their labels follow the way of the key), vendor digests, cache
  substitution, the OSV check, platforms that upstream does not support, a URL that
  changes at the same version, npm integrity.
* **Environ and Hook.** The text that each shell evaluates is left out; what it sets and unsets is not. The files of a project
  are its list, its local list, overlays and `.env` files, each one value. The time of a
  write is later than that of every file there is.
* **Approvals.** A manifest is one value with its hash. The mutexes of the age and trust questions are one with the prompt's.
  One edit of `oku.toml` per command. That a failed package cancels the others is in Install.
* **Lookup, Requests, Downloads, Self.** A release is a number, an answer the list it was made of. Errors of a host are one
  kind. Names resolve to public or private addresses. The content of a file is its digest; torn writes of the index and failing
  renames on Windows are left out. Forged files fail every check of a self update and are left out.
* **Lists, ListFile, Files.** One package name and one target stand for all. A line of `oku.toml` is a header, an entry, a
  comment or blank; arrays over several lines are left out, and so are versions inside a reference (refused, as `bad`).
  Host names compare exactly. Removing a secret's target and placing trees are left out.
* **Manifests, Infer, Recipes.** A text is the set of variables in it. The name of an asset is the words in it, with the
  OS of its format and of its words in agreement, sizes all known or none, and no `file` beside `file.exe`. Ruby and YAML are
  read into the fields that the code takes from them; versions have at most two parts; a livecheck's regex has as many groups as fields match.
* **Versions.** A word is its place in the alphabet, and versions have up to three numbers.

## What is not modelled

`PROJECT.json` lists every component. Without a module: the three-way merge of `oku.lock`, services as running
processes, `setup`. Left out for good: the sandbox, shims, archives and file primitives (system calls
or decompression, whose data is outside TLC's reach), decryption (an external program), the verification of signatures
(cryptography), the formats of hosts and registries, terminal output and reports (they read and print).

## The plan

Done, in order of what matters most: the change transaction with its exposed items (Expose, Change, Switch),
the store under gc and kills (Store, Collect), the parallel installs (Install), the pins (Pins), the hook and the approvals
(Environ, Hook, Approvals), the network (Lookup, Requests, Downloads, Self), the lists (Platforms, Lists, ListFile,
Files), the packages (Manifests, Infer, Recipes, Versions).

Proved: the change with its exposed items, the installs, the store under gc, pins, the hook's allows, approvals, answers, requests,
downloads and oku itself. Next theorems: `IncludesTaken` of Lists, once pins and reviews are in
a module of their own without the recursive `Merge`; `ImplementsSwitch` with adoptions, under a mapping that shows an adopted list only once
its change is pending.

Next modules: the three-way merge of `oku.lock` (`cli/lockconflict.go`), which is to lose and invent no pin whatever the side;
services beside Expose, with start, stop and replace across a revert.
