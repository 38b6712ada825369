----------------------------- MODULE Downloads -----------------------------
(***************************************************************************)
(* The download cache of the store (store/download.go): files named after  *)
(* their digest, the index by url, partial downloads, the downloads that   *)
(* packages of one command share, and what gc --cache deletes.  Commands   *)
(* that install hold the lock, so one command runs at a time and gc runs   *)
(* between commands; its packages run at once.                             *)
(*                                                                         *)
(* The content of a file stands for its own digest.  Ages count in ticks   *)
(* of half a day: recentDownload is 2 of them, DownloadRetention is 4.     *)
(***************************************************************************)
EXTENDS Integers, FiniteSets

CONSTANTS
    Sites,       \* urls
    Contents,    \* what urls serve
    Jobs,        \* the packages of a command
    Calls,       \* the calls of download that packages make: [url, want, reuse]
    First,       \* what every url serves at first
    MaxTicks,    \* how many half days pass
    MaxChanges,  \* how often a url serves something else, a file is damaged or oku is killed
    Nothing, Damaged

ASSUME DownloadsAssumption ==
    /\ MaxTicks \in Nat /\ MaxChanges \in Nat /\ First \in Contents /\ {Nothing, Damaged} \cap Contents = {}
    /\ Calls \subseteq [url : Sites, want : Contents \cup {Nothing}, reuse : BOOLEAN]
    /\ Nothing \notin Nat \cup [holds : Contents \cup {Damaged}, age : Nat] \cup [digest : Contents, age : Nat]

VARIABLES
    serves,    \* serves[u]: what u serves now
    file,      \* file[d]: downloads/<d>, as [holds, age], or Nothing
    index,     \* index[u]: downloads/by-url, as [digest, age], or Nothing
    partial,   \* the ages of the files .partial-*
    job,       \* job[j]: the call of download by package j
    ticks, changes,
    last       \* last[u][d]: half days since u served d, or Nothing (history)

downloadVars == <<serves, file, index, partial, job, ticks, changes, last>>

Off == [at |-> "off"]
RecentDownload == 2
DownloadRetention == 4

Whole(d) == file[d] # Nothing /\ file[d].holds = d
Touched(d) == [file EXCEPT ![d].age = 0]

\* The calls that run: downloads.Do shares one among equal calls.
Leads(j) == job[j].at \in {"look", "get", "body", "place"}
Same(j, k) == job[j].call = job[k].call

\* A call of fetch or download.
Start(j, call) ==
    /\ job[j] = Off
    /\ job' = [job EXCEPT ![j] =
          [at |-> IF \E k \in Jobs : Leads(k) /\ job[k].call = call THEN "waits" ELSE "look", call |-> call]]
    /\ UNCHANGED <<serves, file, index, partial, ticks, changes, last>>

\* The result of a call goes to every call that waits for it.
Gives(j, result) ==
    job' = [k \in Jobs |-> IF k = j \/ (job[k].at = "waits" /\ Same(j, k))
                           THEN [result EXCEPT !.call = job[k].call] ELSE job[k]]
Got(j, d) == [at |-> "done", call |-> job[j].call, digest |-> d]
Error(j) == [at |-> "failed", call |-> job[j].call]

\* The digest to look for: the one asked for, or what the url gave within a day.
Cached(call) ==
    IF call.want # Nothing THEN call.want
    ELSE IF call.reuse /\ index[call.url] # Nothing /\ index[call.url].age < RecentDownload THEN index[call.url].digest
    ELSE Nothing

\* Mutant of Look: a file of the right name is the file.
LookName(j) ==
    /\ job[j].at = "look"
    /\ LET d == Cached(job[j].call)
       IN  IF d # Nothing /\ file[d] # Nothing
           THEN Gives(j, Got(j, d)) /\ file' = Touched(d)
           ELSE job' = [job EXCEPT ![j].at = "get"] /\ UNCHANGED file
    /\ UNCHANGED <<serves, index, partial, ticks, changes, last>>

\* A cached file that still verifies is used again, and its time is set for gc.
Look(j) ==
    /\ job[j].at = "look"
    /\ LET d == Cached(job[j].call)
       IN  IF d # Nothing /\ Whole(d)
           THEN Gives(j, Got(j, d)) /\ file' = Touched(d)
           ELSE job' = [job EXCEPT ![j].at = "get"] /\ UNCHANGED file
    /\ UNCHANGED <<serves, index, partial, ticks, changes, last>>

\* The request and the copy to a file .partial-*.
Get(j) ==
    /\ job[j].at = "get"
    /\ job' = [job EXCEPT ![j] = [at |-> "body", call |-> job[j].call, got |-> serves[job[j].call.url]]]
    /\ UNCHANGED <<serves, file, index, partial, ticks, changes, last>>

\* The server refuses, or the connection breaks off; the partial file goes.
GetFails(j) ==
    /\ job[j].at \in {"get", "body"} /\ changes < MaxChanges /\ changes' = changes + 1
    /\ Gives(j, Error(j))
    /\ UNCHANGED <<serves, file, index, partial, ticks, last>>

\* The check against want, and the rename to the digest's name, unless the file is there.
Place(j) ==
    /\ job[j].at = "body"
    /\ LET d == job[j].got
       IN  IF job[j].call.want \notin {Nothing, d} THEN Gives(j, Error(j)) /\ UNCHANGED file
           ELSE /\ job' = [job EXCEPT ![j].at = "place"]
                /\ file' = IF Whole(d) THEN Touched(d) ELSE [file EXCEPT ![d] = [holds |-> d, age |-> 0]]
    /\ UNCHANGED <<serves, index, partial, ticks, changes, last>>

\* The entry of the index, and the return.
Index(j) ==
    /\ job[j].at = "place"
    /\ index' = [index EXCEPT ![job[j].call.url] = [digest |-> job[j].got, age |-> 0]]
    /\ Gives(j, Got(j, job[j].got))
    /\ UNCHANGED <<serves, file, partial, ticks, changes, last>>

\* The command returns once its packages have.
Return ==
    /\ \A j \in Jobs : job[j].at \in {"off", "done", "failed"} /\ \E k \in Jobs : job[k] # Off
    /\ job' = [j \in Jobs |-> Off]
    /\ UNCHANGED <<serves, file, index, partial, ticks, changes, last>>

\* A kill leaves the partial files.
Kill ==
    /\ changes < MaxChanges /\ changes' = changes + 1 /\ \E j \in Jobs : job[j] # Off
    /\ job' = [j \in Jobs |-> Off]
    /\ partial' = partial \cup (IF \E j \in Jobs : job[j].at = "body" THEN {0} ELSE {})
    /\ UNCHANGED <<serves, file, index, ticks, last>>

-----------------------------------------------------------------------------
\* StaleDownloads: nothing of the last day; else the index, what no store path was made
\* from, what was not used for two ticks, and partial files.
Stale(age, keep) == age >= RecentDownload /\ (~keep \/ age >= DownloadRetention)

\* gc --cache with the digests that the store paths in use were made from.
Collect(used) ==
    /\ \A j \in Jobs : job[j] = Off
    /\ file' = [d \in Contents |-> IF file[d] # Nothing /\ (file[d] # Nothing => Stale(file[d].age, d \in used)) THEN Nothing ELSE file[d]]
    /\ index' = [u \in Sites |-> IF index[u] # Nothing /\ (index[u] # Nothing => Stale(index[u].age, FALSE)) THEN Nothing ELSE index[u]]
    /\ partial' = {a \in partial : ~Stale(a, FALSE)}
    /\ UNCHANGED <<serves, job, ticks, changes, last>>

\* The files a command may still need are those of the last day.
Older(x) == IF x = Nothing THEN Nothing ELSE [x EXCEPT !.age = @ + 1]
Tick ==
    /\ ticks < MaxTicks /\ ticks' = ticks + 1
    /\ file' = [d \in Contents |-> Older(file[d])]
    /\ index' = [u \in Sites |-> Older(index[u])]
    /\ partial' = {a + 1 : a \in partial}
    /\ last' = [u \in Sites |-> [d \in Contents |->
                   IF last[u][d] = Nothing \/ serves[u] = d THEN last[u][d] ELSE last[u][d] + 1]]
    /\ \A j \in Jobs : job[j] = Off
    /\ UNCHANGED <<serves, job, changes>>

Upload(u, d) ==
    /\ changes < MaxChanges /\ changes' = changes + 1 /\ d # serves[u]
    /\ serves' = [serves EXCEPT ![u] = d]
    /\ last' = [last EXCEPT ![u][d] = 0]
    /\ UNCHANGED <<file, index, partial, job, ticks>>

Damage(d) ==
    /\ changes < MaxChanges /\ changes' = changes + 1 /\ file[d] # Nothing
    /\ \A j \in Jobs : job[j] = Off
    /\ file' = [file EXCEPT ![d].holds = Damaged]
    /\ UNCHANGED <<serves, index, partial, job, ticks, last>>

DownloadsInit ==
    /\ serves = [u \in Sites |-> First]
    /\ file = [d \in Contents |-> Nothing] /\ index = [u \in Sites |-> Nothing] /\ partial = {}
    /\ job = [j \in Jobs |-> Off] /\ ticks = 0 /\ changes = 0
    /\ last = [u \in Sites |-> [d \in Contents |-> IF serves[u] = d THEN 0 ELSE Nothing]]

DownloadsNext ==
    \/ \E j \in Jobs : \/ \E call \in Calls : Start(j, call)
                       \/ Look(j) \/ Get(j) \/ GetFails(j) \/ Place(j) \/ Index(j)
    \/ Return \/ Kill \/ Tick
    \/ \E used \in SUBSET Contents : Collect(used)
    \/ \E u \in Sites, d \in Contents : Upload(u, d)
    \/ \E d \in Contents : Damage(d)

DownloadsSpec == DownloadsInit /\ [][DownloadsNext]_downloadVars

-----------------------------------------------------------------------------
JobStates ==
    {Off} \cup [at : {"waits", "look", "get", "failed"}, call : Calls]
          \cup [at : {"body", "place"}, call : Calls, got : Contents]
          \cup [at : {"done"}, call : Calls, digest : Contents]

DownloadsTypeOK ==
    /\ serves \in [Sites -> Contents]
    /\ file \in [Contents -> [holds : Contents \cup {Damaged}, age : Nat] \cup {Nothing}]
    /\ index \in [Sites -> [digest : Contents, age : Nat] \cup {Nothing}]
    /\ partial \subseteq Nat /\ job \in [Jobs -> JobStates]
    /\ last \in [Sites -> [Contents -> Nat \cup {Nothing}]]

\* A file that a package is given holds the digest it was given with, and the one it asked
\* for, for as long as the command runs, whatever other packages download meanwhile and
\* whatever was left of earlier commands (fetch).
GivenTrue == \A j \in Jobs : job[j].at = "done" =>
    /\ Whole(job[j].digest)
    /\ job[j].call.want \in {Nothing, job[j].digest}

\* Without a digest to ask for, a package gets what the url served less than a day and a
\* command ago, and what it serves now when the caller takes no recent download.
GivenRecent == \A j \in Jobs : job[j].at = "done" /\ job[j].call.want = Nothing =>
    LET age == last[job[j].call.url][job[j].digest]
    IN  age # Nothing /\ age < (IF job[j].call.reuse THEN RecentDownload ELSE 1)

\* What a package is given, with the types: GivenTrue and GivenRecent.
GivenHolds == DownloadsTypeOK /\ GivenTrue /\ GivenRecent

=============================================================================
