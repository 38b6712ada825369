------------------------------- MODULE Lookup -------------------------------
(***************************************************************************)
(* How commands read the releases of a repo: the answers a command shares  *)
(* between its packages (forge.WithAnswers), the answers kept on disk and  *)
(* revalidated with their ETag (forge.Revalidating), the pages of a list   *)
(* (forge.readPages), and the list that a version is picked from           *)
(* (resolve.listing and PickWaiting).  Commands of several terminals run   *)
(* at once and share the directory of kept answers with gc.                *)
(*                                                                         *)
(* A document is what one URL serves: a page of the list, a file at a full *)
(* commit SHA, or the attestations of a download.  The host is outside the *)
(* repository: releases appear at the front of its list.                   *)
(***************************************************************************)
EXTENDS Integers, Sequences, FiniteSets, SequencesExt

CONSTANTS
    Commands,     \* commands, each a process of its own
    Packages,     \* the packages of a command that follow this repo
    Wants,        \* Wants[p]: the version that package p is pinned to, or None
    Hosts,        \* the hosts: [style |-> "last", "next" or "none", tagged |-> BOOLEAN,
                  \* kept |-> None or Bad, what an older oku left under cache/api]
    Released,     \* the releases of the host at first, newest first
    Drafts,       \* the releases that are drafts or prereleases
    FirstSize,    \* firstReleases: the size of the page a lookup reads first
    PageSize,     \* releasePage: the size of a page when a lookup reads them all
    MaxReleases,  \* maxReleases: the most releases that oku lists
    MaxHost,      \* the most releases that the host comes to have
    MaxFailures,  \* how many requests fail and answers gc deletes
    None, Bad     \* no answer, and a kept answer that read cannot load

ASSUME LookupAssumption ==
    /\ {FirstSize, PageSize, MaxReleases, MaxHost} \subseteq Nat \ {0}
    /\ FirstSize <= PageSize /\ PageSize <= MaxReleases /\ MaxFailures \in Nat
    /\ Released \in Seq(1 .. MaxHost)
    /\ Wants \in [Packages -> 1 .. MaxHost \cup {None}]
    /\ \A h \in Hosts : h.kept \in {None, Bad} /\ h.tagged \in BOOLEAN

VARIABLES
    releases,   \* the host's list, newest first: a release is a number
    attested,   \* the attestations the host has: a number that grows
    host,       \* what the host's Link header names, and whether it sends an ETag
    work,       \* what the commands do
    kept,       \* the answers under cache/api, by key
    request,    \* request[c][k]: the one request of command c for the document k
    listing,    \* listing[c]: what resolve.memo holds of the repo
    package,    \* package[c][p]: how far the lookup of package p is
    verify,     \* verify[c]: how far verifyAttestations is
    failures,
    seen        \* seen[c][k]: every document the host served at k since c began (history)

lookupVars == <<releases, attested, host, work, kept, request, listing, package, verify, failures, seen>>

Pages(size) == {[size |-> size, page |-> n] : n \in 1 .. (MaxReleases \div size)}
File == [size |-> 0, page |-> 0]
Attested == [size |-> 0, page |-> 1]
Bundles == [size |-> 0, page |-> 2]    \* where GitHubAttestations itself keeps what it found
URLs == {[size |-> FirstSize, page |-> 1], File, Attested} \cup Pages(PageSize)
Keys == URLs \cup {Bundles}

-----------------------------------------------------------------------------
(* The host.                                                               *)

PageCount(size) == (Len(releases) + size - 1) \div size

\* The Link header of page n as lastPage reads it: the last page, -1 for a next page only, 0 for none.
Link(size, n) ==
    CASE host.style = "none" \/ n >= PageCount(size) -> 0
      [] host.style = "next" -> -1
      [] OTHER -> PageCount(size)

Doc(k) ==
    CASE k = File -> [items |-> <<"file">>, link |-> 0]
      [] k = Attested -> [items |-> <<attested>>, link |-> 0]
      [] OTHER -> [items |-> SubSeq(releases, (k.page - 1) * k.size + 1,
                                    IF k.page * k.size < Len(releases) THEN k.page * k.size ELSE Len(releases)),
                   link |-> Link(k.size, k.page)]

-----------------------------------------------------------------------------
(* One request.                                                            *)

Idle == [at |-> "idle"]
Failed == [at |-> "failed"]
Done(doc) == [at |-> "done", doc |-> doc]

IsDone(c, k) == request[c][k].at = "done"
Ended(c, k) == request[c][k].at \in {"done", "failed"}

\* read: an answer in another format is asked for again in full.
Loaded(k) == IF kept[k] = Bad THEN None ELSE kept[k]

\* fixed: a file at a full SHA, which always is the same.
Fixed(k) == k = File

\* Mutant of Reads: every kept answer is the answer.
ReadsKept(c, k) ==
    /\ request[c][k] = Idle
    /\ request' = [request EXCEPT ![c][k] =
                      IF Loaded(k) # None THEN Done(Loaded(k).doc) ELSE [at |-> "sent", old |-> Loaded(k)]]
    /\ UNCHANGED <<releases, attested, host, work, kept, listing, package, verify, failures, seen>>

\* revalidate up to the request: a kept file at a full SHA is the answer.
Reads(c, k) ==
    /\ request[c][k] = Idle
    /\ request' = [request EXCEPT ![c][k] =
                      IF Fixed(k) /\ Loaded(k) # None THEN Done(Loaded(k).doc)
                      ELSE [at |-> "sent", old |-> Loaded(k)]]
    /\ UNCHANGED <<releases, attested, host, work, kept, listing, package, verify, failures, seen>>

\* The host answers: 304 when it still serves what the ETag names, else the document.
Replies(c, k) ==
    /\ request[c][k].at = "sent"
    /\ LET old == request[c][k].old
           same == old # None /\ old.etag /\ old.doc = Doc(k)
       IN  request' = [request EXCEPT ![c][k] =
               IF same THEN Done(old.doc)
               ELSE IF host.tagged \/ Fixed(k) THEN [at |-> "body", doc |-> Doc(k), etag |-> host.tagged]
               ELSE Done(Doc(k))]
    /\ UNCHANGED <<releases, attested, host, work, kept, listing, package, verify, failures, seen>>

\* Every error of the host or the connection: the command keeps it for the URL.
Fails(c, k) ==
    /\ request[c][k].at \in {"sent", "body"} /\ failures < MaxFailures
    /\ request' = [request EXCEPT ![c][k] = Failed] /\ failures' = failures + 1
    /\ UNCHANGED <<releases, attested, host, work, kept, listing, package, verify, seen>>

\* keep writes the answer in one rename.
Keeps(c, k) ==
    /\ request[c][k].at = "body"
    /\ kept' = [kept EXCEPT ![k] = [doc |-> request[c][k].doc, etag |-> request[c][k].etag]]
    /\ request' = [request EXCEPT ![c][k] = Done(request[c][k].doc)]
    /\ UNCHANGED <<releases, attested, host, work, listing, package, verify, failures, seen>>

-----------------------------------------------------------------------------
(* The pages of a list.                                                    *)

PageLimit == MaxReleases \div PageSize

\* lastPage, and for a host without the header a full page that means more.
LastPage(doc, size) == IF host.style = "none" /\ Len(doc.items) = size THEN -1 ELSE doc.link

Page(c, n) == request[c][[size |-> PageSize, page |-> n]]

\* Mutant of AllPages: pages are asked for at once on every host.
AllPagesAtOnce(c) ==
    IF Page(c, 1).at # "done" THEN {1}
    ELSE LET last == LastPage(Page(c, 1).doc, PageSize)
         IN  IF last = 0 THEN {1} ELSE 1 .. PageLimit

\* readPages with all: the pages it asks for, as far as the answers tell.
AllPages(c) ==
    IF Page(c, 1).at # "done" THEN {1}
    ELSE LET last == LastPage(Page(c, 1).doc, PageSize)
         IN  IF last > 1 THEN 1 .. (IF last < PageLimit THEN last ELSE PageLimit)
             ELSE {n \in 1 .. PageLimit : \A m \in 1 .. (n - 1) :
                      Page(c, m).at = "done" /\ LastPage(Page(c, m).doc, PageSize) < 0}

FirstPage == [size |-> FirstSize, page |-> 1]

Asked(c, all) == IF all THEN {[size |-> PageSize, page |-> n] : n \in AllPages(c)} ELSE {FirstPage}

\* published: the releases that are no drafts, and whether there are more pages.
Published(items) == SelectSeq(items, LAMBDA r : r \notin Drafts)
Found(c, all) ==
    IF \E k \in Asked(c, all) : request[c][k].at = "failed" THEN [ok |-> FALSE, items |-> <<>>, more |-> FALSE]
    ELSE IF all
         THEN [ok |-> TRUE, more |-> FALSE, items |-> Published(FlattenSeq(
                  [n \in 1 .. Cardinality(AllPages(c)) |-> Page(c, n).doc.items]))]
         ELSE [ok |-> TRUE, more |-> LastPage(request[c][FirstPage].doc, FirstSize) # 0,
               items |-> Published(request[c][FirstPage].doc.items)]

-----------------------------------------------------------------------------
(* The list of a source, and the version each package picks.               *)

NoListing == [read |-> FALSE, complete |-> FALSE, ok |-> TRUE, items |-> <<>>, more |-> FALSE, by |-> None]

\* listing: the memo answers when it has every page, or one and one was asked for.
FromMemo(l, all) == l.complete \/ (l.read /\ ~all)

\* PickWaiting on a list: the pinned version, or the newest.
Pick(p, items) ==
    CASE Wants[p] # None -> IF \E i \in DOMAIN items : items[i] = Wants[p] THEN Wants[p] ELSE None
      [] items = <<>> -> None
      [] OTHER -> Max(Range(items))

\* What PickWaiting does with the list l: returns, or reads the other pages.
Outcome(p, l, all) ==
    IF l.ok /\ Pick(p, l.items) # None THEN [at |-> "picked", release |-> Pick(p, l.items)]
    ELSE IF ~l.ok \/ all \/ ~l.more THEN [at |-> "picked", release |-> None]
    ELSE [at |-> "all"]

Wait(c, p, all) ==
    /\ package[c][p].at = IF all THEN "all" ELSE "first"
    /\ listing[c].by = None /\ ~FromMemo(listing[c], all)
    /\ listing' = [listing EXCEPT ![c].by = p]
    /\ UNCHANGED <<releases, attested, host, work, kept, request, package, verify, failures, seen>>

Listed(c, p, all) ==
    /\ package[c][p].at = IF all THEN "all" ELSE "first"
    /\ listing[c].by = None /\ FromMemo(listing[c], all)
    /\ package' = [package EXCEPT ![c][p] = Outcome(p, listing[c], all)]
    /\ UNCHANGED <<releases, attested, host, work, kept, request, listing, verify, failures, seen>>

\* list returns to the package that holds the mutex of the listing.
Lists(c, p, all) ==
    /\ listing[c].by = p /\ package[c][p].at = IF all THEN "all" ELSE "first"
    /\ \A k \in Asked(c, all) : Ended(c, k)
    /\ LET f == Found(c, all)
           l == [read |-> TRUE, complete |-> f.ok /\ ~f.more, ok |-> f.ok, items |-> f.items, more |-> f.more, by |-> None]
       IN  /\ listing' = [listing EXCEPT ![c] = l]
           /\ package' = [package EXCEPT ![c][p] = Outcome(p, l, all)]
    /\ UNCHANGED <<releases, attested, host, work, kept, request, verify, failures, seen>>

Lookups(c) == \E p \in Packages, all \in BOOLEAN : Wait(c, p, all) \/ Listed(c, p, all) \/ Lists(c, p, all)

\* The documents that some goroutine of c waits for.
Needed(c) ==
    (IF listing[c].by = None THEN {} ELSE Asked(c, package[c][listing[c].by].at = "all"))
    \cup (IF verify[c].at = "asks" THEN {Attested} ELSE {})
    \cup (IF verify[c].at = "off" THEN {} ELSE {File})

Ask(c) == \E k \in Needed(c) : Reads(c, k) \/ Replies(c, k) \/ Fails(c, k) \/ Keeps(c, k)

-----------------------------------------------------------------------------
(* Attestations.                                                           *)

\* GitHubAttestations: what it kept for the digest, unless the context is fresh.
Attestations(c, fresh) ==
    /\ verify[c].at = IF fresh THEN "fresh" ELSE "start"
    /\ verify' = [verify EXCEPT ![c] =
          IF Loaded(Bundles) # None /\ ~fresh THEN [at |-> "found", n |-> Loaded(Bundles).doc.items[1], fresh |-> fresh]
          ELSE [at |-> "asks", fresh |-> fresh]]
    /\ UNCHANGED <<releases, attested, host, work, kept, request, listing, package, failures, seen>>

\* The answer of the host: none is an error, and is not kept.
Attests(c) ==
    /\ verify[c].at = "asks" /\ Ended(c, Attested)
    /\ IF IsDone(c, Attested) /\ request[c][Attested].doc.items[1] > 0
       THEN /\ verify' = [verify EXCEPT ![c] = [at |-> "found", n |-> request[c][Attested].doc.items[1], fresh |-> verify[c].fresh]]
            /\ kept' = [kept EXCEPT ![Bundles] = [doc |-> request[c][Attested].doc, etag |-> FALSE]]
       ELSE /\ verify' = [verify EXCEPT ![c] = [at |-> "refused"]]
            /\ UNCHANGED kept
    /\ UNCHANGED <<releases, attested, host, work, request, listing, package, failures, seen>>

\* verifyAttestations: the second attestation is the one the workflow made.
Verifies(c) ==
    /\ verify[c].at = "found"
    /\ verify' = [verify EXCEPT ![c] =
          CASE verify[c].n >= 2 -> [at |-> "verified"]
            [] verify[c].n < 2 /\ ~verify[c].fresh -> [at |-> "fresh"]
            [] OTHER -> [at |-> "refused"]]
    /\ UNCHANGED <<releases, attested, host, work, kept, request, listing, package, failures, seen>>

-----------------------------------------------------------------------------
(* The machine around it.                                                  *)

\* A command looks up versions, or checks a download and the file of a manifest.
Begin(c) ==
    /\ seen[c][File] = {}
    /\ \/ /\ work = "versions"
          /\ package' = [package EXCEPT ![c] = [p \in Packages |-> [at |-> "first"]]]
          /\ UNCHANGED verify
       \/ /\ work = "checks"
          /\ verify' = [verify EXCEPT ![c] = [at |-> "start"]]
          /\ UNCHANGED package
    /\ seen' = [seen EXCEPT ![c] = [k \in URLs |-> {Doc(k)}]]
    /\ UNCHANGED <<releases, attested, host, work, kept, request, listing, failures>>

\* gc --cache: StaleAnswers go by the time of the last use, which may be long ago for any answer.
Collects(k) ==
    /\ kept[k] # None /\ failures < MaxFailures
    /\ kept' = [kept EXCEPT ![k] = None] /\ failures' = failures + 1
    /\ UNCHANGED <<releases, attested, host, work, request, listing, package, verify, seen>>

\* The commands that run may be told what the host serves from now on.
Serves == seen' = [c \in Commands |-> [k \in URLs |-> IF seen[c][k] = {} THEN {} ELSE seen[c][k] \cup {Doc(k)'}]]

\* The project publishes a release, or a workflow attests a build.
Publish ==
    /\ Len(releases) < MaxHost /\ work = "versions"
    /\ releases' = <<Len(releases) + 1>> \o releases
    /\ UNCHANGED <<attested, host, work, kept, request, listing, package, verify, failures>>
    /\ Serves

Attest ==
    /\ attested < 2 /\ work = "checks" /\ attested' = attested + 1
    /\ UNCHANGED <<releases, host, work, kept, request, listing, package, verify, failures>>
    /\ Serves

LookupInit ==
    /\ releases = Released /\ attested = 0
    /\ host \in Hosts /\ work \in {"versions", "checks"}
    /\ kept = [k \in Keys |-> host.kept]
    /\ request = [c \in Commands |-> [k \in URLs |-> Idle]]
    /\ listing = [c \in Commands |-> NoListing]
    /\ package = [c \in Commands |-> [p \in Packages |-> [at |-> "off"]]]
    /\ verify = [c \in Commands |-> [at |-> "off"]]
    /\ failures = 0
    /\ seen = [c \in Commands |-> [k \in URLs |-> {}]]

LookupNext ==
    \/ \E c \in Commands : \/ Begin(c) \/ Ask(c) \/ Lookups(c)
                          \/ Attestations(c, FALSE) \/ Attestations(c, TRUE) \/ Attests(c) \/ Verifies(c)
    \/ \E k \in Keys : Collects(k)
    \/ Publish \/ Attest

LookupSpec == LookupInit /\ [][LookupNext]_lookupVars

-----------------------------------------------------------------------------
(* Properties.                                                             *)

\* What a command is told at a URL is what the host served there at some moment of that
\* command, whatever other commands, kept answers and gc do (Revalidating: "the answer is
\* never stale").
NeverStale == \A c \in Commands, k \in URLs : IsDone(c, k) => request[c][k].doc \in seen[c][k]

\* The releases that oku can list: as many whole pages as MaxReleases holds.
Listable == Published(SubSeq(releases, 1, IF Len(releases) < PageLimit * PageSize THEN Len(releases) ELSE PageLimit * PageSize))
Newest == Published(SubSeq(releases, 1, IF Len(releases) < FirstSize THEN Len(releases) ELSE FirstSize))

Steady(c) == \A k \in URLs : Cardinality(seen[c][k]) = 1 /\ request[c][k].at # "failed"

\* When no release comes out during a command and no request fails, every package picks
\* what the host's list gives: answers kept at other times never mix into the list, no
\* page is left out, and the packages that share the list get the same one (PickWaiting).
PicksTrue == \A c \in Commands, p \in Packages :
    package[c][p].at = "picked" /\ Steady(c) =>
        package[c][p].release = IF Pick(p, Newest) # None THEN Pick(p, Newest) ELSE Pick(p, Listable)

\* On a host whose pages oku reads one after another, releases that come out meanwhile
\* hide no release that was there before (readPages).
PinnedFound == \A c \in Commands, p \in Packages :
    package[c][p].at = "picked" /\ package[c][p].release = None /\ Wants[p] # None =>
        \/ Wants[p] \in Drafts
        \/ \E k \in URLs : request[c][k].at = "failed"
        \/ \E d \in seen[c][FirstPage] : d.items[1] < Wants[p]
        \/ Len(releases) > PageLimit * PageSize
        \/ host.style = "last"

\* A download that the workflow attested before the command began verifies, whichever
\* attestations an earlier command kept (verifyAttestations, GitHubAttestations).
AttestedVerifies == \A c \in Commands :
    verify[c].at = "refused" =>
        \/ \E d \in seen[c][Attested] : d.items[1] < 2
        \/ request[c][Attested].at = "failed"

\* No answer is taken from another time, though commands share what they keep and
\* ask again for less (Revalidating, GitHubAttestations).
AnswersHold == NeverStale /\ AttestedVerifies

\* What a lookup answers: PicksTrue and PinnedFound.
LookupTrue == PicksTrue /\ PinnedFound

=============================================================================
