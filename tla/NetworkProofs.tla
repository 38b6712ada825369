---------------------------- MODULE NetworkProofs ----------------------------
(***************************************************************************)
(* What oku reads from the network, for every value of the constants: the  *)
(* requests and their redirects (Requests), the downloads (Downloads), its *)
(* own update and uninstall (Self), and the answers of a lookup (Lookup),  *)
(* each with the invariant that its properties rest on.                    *)
(***************************************************************************)
EXTENDS Requests, Downloads, Self, Lookup, SequenceTheorems, TLAPS

-----------------------------------------------------------------------------
(***************************************************************************)
(* RequestsKept holds for every set of hosts, whichever of them resolve to *)
(* private addresses or are below others, every [network] and every list   *)
(* of the user's own forges, along chains of redirects of any length.      *)
(*                                                                         *)
(* TokenKept speaks of connections made.  What carries it over a chain is  *)
(* LoginMeant, of the request under way: its first url is of a host the    *)
(* login is meant for, and no redirect has left that host or https.        *)
(***************************************************************************)
\* A login on its way is meant for the host that oku asked first, and is now at that host,
\* or below it, over https.
LoginMeant ==
    http # NoRequest /\ http.header # NoLogin =>
        /\ http.url.scheme = "https"
        /\ FirstURL.host \in Meant(http.header)
        /\ http.url.host = FirstURL.host \/ <<http.url.host, FirstURL.host>> \in Within

RequestsInv == RequestsTypeOK /\ LoginMeant /\ TokenKept /\ PolicyKept

(* Append and the first of a chain. *)
LEMMA FirstOf ==
    ASSUME NEW hops \in Seq(URL), NEW url \in URL
    PROVE  /\ Append(hops, url) \in Seq(URL)
           /\ Append(hops, url)[1] \in URL
           /\ hops = <<>> => Append(hops, url)[1] = url
           /\ hops # <<>> => 1 \in DOMAIN hops /\ Append(hops, url)[1] = hops[1]
<1>1. Append(hops, url) \in Seq(URL) /\ Len(Append(hops, url)) = Len(hops) + 1
    BY AppendProperties
<1>2. Len(hops) \in Nat /\ DOMAIN hops = 1..Len(hops)
    BY LenProperties
<1>3. Append(hops, url)[1] \in URL
    BY <1>1, <1>2, ElementOfSeq
<1>4. hops = <<>> => Append(hops, url)[1] = url
    OBVIOUS
<1>5. hops # <<>> => 1 \in DOMAIN hops /\ Append(hops, url)[1] = hops[1]
    BY <1>2, EmptySeq, AppendProperties
<1> QED BY <1>1, <1>3, <1>4, <1>5

(* A redirect leaves the first url what it was. *)
LEMMA FirstStays ==
    ASSUME NEW hops \in Seq(URL), NEW from \in URL, NEW url \in URL
    PROVE  Append(Append(hops, from), url)[1] = Append(hops, from)[1]
<1>1. Append(hops, from) \in Seq(URL) /\ Len(Append(hops, from)) = Len(hops) + 1 /\ Len(hops) \in Nat
    BY AppendProperties, LenProperties
<1> QED BY <1>1, AppendProperties

(* The login of a forge, when there is one, is meant for its host. *)
LEMMA TokenMeant ==
    ASSUME NEW kind \in Kinds, NEW h \in Names
    PROVE  /\ Token(kind, h) \in Logins
           /\ Token(kind, h) # NoLogin => h \in Meant(Token(kind, h))
BY RequestsAssumption DEF Token, Meant, Kinds, Logins

(* What a request is, once there is one. *)
LEMMA RequestType ==
    ASSUME RequestsTypeOK, http.at # "none"
    PROVE  /\ http # NoRequest
           /\ http \in [at : {"new", "sent"}, url : URL, hops : Seq(URL), header : Logins, strip : BOOLEAN]
           /\ http.url \in URL /\ http.hops \in Seq(URL) /\ http.header \in Logins /\ http.strip \in BOOLEAN
           /\ FirstURL \in URL
<1>1. http # NoRequest
    BY DEF NoRequest
<1>2. http \in [at : {"new", "sent"}, url : URL, hops : Seq(URL), header : Logins, strip : BOOLEAN]
    BY <1>1 DEF RequestsTypeOK
<1>3. http.url \in URL /\ http.hops \in Seq(URL) /\ http.header \in Logins /\ http.strip \in BOOLEAN
    BY <1>2
<1> QED BY <1>1, <1>2, <1>3, FirstOf DEF FirstURL

(* A new request with a login for its own host is as the invariant says. *)
LEMMA SendStarts ==
    ASSUME RequestsInv, NEW url \in URL, NEW header \in Logins, NEW strip \in BOOLEAN,
           Send(url, header, strip), UNCHANGED <<policy, trusted, proxy, connected>>,
           header # NoLogin => url.scheme = "https" /\ url.host \in Meant(header)
    PROVE  RequestsInv'
<1>1. http' \in [at : {"new", "sent"}, url : URL, hops : Seq(URL), header : Logins, strip : BOOLEAN]
    BY EmptySeq DEF Send
<1>2. RequestsTypeOK'
    BY <1>1 DEF RequestsInv, RequestsTypeOK, Logins
<1>3. http'.url = url /\ http'.hops = <<>> /\ http'.header = header /\ FirstURL' = url
    BY DEF Send, FirstURL
<1>4. LoginMeant'
    BY <1>3 DEF LoginMeant, Meant
<1>5. TokenKept' /\ PolicyKept'
    BY DEF RequestsInv, TokenKept, PolicyKept, Meant, Allowed, PrivateOK
<1> QED BY <1>2, <1>4, <1>5 DEF RequestsInv

(* A step that ends the request, or makes none. *)
LEMMA RequestEnds ==
    ASSUME RequestsInv, http' = NoRequest, UNCHANGED <<policy, trusted, proxy, connected>>
    PROVE  RequestsInv'
BY DEF RequestsInv, RequestsTypeOK, LoginMeant, TokenKept, PolicyKept, Meant, Allowed, PrivateOK, Logins

LEMMA APIKeeps ==
    ASSUME RequestsInv, NEW kind \in Kinds, NEW h \in Names, API(kind, h)
    PROVE  RequestsInv'
<1>1. [scheme |-> "https", host |-> h] \in URL
    BY DEF URL
<1> QED BY <1>1, TokenMeant, SendStarts DEF API

LEMMA DownloadKeeps ==
    ASSUME RequestsInv, NEW kind \in Kinds, NEW h \in Names, NEW url \in URL, Download(kind, h, url)
    PROVE  RequestsInv'
<1> DEFINE header == For(Auth(kind, h), url)
<1>1. header \in Logins
    BY TokenMeant DEF For, Auth, Logins
<1>2. header # NoLogin => url.scheme = "https" /\ url.host \in Meant(header)
    BY TokenMeant DEF For, Auth
<1> HIDE DEF header
<1>3. Send(url, header, FALSE) /\ UNCHANGED <<policy, trusted, proxy, connected>>
    BY DEF Download, header
<1> QED BY <1>1, <1>2, <1>3, SendStarts

LEMMA PrivateKeeps ==
    ASSUME RequestsInv, Private
    PROVE  RequestsInv'
<1>1. [scheme |-> "https", host |-> APIHost] \in URL
    BY RequestsAssumption DEF URL
<1>2. "GITHUB_TOKEN" \in Logins /\ APIHost \in Meant("GITHUB_TOKEN")
    BY DEF Logins, Meant
<1> QED BY <1>1, <1>2, SendStarts DEF Private

LEMMA ConnectsKeeps ==
    ASSUME RequestsInv, NEW addr \in {"public", "private"}, Connects(addr)
    PROVE  RequestsInv'
<1> DEFINE x == [url |-> http.url, first |-> FirstURL, header |-> http.header, addr |-> IF proxy THEN "proxy" ELSE addr]
<1>1. /\ http \in [at : {"new", "sent"}, url : URL, hops : Seq(URL), header : Logins, strip : BOOLEAN]
      /\ http.url \in URL /\ http.hops \in Seq(URL) /\ http.header \in Logins /\ FirstURL \in URL /\ http # NoRequest
    BY RequestType DEF RequestsInv, Connects
<1>2. /\ connected' = connected \cup {x} /\ http' = [http EXCEPT !.at = "sent"]
      /\ policy' = policy /\ trusted' = trusted
    BY DEF Connects
<1>3. x \in [url : URL, first : URL, header : Logins, addr : {"public", "private", "proxy", "git"}]
    BY <1>1
<1>4. http' \in [at : {"new", "sent"}, url : URL, hops : Seq(URL), header : Logins, strip : BOOLEAN]
    BY <1>1, <1>2
<1>5. RequestsTypeOK'
    BY <1>2, <1>3, <1>4 DEF RequestsInv, RequestsTypeOK, Logins
<1>6. http'.url = http.url /\ http'.header = http.header /\ FirstURL' = FirstURL
    BY <1>1, <1>2 DEF FirstURL
<1>7. LoginMeant'
    BY <1>1, <1>2, <1>6 DEF RequestsInv, LoginMeant, Meant
<1>8. TokenKept'
  <2>1. x.header # NoLogin =>
            x.url.scheme = "https" /\ \E h \in Meant(x.header) : x.url.host = h \/ <<x.url.host, h>> \in Within
    BY <1>1 DEF RequestsInv, LoginMeant
  <2> HIDE DEF x
  <2> QED BY <1>2, <2>1 DEF RequestsInv, TokenKept, Meant
<1>9. PolicyKept'
  <2>1. http.url.scheme # "file" => http.url.host \in Locals \/ Allowed(http.url.host)
    BY DEF Connects, Guard
  <2>2. ASSUME http.url.scheme # "file", x.addr = "private", ~PrivateOK(http.url.host)
        PROVE  http.url.host \in Locals /\ FirstURL.host \in Locals
    <3>1. http.url.host \in Locals
        BY <2>2 DEF Connects, CheckAddr
    <3>2. \A i \in DOMAIN http.hops : i = 1 => http.hops[i].host \in Locals
        BY <2>2, <3>1 DEF Connects, Guard, PrivateOK
    <3> QED BY <1>1, <3>1, <3>2, FirstOf DEF FirstURL
  <2>3. x.url.scheme # "file" =>
            /\ x.url.host \in Locals \/ Allowed(x.url.host)
            /\ x.addr = "private" => PrivateOK(x.url.host) \/ (x.url.host \in Locals /\ x.first.host \in Locals)
    BY <2>1, <2>2
  <2> HIDE DEF x
  <2> QED BY <1>2, <2>3 DEF RequestsInv, PolicyKept, Allowed, PrivateOK
<1> QED BY <1>5, <1>7, <1>8, <1>9 DEF RequestsInv

LEMMA GitKeeps ==
    ASSUME RequestsInv, NEW url \in URL, Git(url)
    PROVE  RequestsInv'
<1> DEFINE x == [url |-> url, first |-> url, header |-> NoLogin, addr |-> "git"]
<1>1. /\ connected' = connected \cup {x} /\ UNCHANGED <<policy, trusted, proxy, http>>
    BY DEF Git
<1>2. x \in [url : URL, first : URL, header : Logins, addr : {"public", "private", "proxy", "git"}]
    BY DEF Logins
<1>3. x.header = NoLogin /\ x.addr # "private"
    OBVIOUS
<1>4. x.url.scheme # "file" => x.url.host \in Locals \/ Allowed(x.url.host)
    BY DEF Git, CheckURL
<1> HIDE DEF x
<1>5. RequestsTypeOK'
    BY <1>1, <1>2 DEF RequestsInv, RequestsTypeOK, Logins
<1>6. LoginMeant'
    BY <1>1 DEF RequestsInv, LoginMeant, FirstURL, Meant
<1>7. TokenKept'
    BY <1>1, <1>3 DEF RequestsInv, TokenKept, Meant
<1>8. PolicyKept'
    BY <1>1, <1>3, <1>4 DEF RequestsInv, PolicyKept, Allowed, PrivateOK
<1> QED BY <1>5, <1>6, <1>7, <1>8 DEF RequestsInv

LEMMA RedirectsKeeps ==
    ASSUME RequestsInv, NEW url \in URL, Redirects(url)
    PROVE  RequestsInv'
<1> DEFINE follows == CheckRedirect(url, http.url, Append(http.hops, http.url))
           keeps == ~http.strip /\ (url.host = FirstURL.host \/ <<url.host, FirstURL.host>> \in Within)
<1>1. /\ http \in [at : {"new", "sent"}, url : URL, hops : Seq(URL), header : Logins, strip : BOOLEAN]
      /\ http.url \in URL /\ http.hops \in Seq(URL) /\ http.header \in Logins /\ http # NoRequest
    BY RequestType DEF RequestsInv, Redirects
<1>2. UNCHANGED <<policy, trusted, proxy, connected>>
    BY DEF Redirects
<1>3. CASE ~follows
    BY <1>2, <1>3, RequestEnds DEF Redirects
<1>4. CASE follows
  <2>1. http' = [http EXCEPT !.at = "new", !.url = url, !.hops = Append(http.hops, http.url),
                             !.header = IF keeps THEN http.header ELSE NoLogin]
    BY <1>4 DEF Redirects
  <2>2. Append(http.hops, http.url) \in Seq(URL)
    BY <1>1, FirstOf
  <2>3. http'.url = url /\ http'.hops = Append(http.hops, http.url) /\ http'.header = IF keeps THEN http.header ELSE NoLogin
    BY <1>1, <2>1
  <2>4. http' \in [at : {"new", "sent"}, url : URL, hops : Seq(URL), header : Logins, strip : BOOLEAN]
    BY <1>1, <2>1, <2>2 DEF Logins
  <2>5. RequestsTypeOK'
    BY <1>2, <2>4 DEF RequestsInv, RequestsTypeOK, Logins
  <2>6. FirstURL' = FirstURL
    BY <1>1, <2>3, FirstStays DEF FirstURL
  <2>7. http.url.scheme = "https" => url.scheme = "https"
    BY <1>4 DEF CheckRedirect
  <2>8. LoginMeant'
    BY <1>1, <1>2, <2>3, <2>6, <2>7 DEF RequestsInv, LoginMeant, Meant
  <2>9. TokenKept' /\ PolicyKept'
    BY <1>2 DEF RequestsInv, TokenKept, PolicyKept, Meant, Allowed, PrivateOK
  <2> QED BY <2>5, <2>8, <2>9 DEF RequestsInv
<1> QED BY <1>3, <1>4

(* A login reaches only hosts it is meant for, or hosts below them, and    *)
(* only over https, and no connection leaves what [network] allows, for    *)
(* every set of hosts and every chain of redirects (forge.CheckRedirect,   *)
(* Auth.For, netpolicy's guard).                                           *)
THEOREM RequestsKeep == RequestsSpec => []RequestsKept
<1>1. RequestsInit => RequestsInv
    BY DEF RequestsInit, RequestsInv, RequestsTypeOK, LoginMeant, TokenKept, PolicyKept
<1>2. RequestsInv /\ [RequestsNext]_requestVars => RequestsInv'
  <2> SUFFICES ASSUME RequestsInv, [RequestsNext]_requestVars PROVE RequestsInv'
    OBVIOUS
  <2>1. CASE \E kind \in Kinds, h \in Names : API(kind, h) \/ \E url \in URL : Download(kind, h, url)
    BY <2>1, APIKeeps, DownloadKeeps
  <2>2. CASE \E url \in URL : Git(url)
    BY <2>2, GitKeeps
  <2>3. CASE Private
    BY <2>3, PrivateKeeps
  <2>4. CASE Refuse \/ Answered
    BY <2>4, RequestEnds DEF Refuse, Answered
  <2>5. CASE \E addr \in {"public", "private"} : Connects(addr)
    BY <2>5, ConnectsKeeps
  <2>6. CASE \E url \in URL : Redirects(url)
    BY <2>6, RedirectsKeeps
  <2>7. CASE UNCHANGED requestVars
    BY <2>7 DEF requestVars, RequestsInv, RequestsTypeOK, LoginMeant, FirstURL, TokenKept, PolicyKept, Meant, Allowed, PrivateOK
  <2> QED BY <2>1, <2>2, <2>3, <2>4, <2>5, <2>6, <2>7 DEF RequestsNext
<1>3. RequestsInv => RequestsKept
    BY DEF RequestsInv, RequestsKept
<1> QED BY <1>1, <1>2, <1>3, PTL DEF RequestsSpec

-----------------------------------------------------------------------------
(***************************************************************************)
(* GivenHolds holds for any number of urls, contents, packages and calls,  *)
(* over any number of commands, kills and half days.                       *)
(*                                                                         *)
(* GivenTrue and GivenRecent are about packages that have their file.      *)
(* What they rest on is said of the steps before: a url serves what it     *)
(* served zero half days ago (ServedNow), an entry of the index is never   *)
(* younger than what it names (IndexTrue), what a package has read from    *)
(* the url was served since its command started (BodyNow), and what it has *)
(* renamed to the digest's name is whole and what it asked for (Placed).   *)
(***************************************************************************)
ServedNow == \A u \in Sites : last[u][serves[u]] = 0

IndexTrue == \A u \in Sites : index[u] # Nothing =>
    last[u][index[u].digest] # Nothing /\ last[u][index[u].digest] <= index[u].age

BodyNow == \A j \in Jobs : job[j].at \in {"body", "place"} => last[job[j].call.url][job[j].got] = 0

Placed == \A j \in Jobs : job[j].at = "place" =>
    Whole(job[j].got) /\ job[j].call.want \in {Nothing, job[j].got}

DownloadsInv == DownloadsTypeOK /\ ServedNow /\ IndexTrue /\ BodyNow /\ Placed /\ GivenTrue /\ GivenRecent

(* What the step of a call says of its record. *)
LEMMA JobShape ==
    ASSUME DownloadsTypeOK, NEW j \in Jobs
    PROVE  /\ job[j] # Off => job[j].call \in Calls
           /\ job[j].at \in {"waits", "look", "get", "failed"} => job[j] \in [at : {"waits", "look", "get", "failed"}, call : Calls]
           /\ job[j].at \in {"body", "place"} => job[j] \in [at : {"body", "place"}, call : Calls, got : Contents]
           /\ job[j].at = "done" => job[j] \in [at : {"done"}, call : Calls, digest : Contents]
           /\ job[j].at = "off" <=> job[j] = Off
<1>1. job[j] \in JobStates
    BY DEF DownloadsTypeOK
<1> QED BY <1>1 DEF JobStates, Off

(* A result goes to the call and to those that wait for it, which are equal calls. *)
LEMMA GivesDone ==
    ASSUME DownloadsTypeOK, NEW j \in Jobs, job[j].at \notin {"off"}, NEW d \in Contents, Gives(j, Got(j, d))
    PROVE  /\ job' \in [Jobs -> JobStates]
           /\ \A k \in Jobs : \/ job'[k] = job[k]
                              \/ /\ job'[k] = [at |-> "done", call |-> job[k].call, digest |-> d]
                                 /\ job[k].call = job[j].call /\ job[k].call \in Calls
<1> DEFINE shared(k) == k = j \/ (job[k].at = "waits" /\ Same(j, k))
<1>1. job' = [k \in Jobs |-> IF shared(k) THEN [at |-> "done", call |-> job[k].call, digest |-> d] ELSE job[k]]
    BY DEF Gives, Got
<1>2. \A k \in Jobs : shared(k) => job[k].call = job[j].call /\ job[k].call \in Calls
    BY JobShape DEF Same, Off
<1>3. \A k \in Jobs : job'[k] \in JobStates
  <2> TAKE k \in Jobs
  <2>1. CASE shared(k)
    BY <1>1, <1>2, <2>1 DEF JobStates
  <2>2. CASE ~shared(k)
    BY <1>1, <2>2 DEF DownloadsTypeOK
  <2> QED BY <2>1, <2>2
<1> QED BY <1>1, <1>2, <1>3

LEMMA GivesFailed ==
    ASSUME DownloadsTypeOK, NEW j \in Jobs, job[j].at \notin {"off"}, Gives(j, Error(j))
    PROVE  /\ job' \in [Jobs -> JobStates]
           /\ \A k \in Jobs : job'[k] = job[k] \/ job'[k].at = "failed"
<1> DEFINE shared(k) == k = j \/ (job[k].at = "waits" /\ Same(j, k))
<1>1. job' = [k \in Jobs |-> IF shared(k) THEN [at |-> "failed", call |-> job[k].call] ELSE job[k]]
    BY DEF Gives, Error
<1>2. \A k \in Jobs : shared(k) => job[k].call \in Calls
    BY JobShape DEF Same, Off
<1>3. \A k \in Jobs : job'[k] \in JobStates
  <2> TAKE k \in Jobs
  <2>1. CASE shared(k)
    BY <1>1, <1>2, <2>1 DEF JobStates
  <2>2. CASE ~shared(k)
    BY <1>1, <2>2 DEF DownloadsTypeOK
  <2> QED BY <2>1, <2>2
<1> QED BY <1>1, <1>3

(* Setting the time of a file keeps what it and every other file hold. *)
LEMMA TouchKeeps ==
    ASSUME DownloadsTypeOK, NEW d \in Contents, Whole(d), file' = Touched(d)
    PROVE  /\ file' \in [Contents -> [holds : Contents \cup {Damaged}, age : Nat] \cup {Nothing}]
           /\ \A e \in Contents : Whole(e) => Whole(e)'
BY DownloadsAssumption DEF DownloadsTypeOK, Touched, Whole

(* Placing a file makes it whole and keeps every other file. *)
LEMMA PlaceKeeps ==
    ASSUME DownloadsTypeOK, NEW d \in Contents,
           file' = IF Whole(d) THEN Touched(d) ELSE [file EXCEPT ![d] = [holds |-> d, age |-> 0]]
    PROVE  /\ file' \in [Contents -> [holds : Contents \cup {Damaged}, age : Nat] \cup {Nothing}]
           /\ Whole(d)'
           /\ \A e \in Contents : Whole(e) => Whole(e)'
<1>1. CASE Whole(d)
    BY <1>1, TouchKeeps
<1>2. CASE ~Whole(d)
  <2>1. file' = [file EXCEPT ![d] = [holds |-> d, age |-> 0]]
    BY <1>2
  <2>2. [holds |-> d, age |-> 0] \in [holds : Contents \cup {Damaged}, age : Nat]
    OBVIOUS
  <2> QED BY <1>2, <2>1, <2>2, DownloadsAssumption DEF DownloadsTypeOK, Whole
<1> QED BY <1>1, <1>2

(***************************************************************************)
(* One step of a package, of the command or of what is around it.          *)
(***************************************************************************)

LEMMA StartKeeps ==
    ASSUME DownloadsInv, NEW j \in Jobs, NEW call \in Calls, Start(j, call)
    PROVE  DownloadsInv'
<1> DEFINE now == [at |-> IF \E k \in Jobs : Leads(k) /\ job[k].call = call THEN "waits" ELSE "look", call |-> call]
<1>1. job' = [job EXCEPT ![j] = now] /\ now \in JobStates /\ now.at \in {"waits", "look"}
    BY DEF Start, JobStates
<1>2. UNCHANGED <<serves, file, index, partial, last>>
    BY DEF Start
<1> HIDE DEF now
<1>3. DownloadsTypeOK' /\ \A k \in Jobs : job'[k] = job[k] \/ job'[k].at \in {"waits", "look"}
    BY <1>1, <1>2 DEF DownloadsInv, DownloadsTypeOK
<1> QED BY <1>2, <1>3 DEF DownloadsInv, ServedNow, IndexTrue, BodyNow, Placed, GivenTrue, GivenRecent, Whole

LEMMA LookKeeps ==
    ASSUME DownloadsInv, NEW j \in Jobs, Look(j)
    PROVE  DownloadsInv'
<1> DEFINE call == job[j].call
           d == Cached(call)
<1>1. DownloadsTypeOK /\ job[j].at = "look" /\ UNCHANGED <<serves, index, partial, last>>
    BY DEF DownloadsInv, Look
<1>2. call \in Calls /\ call.url \in Sites /\ call.want \in Contents \cup {Nothing} /\ call.reuse \in BOOLEAN
    BY <1>1, JobShape, DownloadsAssumption
<1>3. CASE d # Nothing /\ Whole(d)
  <2>1. Gives(j, Got(j, d)) /\ file' = Touched(d)
    BY <1>3 DEF Look
  <2>2. d \in Contents
    BY <1>1, <1>2, <1>3 DEF Cached, DownloadsTypeOK
  <2>3. /\ call.want \in {Nothing, d}
        /\ call.want = Nothing => /\ call.reuse /\ last[call.url][d] # Nothing
                                  /\ last[call.url][d] < RecentDownload
    <3>1. CASE call.want # Nothing
        BY <3>1 DEF Cached
    <3>2. CASE call.want = Nothing
      <4>1. /\ call.reuse /\ index[call.url] # Nothing /\ index[call.url].age < RecentDownload
            /\ d = index[call.url].digest
        BY <1>3, <3>2 DEF Cached
      <4>2. last[call.url][d] # Nothing /\ last[call.url][d] <= index[call.url].age
        BY <1>2, <4>1 DEF DownloadsInv, IndexTrue
      <4>3. last[call.url][d] \in Nat /\ index[call.url].age \in Nat
        BY <1>1, <1>2, <2>2, <4>1, <4>2 DEF DownloadsTypeOK
      <4> QED BY <3>2, <4>1, <4>2, <4>3 DEF RecentDownload
    <3> QED BY <3>1, <3>2
  <2> HIDE DEF call, d
  <2>4. /\ job' \in [Jobs -> JobStates]
        /\ \A k \in Jobs : \/ job'[k] = job[k]
                           \/ /\ job'[k] = [at |-> "done", call |-> job[k].call, digest |-> d]
                              /\ job[k].call = call
    BY <1>1, <2>1, <2>2, GivesDone DEF call
  <2>5. /\ file' \in [Contents -> [holds : Contents \cup {Damaged}, age : Nat] \cup {Nothing}]
        /\ \A e \in Contents : Whole(e) => Whole(e)'
    BY <1>1, <1>3, <2>1, <2>2, TouchKeeps
  <2>6. DownloadsTypeOK'
    BY <1>1, <2>4, <2>5 DEF DownloadsTypeOK
  <2>7. ServedNow' /\ IndexTrue' /\ BodyNow'
    BY <1>1, <2>4 DEF DownloadsInv, ServedNow, IndexTrue, BodyNow
  <2>8. Placed'
    BY <1>1, <2>4, <2>5, JobShape DEF DownloadsInv, Placed
  <2>9. GivenTrue'
    BY <1>1, <1>3, <2>2, <2>3, <2>4, <2>5, JobShape DEF DownloadsInv, GivenTrue
  <2>10. GivenRecent'
    BY <1>1, <2>3, <2>4 DEF DownloadsInv, GivenRecent
  <2> QED BY <2>6, <2>7, <2>8, <2>9, <2>10 DEF DownloadsInv
<1>4. CASE ~(d # Nothing /\ Whole(d))
  <2>1. job' = [job EXCEPT ![j].at = "get"] /\ file' = file
    BY <1>4 DEF Look
  <2>2. job[j] \in [at : {"waits", "look", "get", "failed"}, call : Calls]
    BY <1>1, JobShape
  <2>3. job'[j] \in [at : {"waits", "look", "get", "failed"}, call : Calls] /\ job'[j].at = "get"
    BY <1>1, <2>1, <2>2 DEF DownloadsTypeOK
  <2>4. job' \in [Jobs -> JobStates] /\ \A k \in Jobs : job'[k] = job[k] \/ job'[k].at = "get"
    BY <1>1, <2>1, <2>3 DEF DownloadsTypeOK, JobStates
  <2>5. DownloadsTypeOK'
    BY <1>1, <2>1, <2>4 DEF DownloadsTypeOK
  <2> QED BY <1>1, <2>1, <2>4, <2>5
          DEF DownloadsInv, ServedNow, IndexTrue, BodyNow, Placed, GivenTrue, GivenRecent, Whole
<1> QED BY <1>3, <1>4

LEMMA GetKeeps ==
    ASSUME DownloadsInv, NEW j \in Jobs, Get(j)
    PROVE  DownloadsInv'
<1> DEFINE now == [at |-> "body", call |-> job[j].call, got |-> serves[job[j].call.url]]
<1>1. DownloadsTypeOK /\ job[j].at = "get" /\ UNCHANGED <<serves, file, index, partial, last>>
    BY DEF DownloadsInv, Get
<1>2. job[j].call \in Calls /\ job[j].call.url \in Sites
    BY <1>1, JobShape, DownloadsAssumption
<1>3. job' = [job EXCEPT ![j] = now] /\ now \in JobStates
    BY <1>1, <1>2 DEF Get, JobStates, DownloadsTypeOK
<1>4. now.at = "body" /\ last[now.call.url][now.got] = 0
    BY <1>2 DEF DownloadsInv, ServedNow
<1> HIDE DEF now
<1>5. DownloadsTypeOK' /\ \A k \in Jobs : job'[k] = job[k] \/ job'[k] = now
    BY <1>1, <1>3 DEF DownloadsTypeOK
<1> QED BY <1>1, <1>4, <1>5
        DEF DownloadsInv, ServedNow, IndexTrue, BodyNow, Placed, GivenTrue, GivenRecent, Whole

(* A step after which packages are as they were, or have nothing. *)
LEMMA FailKeeps ==
    ASSUME DownloadsInv, UNCHANGED <<serves, file, index, last>>, partial' \subseteq Nat,
           job' \in [Jobs -> JobStates], \A k \in Jobs : job'[k] = job[k] \/ job'[k].at \in {"failed", "off"}
    PROVE  DownloadsInv'
<1>1. DownloadsTypeOK'
    BY DEF DownloadsInv, DownloadsTypeOK
<1> QED BY <1>1 DEF DownloadsInv, ServedNow, IndexTrue, BodyNow, Placed, GivenTrue, GivenRecent, Whole

LEMMA GetFailsKeeps ==
    ASSUME DownloadsInv, NEW j \in Jobs, GetFails(j)
    PROVE  DownloadsInv'
BY GivesFailed, FailKeeps DEF GetFails, DownloadsInv, DownloadsTypeOK

LEMMA PlaceKeepsAll ==
    ASSUME DownloadsInv, NEW j \in Jobs, Place(j)
    PROVE  DownloadsInv'
<1>1. DownloadsTypeOK /\ job[j].at = "body" /\ UNCHANGED <<serves, index, partial, last>>
    BY DEF DownloadsInv, Place
<1>2. job[j] \in [at : {"body", "place"}, call : Calls, got : Contents]
    BY <1>1, JobShape
<1> PICK d \in Contents : d = job[j].got
    BY <1>2
<1>3. CASE job[j].call.want \notin {Nothing, d}
    BY <1>1, <1>3, GivesFailed, FailKeeps DEF Place, DownloadsTypeOK
<1>4. CASE job[j].call.want \in {Nothing, d}
  <2>1. /\ job' = [job EXCEPT ![j].at = "place"]
        /\ file' = IF Whole(d) THEN Touched(d) ELSE [file EXCEPT ![d] = [holds |-> d, age |-> 0]]
    BY <1>4 DEF Place
  <2>2. /\ file' \in [Contents -> [holds : Contents \cup {Damaged}, age : Nat] \cup {Nothing}]
        /\ Whole(d)' /\ \A e \in Contents : Whole(e) => Whole(e)'
    BY <1>1, <1>2, <2>1, PlaceKeeps
  <2>3. /\ job'[j] \in [at : {"body", "place"}, call : Calls, got : Contents]
        /\ job'[j].at = "place" /\ job'[j].call = job[j].call /\ job'[j].got = d
    BY <1>1, <1>2, <2>1 DEF DownloadsTypeOK
  <2>4. job' \in [Jobs -> JobStates] /\ \A k \in Jobs : k # j => job'[k] = job[k]
    BY <1>1, <2>1, <2>3 DEF DownloadsTypeOK, JobStates
  <2>5. last[job[j].call.url][d] = 0
    BY <1>1 DEF DownloadsInv, BodyNow
  <2>6. DownloadsTypeOK'
    BY <1>1, <2>2, <2>4 DEF DownloadsTypeOK
  <2>7. ServedNow' /\ IndexTrue'
    BY <1>1 DEF DownloadsInv, ServedNow, IndexTrue
  <2>8. BodyNow'
    BY <1>1, <2>3, <2>4, <2>5 DEF DownloadsInv, BodyNow
  <2>9. Placed'
    <3> SUFFICES ASSUME NEW k \in Jobs, job'[k].at = "place"
                 PROVE  Whole(job[k].got)' /\ job'[k].call.want \in {Nothing, job'[k].got}
        BY DEF Placed
    <3>1. CASE k = j
        BY <1>4, <2>2, <2>3, <3>1 DEF Whole
    <3>2. CASE k # j
      <4>1. job'[k] = job[k] /\ job[k].got \in Contents
        BY <1>1, <2>4, <3>2, JobShape
      <4> QED BY <2>2, <4>1 DEF DownloadsInv, Placed, Whole
    <3> QED BY <3>1, <3>2
  <2>10. GivenTrue'
    BY <1>1, <2>2, <2>3, <2>4, JobShape DEF DownloadsInv, GivenTrue
  <2>11. GivenRecent'
    BY <1>1, <2>3, <2>4 DEF DownloadsInv, GivenRecent
  <2> QED BY <2>6, <2>7, <2>8, <2>9, <2>10, <2>11 DEF DownloadsInv
<1> QED BY <1>3, <1>4

LEMMA IndexKeeps ==
    ASSUME DownloadsInv, NEW j \in Jobs, Index(j)
    PROVE  DownloadsInv'
<1> DEFINE u == job[j].call.url
           d == job[j].got
<1>1. DownloadsTypeOK /\ job[j].at = "place" /\ UNCHANGED <<serves, file, partial, last>>
    BY DEF DownloadsInv, Index
<1>2. job[j] \in [at : {"body", "place"}, call : Calls, got : Contents] /\ d \in Contents
    BY <1>1, JobShape
<1>3. u \in Sites
    BY <1>2, DownloadsAssumption
<1>4. last[u][d] = 0 /\ Whole(d) /\ job[j].call.want \in {Nothing, d}
    BY <1>1 DEF DownloadsInv, BodyNow, Placed
<1>5. Gives(j, Got(j, d)) /\ index' = [index EXCEPT ![u] = [digest |-> d, age |-> 0]]
    BY DEF Index
<1>6. /\ job' \in [Jobs -> JobStates]
      /\ \A k \in Jobs : \/ job'[k] = job[k]
                         \/ /\ job'[k] = [at |-> "done", call |-> job[k].call, digest |-> d]
                            /\ job[k].call = job[j].call
    BY <1>1, <1>2, <1>5, GivesDone
<1> HIDE DEF d
<1>7. DownloadsTypeOK'
    BY <1>1, <1>2, <1>3, <1>5, <1>6 DEF DownloadsTypeOK
<1>8. ServedNow' /\ BodyNow'
    BY <1>1, <1>6 DEF DownloadsInv, ServedNow, BodyNow
<1>9. IndexTrue'
  <2> SUFFICES ASSUME NEW v \in Sites, index'[v] # Nothing
               PROVE  last[v][index'[v].digest] # Nothing /\ last[v][index'[v].digest] <= index'[v].age
    BY <1>1 DEF IndexTrue
  <2>1. CASE v = u
    BY <1>1, <1>3, <1>4, <1>5, <2>1, DownloadsAssumption DEF DownloadsTypeOK
  <2>2. CASE v # u
    BY <1>1, <1>5, <2>2 DEF DownloadsInv, IndexTrue, DownloadsTypeOK
  <2> QED BY <2>1, <2>2
<1>10. Placed'
    BY <1>1, <1>6 DEF DownloadsInv, Placed, Whole
<1>11. GivenTrue'
    BY <1>1, <1>4, <1>6 DEF DownloadsInv, GivenTrue, Whole
<1>12. GivenRecent'
    BY <1>1, <1>4, <1>6, DownloadsAssumption DEF DownloadsInv, GivenRecent, RecentDownload
<1> QED BY <1>7, <1>8, <1>9, <1>10, <1>11, <1>12 DEF DownloadsInv

LEMMA EndsKeep ==
    ASSUME DownloadsInv, Return \/ Kill
    PROVE  DownloadsInv'
<1>1. /\ job' \in [Jobs -> JobStates] /\ \A k \in Jobs : job'[k].at = "off"
      /\ UNCHANGED <<serves, file, index, last>>
    BY DEF Return, Kill, JobStates, Off
<1>2. partial' \subseteq partial \cup {0} /\ partial \subseteq Nat
    BY DEF Return, Kill, DownloadsInv, DownloadsTypeOK
<1>3. partial' \subseteq Nat
    BY <1>2
<1> QED BY <1>1, <1>3, FailKeeps

(* Between commands no package has a file or waits for one. *)
LEMMA IdleKeeps ==
    ASSUME \A j \in Jobs : job[j] = Off, job' = job
    PROVE  BodyNow' /\ Placed' /\ GivenTrue' /\ GivenRecent'
BY DEF Off, BodyNow, Placed, GivenTrue, GivenRecent

LEMMA CollectKeeps ==
    ASSUME DownloadsInv, NEW used \in SUBSET Contents, Collect(used)
    PROVE  DownloadsInv'
<1>1. BodyNow' /\ Placed' /\ GivenTrue' /\ GivenRecent' /\ UNCHANGED <<serves, job, last>>
    BY IdleKeeps DEF Collect
<1>2. DownloadsTypeOK' /\ \A u \in Sites : index'[u] \in {index[u], Nothing}
    BY DEF Collect, DownloadsInv, DownloadsTypeOK
<1> QED BY <1>1, <1>2 DEF DownloadsInv, ServedNow, IndexTrue

LEMMA TickKeeps ==
    ASSUME DownloadsInv, Tick
    PROVE  DownloadsInv'
<1>1. BodyNow' /\ Placed' /\ GivenTrue' /\ GivenRecent' /\ UNCHANGED <<serves, job>>
    BY IdleKeeps DEF Tick
<1>2. \A u \in Sites, d \in Contents :
          last'[u][d] = IF last[u][d] = Nothing \/ serves[u] = d THEN last[u][d] ELSE last[u][d] + 1
    BY DEF Tick
<1>3. last' \in [Sites -> [Contents -> Nat \cup {Nothing}]]
    BY DEF Tick, DownloadsInv, DownloadsTypeOK
<1>4. file' \in [Contents -> [holds : Contents \cup {Damaged}, age : Nat] \cup {Nothing}]
  <2>1. \A d \in Contents : Older(file[d]) \in [holds : Contents \cup {Damaged}, age : Nat] \cup {Nothing}
    BY DEF DownloadsInv, DownloadsTypeOK, Older
  <2> QED BY <2>1 DEF Tick
<1>5. index' \in [Sites -> [digest : Contents, age : Nat] \cup {Nothing}]
    BY DEF Tick, DownloadsInv, DownloadsTypeOK, Older
<1>6. DownloadsTypeOK'
    BY <1>1, <1>3, <1>4, <1>5 DEF Tick, DownloadsInv, DownloadsTypeOK
<1>7. ServedNow'
    BY <1>1, <1>2 DEF DownloadsInv, ServedNow, DownloadsTypeOK
<1>8. IndexTrue'
  <2> SUFFICES ASSUME NEW u \in Sites, index'[u] # Nothing
               PROVE  last'[u][index'[u].digest] # Nothing /\ last'[u][index'[u].digest] <= index'[u].age
    BY DEF IndexTrue
  <2>1. /\ index[u] # Nothing /\ index[u] \in [digest : Contents, age : Nat]
        /\ index'[u].digest = index[u].digest /\ index'[u].age = index[u].age + 1
    BY DEF Tick, Older, DownloadsInv, DownloadsTypeOK
  <2> DEFINE d == index[u].digest
  <2>2. last[u][d] # Nothing /\ last[u][d] <= index[u].age /\ d \in Contents /\ index[u].age \in Nat
    BY <2>1 DEF DownloadsInv, IndexTrue
  <2>3. last[u][d] \in Nat
    BY <2>2 DEF DownloadsInv, DownloadsTypeOK
  <2> HIDE DEF d
  <2>4. last'[u][d] \in Nat /\ last'[u][d] <= index[u].age + 1
    BY <1>2, <2>2, <2>3
  <2> QED BY <2>1, <2>4, DownloadsAssumption DEF d
<1> QED BY <1>1, <1>6, <1>7, <1>8 DEF DownloadsInv

LEMMA UploadKeeps ==
    ASSUME DownloadsInv, NEW u \in Sites, NEW d \in Contents, Upload(u, d)
    PROVE  DownloadsInv'
<1>1. UNCHANGED <<file, index, partial, job>> /\ serves' = [serves EXCEPT ![u] = d]
    BY DEF Upload
<1>2. DownloadsTypeOK'
    BY DEF Upload, DownloadsInv, DownloadsTypeOK
<1>3. \A v \in Sites, e \in Contents : last'[v][e] = IF v = u /\ e = d THEN 0 ELSE last[v][e]
    BY DEF Upload, DownloadsInv, DownloadsTypeOK
<1>4. ServedNow'
    BY <1>1, <1>3 DEF DownloadsInv, ServedNow, DownloadsTypeOK
<1>5. IndexTrue'
  <2> SUFFICES ASSUME NEW v \in Sites, index[v] # Nothing
               PROVE  last'[v][index[v].digest] # Nothing /\ last'[v][index[v].digest] <= index[v].age
    BY <1>1 DEF IndexTrue
  <2>1. index[v] \in [digest : Contents, age : Nat]
    BY DEF DownloadsInv, DownloadsTypeOK
  <2> QED BY <1>3, <2>1, DownloadsAssumption DEF DownloadsInv, IndexTrue
<1>6. BodyNow'
  <2> SUFFICES ASSUME NEW j \in Jobs, job[j].at \in {"body", "place"}
               PROVE  last'[job[j].call.url][job[j].got] = 0
    BY <1>1 DEF BodyNow
  <2>1. job[j].call.url \in Sites /\ job[j].got \in Contents
    BY JobShape, DownloadsAssumption DEF DownloadsInv
  <2> QED BY <1>3, <2>1 DEF DownloadsInv, BodyNow
<1>7. Placed' /\ GivenTrue'
    BY <1>1 DEF DownloadsInv, Placed, GivenTrue, Whole
<1>8. GivenRecent'
  <2> SUFFICES ASSUME NEW j \in Jobs, job[j].at = "done", job[j].call.want = Nothing
               PROVE  LET age == last'[job[j].call.url][job[j].digest]
                      IN  age # Nothing /\ age < (IF job[j].call.reuse THEN RecentDownload ELSE 1)
    BY <1>1 DEF GivenRecent
  <2>1. job[j].call.url \in Sites /\ job[j].digest \in Contents
    BY JobShape, DownloadsAssumption DEF DownloadsInv
  <2> QED BY <1>3, <2>1, DownloadsAssumption DEF DownloadsInv, GivenRecent, RecentDownload
<1> QED BY <1>2, <1>4, <1>5, <1>6, <1>7, <1>8 DEF DownloadsInv

LEMMA DamageKeeps ==
    ASSUME DownloadsInv, NEW d \in Contents, Damage(d)
    PROVE  DownloadsInv'
<1>1. BodyNow' /\ Placed' /\ GivenTrue' /\ GivenRecent' /\ UNCHANGED <<serves, index, partial, job, last>>
    BY IdleKeeps DEF Damage
<1>2. DownloadsTypeOK'
    BY DEF Damage, DownloadsInv, DownloadsTypeOK
<1> QED BY <1>1, <1>2 DEF DownloadsInv, ServedNow, IndexTrue

(* A package is given a file that holds what it asked for, and what the    *)
(* url served lately, whatever other packages, killed commands, the disk   *)
(* and gc do, for any number of each (Store.fetch, download, StaleDownloads). *)
THEOREM DownloadsGive == DownloadsSpec => []GivenHolds
<1>1. DownloadsInit => DownloadsInv
    BY DownloadsAssumption DEF DownloadsInit, DownloadsInv, DownloadsTypeOK, JobStates, Off,
       ServedNow, IndexTrue, BodyNow, Placed, GivenTrue, GivenRecent
<1>2. DownloadsInv /\ [DownloadsNext]_downloadVars => DownloadsInv'
  <2> SUFFICES ASSUME DownloadsInv, [DownloadsNext]_downloadVars PROVE DownloadsInv'
    OBVIOUS
  <2>1. ASSUME NEW j \in Jobs, NEW call \in Calls, Start(j, call) PROVE DownloadsInv'
    BY <2>1, StartKeeps
  <2>2. ASSUME NEW j \in Jobs, Look(j) \/ Get(j) \/ GetFails(j) \/ Place(j) \/ Index(j) PROVE DownloadsInv'
    BY <2>2, LookKeeps, GetKeeps, GetFailsKeeps, PlaceKeepsAll, IndexKeeps
  <2>3. CASE Return \/ Kill
    BY <2>3, EndsKeep
  <2>4. CASE Tick
    BY <2>4, TickKeeps
  <2>5. CASE \E used \in SUBSET Contents : Collect(used)
    BY <2>5, CollectKeeps
  <2>6. CASE \E u \in Sites, d \in Contents : Upload(u, d)
    BY <2>6, UploadKeeps
  <2>7. CASE \E d \in Contents : Damage(d)
    BY <2>7, DamageKeeps
  <2>8. CASE UNCHANGED downloadVars
    BY <2>8 DEF downloadVars, DownloadsInv, DownloadsTypeOK, ServedNow, IndexTrue, BodyNow, Placed, GivenTrue, GivenRecent, Whole
  <2> QED BY <2>1, <2>2, <2>3, <2>4, <2>5, <2>6, <2>7, <2>8 DEF DownloadsNext
<1>3. DownloadsInv => GivenHolds
    BY DEF DownloadsInv, GivenHolds
<1> QED BY <1>1, <1>2, <1>3, PTL DEF DownloadsSpec

-----------------------------------------------------------------------------
(***************************************************************************)
(* SelfHolds holds of self update and self uninstall together, for any     *)
(* number of releases and nightlies, any releases with the files of        *)
(* another, and any items placed on the machine.                           *)
(*                                                                         *)
(* The properties are about an update that has replaced the binary, and a  *)
(* machine without one.  UpdateChecked says what each step before rests on *)
(* (what the signatures established, what the file beside the binary       *)
(* holds), and Removed what each deletion of an uninstall has left.        *)
(***************************************************************************)
\* What holds of an update from its checks on.
Verified ==
    /\ update.bin = update.found.n
    /\ update.found.kind = "nightly" /\ update.running.kind = "nightly" => update.found.n > update.running.n

UpdateChecked == update # NoUpdate =>
    /\ leaving.at = "idle"
    /\ ~windows => exe # Gone
    /\ update.flag.kind = "nightly" => update.found.kind = "nightly"
    /\ update.flag.kind \in {"none", "release"} /\ update.running.kind = "release" /\ update.held =>
           update.found.n > update.running.n
    /\ update.at \in {"stage", "copy", "aside", "rename", "pages"} => Verified
    /\ update.at = "copy" => staged = [of |-> update.found, whole |-> FALSE]
    /\ update.at \in {"aside", "rename"} => staged = [of |-> update.found, whole |-> TRUE]
    /\ update.at = "aside" => windows
    /\ update.at = "pages" => exe = [of |-> update.found, whole |-> TRUE]

\* What is gone at each step of an uninstall, and what is not.
Removed ==
    /\ leaving.at \in {"cache", "data", "root", "config", "binary", "man", "gone"} => items \subseteq System
    /\ leaving.at \in {"data", "root", "config", "binary", "man", "gone"} => "cache" \notin dirs
    /\ leaving.at \in {"root", "config", "binary", "man", "gone"} => "data" \notin dirs
    /\ leaving.at \in {"config", "binary", "man", "gone"} => "files of root" \notin dirs
    /\ leaving.at \in {"binary", "man", "gone"} => config \cap OwnConfig = {}
    /\ leaving.at # "idle" /\ leaving.keep => leaving.lists \subseteq config

SelfInv == SelfTypeOK /\ UpdateChecked /\ Removed /\ RunsAgain /\ NothingLost

LEMMA UpdateType ==
    ASSUME SelfTypeOK, update.at # "idle"
    PROVE  /\ update # NoUpdate /\ update \in Updates
           /\ update.found \in Versions /\ update.running \in Versions /\ update.bin \in Nat /\ update.sums \in Nat
           /\ update.found.n \in Nat /\ update.running.n \in Nat
<1>1. update # NoUpdate
    BY DEF NoUpdate
<1>2. update \in Updates
    BY <1>1 DEF SelfTypeOK
<1>3. update.found \in Versions /\ update.running \in Versions /\ update.bin \in Nat /\ update.sums \in Nat
    BY <1>2 DEF Updates
<1> QED BY <1>1, <1>2, <1>3 DEF Versions

(* A step of the upstream or of an update leaves the machine as it is, but *)
(* for the binary and the man pages.                                       *)
LEMMA PlacedStays ==
    ASSUME SelfInv, UNCHANGED placed
    PROVE  Removed' /\ NothingLost' /\ UNCHANGED <<items, ledger, dirs, config, leaving>>
BY DEF SelfInv, placed, Removed, NothingLost

(* An update that goes on without touching a binary. *)
LEMMA UpdateGoesOn ==
    ASSUME SelfInv, UNCHANGED <<upstream, binary, placed>>, update' = NoUpdate \/ (update' \in Updates /\ UpdateChecked')
    PROVE  SelfInv'
<1>1. /\ UNCHANGED <<windows, released, aged, nightly, exe, staged, items, ledger, dirs, config, leaving>>
      /\ Removed' /\ NothingLost'
    BY PlacedStays DEF upstream, binary, placed
<1>2. SelfTypeOK'
    BY <1>1 DEF SelfInv, SelfTypeOK
<1>3. RunsAgain'
    BY <1>1 DEF SelfInv, RunsAgain
<1>4. UpdateChecked'
  <2>1. CASE update' = NoUpdate
    BY <2>1 DEF UpdateChecked
  <2> QED BY <2>1
<1> QED BY <1>1, <1>2, <1>3, <1>4 DEF SelfInv

LEMMA UpstreamKeeps ==
    ASSUME SelfInv, NewRelease \/ ReleaseAges \/ UploadNightly
    PROVE  SelfInv'
<1>1. UNCHANGED <<windows, exe, staged, update>> /\ UNCHANGED placed
    BY DEF NewRelease, ReleaseAges, UploadNightly, binary
<1>2. Removed' /\ NothingLost' /\ UNCHANGED <<items, ledger, dirs, config, leaving>>
    BY <1>1, PlacedStays
<1>3. released' \in Nat /\ aged' \in Nat /\ nightly' \in [Assets \cup {"commit"} -> Nat]
  <2>1. released \in Nat /\ aged \in Nat /\ nightly \in [Assets \cup {"commit"} -> Nat] /\ MaxNightlies \in Nat
    BY SelfAssumption DEF SelfInv, SelfTypeOK
  <2>2. CASE NewRelease \/ ReleaseAges
    BY <2>1, <2>2 DEF NewRelease, ReleaseAges
  <2>3. CASE UploadNightly
    <3>1. PICK n \in 1..MaxNightlies, f \in Assets \cup {"commit"} : nightly' = [nightly EXCEPT ![f] = n]
        BY <2>3 DEF UploadNightly
    <3>2. n \in Nat
        BY <2>1, <3>1
    <3> QED BY <2>1, <2>3, <3>1, <3>2 DEF UploadNightly
  <2> QED BY <2>2, <2>3
<1>4. SelfTypeOK'
    BY <1>1, <1>2, <1>3 DEF SelfInv, SelfTypeOK
<1>5. UpdateChecked' /\ RunsAgain'
    BY <1>1, <1>2 DEF SelfInv, UpdateChecked, Verified, RunsAgain
<1> QED BY <1>2, <1>4, <1>5 DEF SelfInv

LEMMA UpdateKeeps ==
    ASSUME SelfInv, NEW flag \in Flags, Update(flag)
    PROVE  SelfInv'
<1> DEFINE found == FoundRelease(flag, exe.of)
           now == [at |-> "bin", flag |-> flag, running |-> exe.of, found |-> found, held |-> aged < released,
                   bin |-> 0, sig |-> 0, sums |-> 0, sumsSig |-> 0]
<1>1. /\ update' = now /\ found # exe.of /\ exe # Gone /\ leaving.at = "idle"
      /\ UNCHANGED <<upstream, binary, placed>>
    BY DEF Update, NoneRuns
<1>2. exe.of \in Versions /\ aged \in Nat /\ released \in Nat /\ nightly.commit \in Nat /\ flag.n \in Nat
  <2>1. exe.of \in Versions /\ aged \in Nat /\ released \in Nat
    BY <1>1 DEF SelfInv, SelfTypeOK, Binaries
  <2>2. nightly["commit"] \in Nat
    BY DEF SelfInv, SelfTypeOK
  <2>3. flag.n \in Nat
    BY SelfAssumption DEF Flags
  <2> QED BY <2>1, <2>2, <2>3
<1>3. found \in Versions /\ (flag.kind = "nightly" => found.kind = "nightly")
  <2>1. CASE flag.kind = "nightly"
    BY <1>2, <2>1 DEF FoundRelease, Nightly, Versions
  <2>2. CASE flag.kind = "to"
    BY <1>2, <2>2 DEF FoundRelease, Release, Versions
  <2>3. CASE flag.kind \notin {"nightly", "to"}
    BY <1>2, <2>3 DEF FoundRelease, OldEnoughRelease, Release, Versions
  <2> QED BY <2>1, <2>2, <2>3
<1>4. ASSUME flag.kind \in {"none", "release"}, exe.of.kind = "release", aged < released
      PROVE  found.n > exe.of.n
  <2>1. found = OldEnoughRelease(exe.of)
    BY <1>2, <1>4 DEF FoundRelease
  <2>2. found = Release(aged) /\ ~(aged <= exe.of.n)
    BY <1>1, <1>4, <2>1 DEF OldEnoughRelease
  <2> QED BY <1>2, <2>2 DEF Release, Versions
<1> HIDE DEF found
<1>5. now \in Updates
    BY <1>2, <1>3 DEF Updates, Assets
<1>6. UNCHANGED <<exe, leaving>>
    BY <1>1 DEF binary, placed
<1>7. UpdateChecked'
    BY <1>1, <1>3, <1>4, <1>6 DEF UpdateChecked
<1> QED BY <1>1, <1>5, <1>7, UpdateGoesOn

LEMMA FetchKeeps ==
    ASSUME SelfInv, Fetch
    PROVE  SelfInv'
<1>1. update.at \in Assets /\ UNCHANGED <<upstream, binary, placed>>
    BY DEF Fetch
<1>2. update # NoUpdate /\ update \in Updates /\ update.found \in Versions
    BY <1>1, UpdateType DEF SelfInv, Assets
<1>3. Served(update.at) \in Nat
  <2>1. nightly[update.at] \in Nat /\ update.found.n \in Nat
    BY <1>1, <1>2 DEF SelfInv, SelfTypeOK, Versions
  <2>2. update.found.n \in Misplaced => update.found.n - 1 \in Nat
    BY <2>1, SelfAssumption
  <2> QED BY <2>1, <2>2 DEF Served
<1> PICK b \in Nat : b = Served(update.at)
    BY <1>3
<1>4. AfterAsset(update.at) \in {"sig", "verify", "sumsSig", "check"}
    BY <1>1 DEF AfterAsset, Assets
<1> PICK next \in {"sig", "verify", "sumsSig", "check"} : next = AfterAsset(update.at)
    BY <1>4
<1>5. update' = [update EXCEPT ![update.at] = b, !.at = next]
    BY DEF Fetch
<1>6. /\ update' \in Updates /\ update'.at = next
      /\ update'.found = update.found /\ update'.running = update.running /\ update'.flag = update.flag /\ update'.held = update.held
  <2>1. CASE update.at = "bin"
    BY <1>2, <1>5, <2>1 DEF Updates, Assets
  <2>2. CASE update.at = "sig"
    BY <1>2, <1>5, <2>2 DEF Updates, Assets
  <2>3. CASE update.at = "sums"
    BY <1>2, <1>5, <2>3 DEF Updates, Assets
  <2>4. CASE update.at = "sumsSig"
    BY <1>2, <1>5, <2>4 DEF Updates, Assets
  <2> QED BY <1>1, <2>1, <2>2, <2>3, <2>4 DEF Assets
<1>7. UNCHANGED <<windows, exe, staged, leaving>>
    BY <1>1 DEF upstream, binary, placed
<1>8. UpdateChecked'
    BY <1>2, <1>6, <1>7 DEF SelfInv, UpdateChecked
<1> QED BY <1>1, <1>6, <1>8, UpdateGoesOn

(* An update that only comes to its next step. *)
LEMMA UpdateSteps ==
    ASSUME SelfInv, update.at # "idle", UNCHANGED <<upstream, binary, placed>>,
           NEW at \in {"sums", "stage"}, update' = [update EXCEPT !.at = at],
           at = "stage" => Verified
    PROVE  SelfInv'
<1>1. update # NoUpdate /\ update \in Updates
    BY UpdateType DEF SelfInv
<1>2. /\ update' \in Updates /\ update'.at = at /\ update'.bin = update.bin
      /\ update'.found = update.found /\ update'.running = update.running /\ update'.flag = update.flag /\ update'.held = update.held
    BY <1>1 DEF Updates, Assets
<1>3. UNCHANGED <<windows, exe, staged, leaving>>
    BY DEF upstream, binary, placed
<1>4. UpdateChecked'
    BY <1>1, <1>2, <1>3 DEF SelfInv, UpdateChecked, Verified
<1> QED BY <1>2, <1>4, UpdateGoesOn

LEMMA VerifyBinaryKeeps ==
    ASSUME SelfInv, VerifyBinary
    PROVE  SelfInv'
<1>1. /\ update.at # "idle" /\ VerifyDetached /\ UNCHANGED <<upstream, binary, placed>>
      /\ update' = [update EXCEPT !.at = IF update.found.kind = "nightly" THEN "sums" ELSE "stage"]
    BY DEF VerifyBinary
<1>2. CASE update.found.kind = "nightly"
    BY <1>1, <1>2, UpdateSteps
<1>3. CASE update.found.kind # "nightly"
  <2>1. Verified
    BY <1>1, <1>3 DEF VerifyDetached, Verified
  <2> QED BY <1>1, <1>3, <2>1, UpdateSteps
<1> QED BY <1>2, <1>3

LEMMA CheckNightlyKeeps ==
    ASSUME SelfInv, CheckNightly
    PROVE  SelfInv'
<1>1. /\ update.at # "idle" /\ NightlyHolds /\ UNCHANGED <<upstream, binary, placed>>
      /\ update' = [update EXCEPT !.at = "stage"]
    BY DEF CheckNightly
<1>2. Verified
    BY <1>1 DEF NightlyHolds, Verified
<1> QED BY <1>1, <1>2, UpdateSteps

LEMMA UpdateStops ==
    ASSUME SelfInv, StopUpdate
    PROVE  SelfInv'
BY UpdateGoesOn DEF StopUpdate

(* A step of swapBinary: what it needs to say of the binaries. *)
LEMMA SwapGoesOn ==
    ASSUME SelfInv, UNCHANGED <<upstream, placed>>, update' = NoUpdate \/ (update' \in Updates /\ UpdateChecked'),
           exe' \in Binaries \cup {Gone}, staged' \in Binaries \cup {Gone},
           exe' # Gone => exe'.whole, ~windows => exe' = exe \/ exe' # Gone
    PROVE  SelfInv'
<1>1. /\ UNCHANGED <<windows, released, aged, nightly, items, ledger, dirs, config, leaving>>
      /\ Removed' /\ NothingLost'
    BY PlacedStays DEF upstream, placed
<1>2. SelfTypeOK'
    BY <1>1 DEF SelfInv, SelfTypeOK
<1>3. RunsAgain'
    BY <1>1 DEF SelfInv, RunsAgain
<1>4. UpdateChecked'
  <2>1. CASE update' = NoUpdate
    BY <2>1 DEF UpdateChecked
  <2> QED BY <2>1
<1> QED BY <1>1, <1>2, <1>3, <1>4 DEF SelfInv

LEMMA StageKeeps ==
    ASSUME SelfInv, Stage
    PROVE  SelfInv'
<1>1. /\ update.at = "stage" /\ UNCHANGED <<upstream, placed>> /\ UNCHANGED exe
      /\ staged' = [of |-> [update.found EXCEPT !.n = update.bin], whole |-> FALSE]
      /\ update' = [update EXCEPT !.at = "copy"]
    BY DEF Stage
<1>2. update # NoUpdate /\ update \in Updates /\ update.found \in Versions
    BY <1>1, UpdateType DEF SelfInv
<1>3. Verified
    BY <1>1, <1>2 DEF SelfInv, UpdateChecked
<1>4. [update.found EXCEPT !.n = update.bin] = update.found
    BY <1>2, <1>3 DEF Versions, Verified
<1>5. staged' = [of |-> update.found, whole |-> FALSE] /\ staged' \in Binaries
    BY <1>1, <1>2, <1>4 DEF Binaries
<1>6. /\ update' \in Updates /\ update'.at = "copy" /\ update'.bin = update.bin
      /\ update'.found = update.found /\ update'.running = update.running /\ update'.flag = update.flag /\ update'.held = update.held
    BY <1>1, <1>2 DEF Updates
<1>7. UNCHANGED <<windows, exe, leaving>>
    BY <1>1 DEF upstream, placed
<1>8. UpdateChecked'
    BY <1>2, <1>3, <1>5, <1>6, <1>7 DEF SelfInv, UpdateChecked, Verified
<1>9. exe \in Binaries \cup {Gone} /\ (exe # Gone => exe.whole)
    BY DEF SelfInv, SelfTypeOK, RunsAgain
<1> QED BY <1>1, <1>5, <1>6, <1>8, <1>9, SwapGoesOn

LEMMA CopyStagedKeeps ==
    ASSUME SelfInv, CopyStaged
    PROVE  SelfInv'
<1>1. /\ update.at = "copy" /\ UNCHANGED <<upstream, placed>> /\ UNCHANGED exe
      /\ \/ staged' = [staged EXCEPT !.whole = TRUE] /\ update' = [update EXCEPT !.at = IF windows THEN "aside" ELSE "rename"]
         \/ staged' = Gone /\ update' = NoUpdate
    BY DEF CopyStaged
<1>2. update # NoUpdate /\ update \in Updates /\ update.found \in Versions
    BY <1>1, UpdateType DEF SelfInv
<1>3. exe \in Binaries \cup {Gone} /\ (exe # Gone => exe.whole)
    BY DEF SelfInv, SelfTypeOK, RunsAgain
<1>4. CASE staged' = Gone /\ update' = NoUpdate
    BY <1>1, <1>3, <1>4, SwapGoesOn
<1>5. CASE staged' = [staged EXCEPT !.whole = TRUE] /\ update' = [update EXCEPT !.at = IF windows THEN "aside" ELSE "rename"]
  <2>1. staged = [of |-> update.found, whole |-> FALSE] /\ Verified
    BY <1>1, <1>2 DEF SelfInv, UpdateChecked
  <2>2. staged' = [of |-> update.found, whole |-> TRUE] /\ staged' \in Binaries
    BY <1>2, <1>5, <2>1 DEF Binaries
  <2>3. /\ update' \in Updates /\ update'.at = (IF windows THEN "aside" ELSE "rename") /\ update'.bin = update.bin
        /\ update'.found = update.found /\ update'.running = update.running /\ update'.flag = update.flag /\ update'.held = update.held
    BY <1>2, <1>5 DEF Updates
  <2>4. UNCHANGED <<windows, exe, leaving>>
    BY <1>1 DEF upstream, placed
  <2>5. UpdateChecked'
    BY <1>2, <2>1, <2>2, <2>3, <2>4 DEF SelfInv, UpdateChecked, Verified
  <2> QED BY <1>1, <1>3, <2>2, <2>3, <2>5, SwapGoesOn
<1> QED BY <1>1, <1>4, <1>5

LEMMA AsideKeeps ==
    ASSUME SelfInv, Aside
    PROVE  SelfInv'
<1>1. /\ update.at = "aside" /\ UNCHANGED <<upstream, placed>> /\ UNCHANGED staged
      /\ exe' = Gone /\ update' = [update EXCEPT !.at = "rename"]
    BY DEF Aside
<1>2. update # NoUpdate /\ update \in Updates
    BY <1>1, UpdateType DEF SelfInv
<1>3. windows /\ Verified /\ staged = [of |-> update.found, whole |-> TRUE] /\ staged \in Binaries \cup {Gone}
    BY <1>1, <1>2 DEF SelfInv, SelfTypeOK, UpdateChecked
<1>4. /\ update' \in Updates /\ update'.at = "rename" /\ update'.bin = update.bin
      /\ update'.found = update.found /\ update'.running = update.running /\ update'.flag = update.flag /\ update'.held = update.held
    BY <1>1, <1>2 DEF Updates
<1>5. UNCHANGED <<windows, leaving>>
    BY <1>1 DEF upstream, placed
<1>6. UpdateChecked'
    BY <1>1, <1>2, <1>3, <1>4, <1>5 DEF SelfInv, UpdateChecked, Verified
<1> QED BY <1>1, <1>3, <1>4, <1>6, SwapGoesOn

LEMMA SwapBinaryKeeps ==
    ASSUME SelfInv, SwapBinary
    PROVE  SelfInv'
<1>1. /\ update.at = "rename" /\ UNCHANGED <<upstream, placed>>
      /\ exe' = staged /\ staged' = Gone /\ update' = [update EXCEPT !.at = "pages"]
    BY DEF SwapBinary
<1>2. update # NoUpdate /\ update \in Updates /\ update.found \in Versions
    BY <1>1, UpdateType DEF SelfInv
<1>3. Verified /\ staged = [of |-> update.found, whole |-> TRUE]
    BY <1>1, <1>2 DEF SelfInv, UpdateChecked
<1>4. exe' = [of |-> update.found, whole |-> TRUE] /\ exe' \in Binaries /\ exe' # Gone
  <2>1. exe' = [of |-> update.found, whole |-> TRUE] /\ exe' \in Binaries
    BY <1>1, <1>2, <1>3 DEF Binaries
  <2> QED BY <2>1, SelfAssumption
<1>5. /\ update' \in Updates /\ update'.at = "pages" /\ update'.bin = update.bin
      /\ update'.found = update.found /\ update'.running = update.running /\ update'.flag = update.flag /\ update'.held = update.held
    BY <1>1, <1>2 DEF Updates
<1>6. UNCHANGED <<windows, leaving>>
    BY <1>1 DEF upstream, placed
<1>7. UpdateChecked'
    BY <1>2, <1>3, <1>4, <1>5, <1>6 DEF SelfInv, UpdateChecked, Verified
<1> QED BY <1>1, <1>4, <1>5, <1>7, SwapGoesOn

LEMMA RefreshManPagesKeeps ==
    ASSUME SelfInv, RefreshManPages
    PROVE  SelfInv'
<1>1. UNCHANGED <<upstream, placed>> /\ UNCHANGED exe /\ UNCHANGED staged /\ update' = NoUpdate
    BY DEF RefreshManPages
<1>2. exe \in Binaries \cup {Gone} /\ (exe # Gone => exe.whole) /\ staged \in Binaries \cup {Gone}
    BY DEF SelfInv, SelfTypeOK, RunsAgain
<1> QED BY <1>1, <1>2, SwapGoesOn

(***************************************************************************)
(* self uninstall.                                                         *)
(***************************************************************************)

(* While an uninstall runs no update does. *)
LEMMA UninstallType ==
    ASSUME SelfInv, leaving.at # "idle"
    PROVE  /\ leaving \in Uninstalls /\ update = NoUpdate
           /\ leaving.keep \in BOOLEAN /\ leaving.system \in BOOLEAN /\ leaving.lists \subseteq ListFiles
<1>1. leaving \in Uninstalls
    BY DEF SelfInv, SelfTypeOK
<1>2. update = NoUpdate
    BY DEF SelfInv, UpdateChecked
<1> QED BY <1>1, <1>2 DEF Uninstalls

(* A step of an uninstall: what it needs to say of what it has left. *)
LEMMA UninstallGoesOn ==
    ASSUME SelfInv, UNCHANGED upstream, UNCHANGED staged, update = NoUpdate, update' = NoUpdate,
           exe' \in {exe, Gone}, dirs' \subseteq dirs, items' \subseteq items, config' \subseteq config,
           leaving'.at # "idle" => leaving' \in Uninstalls,
           Removed', NothingLost',
           exe' # exe => items' \subseteq System /\ dirs' \subseteq {"root"} /\ config' \cap OwnConfig = {}
    PROVE  SelfInv'
<1>1. UNCHANGED <<windows, released, aged, nightly>>
    BY DEF upstream
<1>2. SelfTypeOK'
    BY <1>1 DEF SelfInv, SelfTypeOK
<1>3. UpdateChecked'
    BY DEF UpdateChecked
<1>4. RunsAgain'
    BY <1>1 DEF SelfInv, RunsAgain
<1> QED BY <1>2, <1>3, <1>4 DEF SelfInv

LEMMA UninstallKeeps ==
    ASSUME SelfInv, NEW keep \in BOOLEAN, NEW system \in BOOLEAN, Uninstall(keep, system)
    PROVE  SelfInv'
<1> DEFINE now == [at |-> "items", keep |-> keep, system |-> system, lists |-> config \cap ListFiles]
<1>1. /\ leaving' = now /\ update = NoUpdate /\ update' = NoUpdate /\ UNCHANGED upstream /\ UNCHANGED <<staged, exe>>
      /\ UNCHANGED <<items, ledger, dirs, config>>
    BY DEF Uninstall, NoneRuns, binary
<1>2. now \in Uninstalls /\ now.at = "items" /\ now.lists \subseteq config
    BY DEF Uninstalls
<1> HIDE DEF now
<1>3. Removed'
    BY <1>1, <1>2 DEF Removed
<1>4. NothingLost'
    BY <1>1, <1>2 DEF SelfInv, NothingLost
<1> QED BY <1>1, <1>2, <1>3, <1>4, UninstallGoesOn

LEMMA RemoveItemKeeps ==
    ASSUME SelfInv, NEW i \in Exposed, RemoveItem(i)
    PROVE  SelfInv'
<1>1. /\ leaving.at = "items" /\ leaving' = leaving /\ items' = items \ {i} /\ update' = update /\ UNCHANGED upstream
      /\ UNCHANGED <<staged, exe, ledger, dirs, config>>
    BY DEF RemoveItem, binary
<1>2. leaving \in Uninstalls /\ update = NoUpdate
    BY <1>1, UninstallType
<1>3. Removed' /\ NothingLost'
    BY <1>1 DEF SelfInv, Removed, NothingLost
<1> QED BY <1>1, <1>2, <1>3, UninstallGoesOn

LEMMA ForgetItemKeeps ==
    ASSUME SelfInv, NEW i \in Exposed, ForgetItem(i)
    PROVE  SelfInv'
<1>1. /\ leaving.at = "items" /\ leaving' = leaving /\ ledger' = ledger \ {i} /\ i \notin items /\ update' = update
      /\ UNCHANGED upstream /\ UNCHANGED <<staged, exe, items, dirs, config>>
    BY DEF ForgetItem, binary
<1>2. leaving \in Uninstalls /\ update = NoUpdate
    BY <1>1, UninstallType
<1>3. Removed' /\ NothingLost'
    BY <1>1 DEF SelfInv, Removed, NothingLost
<1> QED BY <1>1, <1>2, <1>3, UninstallGoesOn

(* A deletion comes to the next one and keeps what the user asked for. *)
LEMMA RemovesType ==
    ASSUME SelfInv, NEW at, at # "idle", NEW then \in {"items", "cache", "data", "root", "config", "binary", "man", "gone"},
           Removes(at, then)
    PROVE  /\ leaving.at = at /\ leaving' \in Uninstalls /\ leaving'.at = then /\ update = NoUpdate
           /\ leaving'.keep = leaving.keep /\ leaving'.lists = leaving.lists /\ leaving.lists \subseteq ListFiles
<1>1. leaving.at = at /\ leaving' = [leaving EXCEPT !.at = then]
    BY DEF Removes
<1>2. leaving \in Uninstalls /\ update = NoUpdate /\ leaving.lists \subseteq ListFiles
    BY <1>1, UninstallType
<1>3. leaving' \in Uninstalls /\ leaving'.at = then /\ leaving'.keep = leaving.keep /\ leaving'.lists = leaving.lists
    BY <1>1, <1>2 DEF Uninstalls
<1> QED BY <1>1, <1>2, <1>3

LEMMA ItemsGoneKeeps ==
    ASSUME SelfInv, ItemsGone
    PROVE  SelfInv'
<1>1. /\ Removes("items", "cache") /\ ledger \subseteq Stay /\ update' = update /\ UNCHANGED upstream
      /\ UNCHANGED <<staged, exe, items, ledger, dirs, config>>
    BY DEF ItemsGone, binary
<1>2. /\ leaving.at = "items" /\ leaving' \in Uninstalls /\ leaving'.at = "cache" /\ update = NoUpdate
      /\ leaving'.keep = leaving.keep /\ leaving'.lists = leaving.lists
    BY <1>1, RemovesType
<1>3. items \subseteq System
    BY <1>1 DEF SelfInv, NothingLost, Stay
<1>4. Removed' /\ NothingLost'
    BY <1>1, <1>2, <1>3 DEF SelfInv, Removed, NothingLost
<1> QED BY <1>1, <1>2, <1>4, UninstallGoesOn

LEMMA RemoveCacheKeeps ==
    ASSUME SelfInv, RemoveCache
    PROVE  SelfInv'
<1>1. /\ Removes("cache", "data") /\ dirs' = dirs \ {"cache"} /\ update' = update /\ UNCHANGED upstream
      /\ UNCHANGED <<staged, exe, items, ledger, config>>
    BY DEF RemoveCache, binary
<1>2. /\ leaving.at = "cache" /\ leaving' \in Uninstalls /\ leaving'.at = "data" /\ update = NoUpdate
      /\ leaving'.keep = leaving.keep /\ leaving'.lists = leaving.lists
    BY <1>1, RemovesType
<1>3. Removed' /\ NothingLost'
    BY <1>1, <1>2 DEF SelfInv, Removed, NothingLost
<1> QED BY <1>1, <1>2, <1>3, UninstallGoesOn

LEMMA RemoveDataKeeps ==
    ASSUME SelfInv, RemoveData
    PROVE  SelfInv'
<1>1. /\ Removes("data", "root") /\ dirs' = dirs \ {"data"} /\ ledger' = {} /\ update' = update /\ UNCHANGED upstream
      /\ UNCHANGED <<staged, exe, items, config>>
    BY DEF RemoveData, binary
<1>2. /\ leaving.at = "data" /\ leaving' \in Uninstalls /\ leaving'.at = "root" /\ update = NoUpdate
      /\ leaving'.keep = leaving.keep /\ leaving'.lists = leaving.lists
    BY <1>1, RemovesType
<1>3. Removed' /\ NothingLost'
    BY <1>1, <1>2 DEF SelfInv, Removed, NothingLost
<1> QED BY <1>1, <1>2, <1>3, UninstallGoesOn

LEMMA RemoveSharedRootKeeps ==
    ASSUME SelfInv, RemoveSharedRoot
    PROVE  SelfInv'
<1>1. /\ Removes("root", "config") /\ dirs' \subseteq dirs \ {"files of root"} /\ update' = update /\ UNCHANGED upstream
      /\ UNCHANGED <<staged, exe, items, ledger, config>>
    BY DEF RemoveSharedRoot, binary
<1>2. /\ leaving.at = "root" /\ leaving' \in Uninstalls /\ leaving'.at = "config" /\ update = NoUpdate
      /\ leaving'.keep = leaving.keep /\ leaving'.lists = leaving.lists
    BY <1>1, RemovesType
<1>3. Removed' /\ NothingLost'
    BY <1>1, <1>2 DEF SelfInv, Removed, NothingLost
<1> QED BY <1>1, <1>2, <1>3, UninstallGoesOn

LEMMA RemoveConfigKeeps ==
    ASSUME SelfInv, RemoveConfig
    PROVE  SelfInv'
<1>1. /\ Removes("config", "binary") /\ config' = config \ (OwnConfig \cup IF leaving.keep THEN {} ELSE ListFiles)
      /\ update' = update /\ UNCHANGED upstream /\ UNCHANGED <<staged, exe, items, ledger, dirs>>
    BY DEF RemoveConfig, binary
<1>2. /\ leaving.at = "config" /\ leaving' \in Uninstalls /\ leaving'.at = "binary" /\ update = NoUpdate
      /\ leaving'.keep = leaving.keep /\ leaving'.lists = leaving.lists /\ leaving.lists \subseteq ListFiles
    BY <1>1, RemovesType
<1>3. "the user's" \in config' /\ config' \cap OwnConfig = {} /\ config' \subseteq config
    BY <1>1 DEF SelfInv, NothingLost, OwnConfig, ListFiles
<1>4. leaving.keep => leaving.lists \subseteq config'
    BY <1>1, <1>2 DEF SelfInv, Removed, OwnConfig, ListFiles
<1>5. Removed' /\ NothingLost'
    BY <1>1, <1>2, <1>3, <1>4 DEF SelfInv, Removed, NothingLost
<1> QED BY <1>1, <1>2, <1>3, <1>5, UninstallGoesOn

LEMMA RemoveBinaryKeeps ==
    ASSUME SelfInv, RemoveBinary
    PROVE  SelfInv'
<1>1. /\ Removes("binary", "man") /\ exe' = Gone /\ update' = update /\ UNCHANGED upstream
      /\ UNCHANGED <<staged, items, ledger, dirs, config>>
    BY DEF RemoveBinary, binary
<1>2. /\ leaving.at = "binary" /\ leaving' \in Uninstalls /\ leaving'.at = "man" /\ update = NoUpdate
      /\ leaving'.keep = leaving.keep /\ leaving'.lists = leaving.lists
    BY <1>1, RemovesType
<1>3. items \subseteq System /\ config \cap OwnConfig = {} /\ dirs \subseteq {"root"}
    BY <1>2 DEF SelfInv, Removed, SelfTypeOK
<1>4. Removed' /\ NothingLost'
    BY <1>1, <1>2 DEF SelfInv, Removed, NothingLost
<1> QED BY <1>1, <1>2, <1>3, <1>4, UninstallGoesOn

LEMMA RemoveManPagesKeeps ==
    ASSUME SelfInv, RemoveManPages
    PROVE  SelfInv'
<1>1. /\ Removes("man", "gone") /\ update' = update /\ UNCHANGED upstream
      /\ UNCHANGED <<exe, staged, items, ledger, dirs, config>>
    BY DEF RemoveManPages, Removes
<1>2. /\ leaving.at = "man" /\ leaving' \in Uninstalls /\ leaving'.at = "gone" /\ update = NoUpdate
      /\ leaving'.keep = leaving.keep /\ leaving'.lists = leaving.lists
    BY <1>1, RemovesType
<1>3. Removed' /\ NothingLost'
    BY <1>1, <1>2 DEF SelfInv, Removed, NothingLost
<1> QED BY <1>1, <1>2, <1>3, UninstallGoesOn

LEMMA EndUninstallKeeps ==
    ASSUME SelfInv, EndUninstall
    PROVE  SelfInv'
<1>1. /\ leaving.at # "idle" /\ leaving'.at = "idle" /\ update' = update /\ UNCHANGED upstream
      /\ UNCHANGED <<exe, staged, items, dirs, config>>
      /\ ledger' = ledger \/ (leaving.at = "data" /\ ledger' = {})
    BY DEF EndUninstall, binary
<1>2. update = NoUpdate
    BY <1>1, UninstallType
<1>3. Removed' /\ NothingLost'
    BY <1>1 DEF SelfInv, Removed, NothingLost
<1> QED BY <1>1, <1>2, <1>3, UninstallGoesOn

(* An update replaces the binary by exactly the version it found, never by *)
(* an older one; wherever an update or an uninstall stops, the command can *)
(* be run again and nothing placed is lost (runSelfUpdate, swapBinary,     *)
(* runUninstall), for any releases, nightlies and items.                   *)
THEOREM SelfKeeps == SelfSpec => []SelfHolds
<1>1. SelfInit => SelfInv
  <2> SUFFICES ASSUME SelfInit PROVE SelfInv
    OBVIOUS
  <2>1. exe \in Binaries /\ exe.whole /\ exe # Gone
    <3>1. PICK v \in {Release(1), Nightly(0), [kind |-> "dev", n |-> 0]} : exe = [of |-> v, whole |-> TRUE]
        BY DEF SelfInit
    <3>2. v \in Versions
        BY <3>1 DEF Versions, Release, Nightly
    <3>3. exe \in Binaries /\ exe.whole
        BY <3>1, <3>2 DEF Binaries
    <3> QED BY <3>3, SelfAssumption
  <2>2. leaving.at = "idle"
    BY DEF SelfInit
  <2>3. SelfTypeOK
    BY <2>1, <2>2 DEF SelfInit, SelfTypeOK
  <2>4. NothingLost
    BY <2>2 DEF SelfInit, NothingLost
  <2> QED BY <2>1, <2>2, <2>3, <2>4 DEF SelfInit, SelfInv, UpdateChecked, Removed, RunsAgain
<1>2. SelfInv /\ [UpdateNext \/ UninstallNext]_selfVars => SelfInv'
  <2> SUFFICES ASSUME SelfInv, [UpdateNext \/ UninstallNext]_selfVars PROVE SelfInv'
    OBVIOUS
  <2>1. CASE UpdateNext
    <3>1. CASE NewRelease \/ ReleaseAges \/ UploadNightly
        BY <3>1, UpstreamKeeps
    <3>2. CASE \E flag \in Flags : Update(flag)
        BY <3>2, UpdateKeeps
    <3>3. CASE Fetch \/ VerifyBinary \/ CheckNightly
        BY <3>3, FetchKeeps, VerifyBinaryKeeps, CheckNightlyKeeps
    <3>4. CASE RefuseUpdate \/ EndUpdate
        BY <3>4, UpdateStops DEF RefuseUpdate, EndUpdate
    <3>5. CASE Stage \/ CopyStaged \/ Aside \/ SwapBinary \/ RefreshManPages
        BY <3>5, StageKeeps, CopyStagedKeeps, AsideKeeps, SwapBinaryKeeps, RefreshManPagesKeeps
    <3> QED BY <2>1, <3>1, <3>2, <3>3, <3>4, <3>5 DEF UpdateNext
  <2>2. CASE UninstallNext
    <3>1. ASSUME NEW keep \in BOOLEAN, NEW system \in BOOLEAN, Uninstall(keep, system) PROVE SelfInv'
        BY <3>1, UninstallKeeps
    <3>2. CASE \E i \in Exposed : RemoveItem(i) \/ ForgetItem(i)
        BY <3>2, RemoveItemKeeps, ForgetItemKeeps
    <3>3. CASE ItemsGone \/ RemoveCache \/ RemoveData \/ RemoveSharedRoot \/ RemoveConfig
        BY <3>3, ItemsGoneKeeps, RemoveCacheKeeps, RemoveDataKeeps, RemoveSharedRootKeeps, RemoveConfigKeeps
    <3>4. CASE RemoveBinary \/ RemoveManPages \/ EndUninstall
        BY <3>4, RemoveBinaryKeeps, RemoveManPagesKeeps, EndUninstallKeeps
    <3> QED BY <2>2, <3>1, <3>2, <3>3, <3>4 DEF UninstallNext
  <2>3. CASE UNCHANGED selfVars
    <3>1. UNCHANGED <<upstream, binary, placed>> /\ update' = update
        BY <2>3 DEF selfVars
    <3>2. UpdateChecked'
        BY <3>1 DEF SelfInv, UpdateChecked, Verified, upstream, binary, placed
    <3> QED BY <3>1, <3>2, UpdateGoesOn DEF SelfInv, SelfTypeOK
  <2> QED BY <2>1, <2>2, <2>3
<1>3. SelfInv => SelfHolds
  <2> SUFFICES ASSUME SelfInv PROVE ReplacedIsFound /\ NeverBack
    BY DEF SelfInv, SelfHolds
  <2>1. update.at = "pages" => update # NoUpdate
    BY DEF NoUpdate
  <2> QED BY <2>1 DEF SelfInv, UpdateChecked, Verified, ReplacedIsFound, NeverBack
<1> QED BY <1>1, <1>2, <1>3, PTL DEF SelfSpec

-----------------------------------------------------------------------------
(***************************************************************************)
(* NeverStale and AttestedVerifies hold for any number of commands and     *)
(* packages, whatever an older oku left under cache/api, which answers gc  *)
(* deletes and which requests fail.                                        *)
(*                                                                         *)
(* SeenNow is what makes an answer fresh: a command that has begun has     *)
(* seen what the host serves now, so that an answer that the ETag confirms *)
(* is one of those.  An answer that is used without a request is that of a *)
(* file at a full SHA (KeptTrue), and a refusal rests on an answer of this *)
(* command (VerifyTrue).                                                   *)
(***************************************************************************)
\* A command has begun when it has seen what the host serves.
Begun(c) == seen[c][File] # {}

\* The variables are functions over the commands and the urls.
LookupShape ==
    /\ DOMAIN request = Commands /\ DOMAIN seen = Commands /\ DOMAIN kept = Keys
    /\ DOMAIN listing = Commands /\ DOMAIN package = Commands /\ DOMAIN verify = Commands
    /\ \A c \in Commands : DOMAIN request[c] = URLs /\ DOMAIN seen[c] = URLs /\ DOMAIN package[c] = Packages

\* What a command that began has seen at a url has what the host serves there now.
SeenNow == \A c \in Commands, k \in URLs :
    /\ seen[c][k] = {} <=> ~Begun(c)
    /\ Begun(c) => Doc(k) \in seen[c][k]

\* The file at a full SHA is always the same, the attestations are a number, and the header names a page.
SeenTypes ==
    /\ attested \in 0..2 /\ releases \in Seq(Nat)
    /\ \A c \in Commands, k \in URLs : \A d \in seen[c][k] : d.link \in Int
    /\ \A c \in Commands : /\ seen[c][File] \subseteq {Doc(File)}
                           /\ \A d \in seen[c][Attested] : d.items[1] \in 0..2

\* Before it begins, a command asks for nothing.
Before == \A c \in Commands : ~Begun(c) =>
    /\ \A k \in URLs : request[c][k] = Idle
    /\ listing[c].by = None /\ verify[c].at = "off"
    /\ \A p \in Packages : package[c][p].at = "off"

AnswersSeen == \A c \in Commands, k \in URLs :
    request[c][k].at \in {"body", "done"} => request[c][k].doc \in seen[c][k]

KeptTrue ==
    /\ Loaded(File) # None => Loaded(File).doc = Doc(File)
    /\ Loaded(Bundles) # None => Loaded(Bundles).doc.items[1] \in 0..2

\* Where verifyAttestations is, and the answer that a second look rests on.
VerifyTrue == \A c \in Commands :
    /\ verify[c].at = "asks" => verify[c].fresh \in BOOLEAN
    /\ verify[c].at = "found" =>
         /\ verify[c].n \in 0..2 /\ verify[c].fresh \in BOOLEAN
         /\ verify[c].fresh => \E d \in seen[c][Attested] : d.items[1] = verify[c].n
    /\ verify[c].at = "refused" =>
         (\E d \in seen[c][Attested] : d.items[1] < 2) \/ request[c][Attested].at = "failed"

LookupInv ==
    LookupShape /\ SeenNow /\ SeenTypes /\ Before /\ AnswersSeen /\ KeptTrue /\ VerifyTrue

(* The urls that are no pages, and the size of those that are. *)
LEMMA URLsAre ==
    /\ File \in URLs /\ Attested \in URLs /\ Bundles \notin URLs /\ File \in Keys /\ Bundles \in Keys
    /\ URLs \subseteq Keys /\ File # Attested /\ File # Bundles
    /\ \A k \in URLs \ {File, Attested} : k.size \in Nat \ {0}
<1>1. FirstSize \in Nat \ {0} /\ PageSize \in Nat \ {0}
  BY LookupAssumption
<1>2. FirstSize # 0 /\ PageSize # 0
  BY <1>1
<1>3. \A k \in Pages(PageSize) : k.size = PageSize
  BY DEF Pages
<1>4. Bundles.size = 0 /\ Bundles.page = 2 /\ File.size = 0 /\ File.page = 0 /\ Attested.page = 1
  BY DEF Bundles, File, Attested
<1>5. Bundles \notin Pages(PageSize) /\ Bundles # [size |-> FirstSize, page |-> 1]
  BY <1>2, <1>3, <1>4
<1>6. Bundles # File /\ Bundles # Attested /\ File # Attested
  BY <1>4
<1>7. \A k \in URLs \ {File, Attested} : k.size \in Nat \ {0}
  BY <1>1, <1>3 DEF URLs
<1> QED BY <1>5, <1>6, <1>7 DEF URLs, Keys

LEMMA DocStays ==
    ASSUME UNCHANGED <<releases, attested, host>>, NEW k
    PROVE  Doc(k)' = Doc(k)
BY DEF Doc, Link, PageCount

LEMMA DocOf ==
    /\ Doc(File)' = Doc(File)
    /\ Doc(Attested).items[1] = attested
BY URLsAre DEF Doc

LEMMA LinkOf == ASSUME releases \in Seq(Nat), NEW k \in URLs PROVE Doc(k).link \in Int
<1>1. CASE k \in {File, Attested}
  BY <1>1 DEF Doc
<1>2. CASE k \notin {File, Attested}
  <2>1. k.size \in Nat \ {0} /\ Len(releases) \in Nat
    BY <1>2, URLsAre
  <2>2. PageCount(k.size) \in Int
    BY <2>1 DEF PageCount
  <2>3. Link(k.size, k.page) \in Int
    BY <2>2 DEF Link
  <2> QED BY <1>2, <2>3 DEF Doc
<1> QED BY <1>1, <1>2

(* The documents after a step of the host. *)
LEMMA DocAfter ==
    ASSUME releases' \in Seq(Nat)
    PROVE  /\ Doc(Attested)'.items[1] = attested'
           /\ \A k \in URLs : Doc(k)'.link \in Int
<1>1. Attested # File
  BY URLsAre
<1>2. Doc(Attested)' = [items |-> <<attested'>>, link |-> 0]
  BY <1>1 DEF Doc
<1>3. ASSUME NEW k \in URLs PROVE Doc(k)'.link \in Int
  <2>1. CASE k \in {File, Attested}
    BY <2>1 DEF Doc
  <2>2. CASE k \notin {File, Attested}
    <3>1. k.size \in Nat \ {0} /\ Len(releases') \in Nat
      BY <2>2, URLsAre
    <3>2. PageCount(k.size)' \in Int
      BY <3>1 DEF PageCount
    <3>3. Link(k.size, k.page)' \in Int
      BY <3>2 DEF Link
    <3> QED BY <2>2, <3>3 DEF Doc
  <2> QED BY <2>1, <2>2
<1> QED BY <1>2, <1>3

(* A step of the request of a command for one url. *)
LEMMA RequestKeeps ==
    ASSUME LookupInv, NEW c \in Commands, NEW k \in URLs, Begun(c), NEW new,
           request' = [request EXCEPT ![c][k] = new],
           new.at \in {"body", "done"} => new.doc \in seen[c][k],
           request[c][k].at # "failed",
           UNCHANGED <<releases, attested, host, work, listing, package, verify, seen>>,
           DOMAIN kept' = Keys, KeptTrue'
    PROVE  LookupInv'
<1>1. DOMAIN request' = Commands /\ \A b \in Commands : DOMAIN request'[b] = URLs
  BY DEF LookupInv, LookupShape
<1>2. \A b \in Commands, u \in URLs : request'[b][u] = IF b = c /\ u = k THEN new ELSE request[b][u]
  BY DEF LookupInv, LookupShape
<1>3. LookupShape'
  BY <1>1 DEF LookupInv, LookupShape
<1>4. SeenNow' /\ SeenTypes'
  BY DocStays DEF LookupInv, SeenNow, SeenTypes, Begun
<1>5. Before'
  BY <1>2 DEF LookupInv, Before, Begun
<1>6. AnswersSeen'
  BY <1>2 DEF LookupInv, AnswersSeen
<1>7. VerifyTrue'
  BY <1>2, URLsAre DEF LookupInv, VerifyTrue
<1> QED BY <1>3, <1>4, <1>5, <1>6, <1>7 DEF LookupInv

LEMMA AskKeeps ==
    ASSUME LookupInv, NEW c \in Commands, Ask(c)
    PROVE  LookupInv'
<1>1. PICK k \in Needed(c) : Reads(c, k) \/ Replies(c, k) \/ Fails(c, k) \/ Keeps(c, k)
  BY DEF Ask
<1>2. Begun(c)
  BY <1>1 DEF Needed, LookupInv, Before
<1>3. k \in URLs
  <2>1. FirstPage \in URLs
    BY DEF FirstPage, URLs
  <2>2. ASSUME NEW all \in BOOLEAN, k \in Asked(c, all) PROVE k \in URLs
    <3>1. AllPages(c) \subseteq 1..PageLimit
      <4>1. PageSize \in Nat \ {0} /\ MaxReleases \in Nat /\ PageSize <= MaxReleases
        BY LookupAssumption
      <4>2. PageLimit \in Nat /\ 1 <= PageLimit
        BY <4>1 DEF PageLimit
      <4>3. CASE Page(c, 1).at # "done"
        BY <4>2, <4>3 DEF AllPages
      <4>4. CASE Page(c, 1).at = "done"
        <5> DEFINE end == LastPage(Page(c, 1).doc, PageSize)
        <5>1. end \in Int
          <6>1. PageSize # 0 /\ 1 \in 1..PageLimit
            BY <4>1, <4>2
          <6>2. [size |-> PageSize, page |-> 1] \in URLs
            BY <6>1 DEF URLs, Pages, PageLimit
          <6>3. Page(c, 1).doc \in seen[c][[size |-> PageSize, page |-> 1]]
            BY <4>4, <6>2 DEF Page, LookupInv, AnswersSeen
          <6>4. Page(c, 1).doc.link \in Int
            BY <6>2, <6>3 DEF LookupInv, SeenTypes
          <6> QED BY <6>4 DEF LastPage
        <5>2. CASE end > 1
          <6>1. AllPages(c) = 1 .. (IF end < PageLimit THEN end ELSE PageLimit)
            BY <4>4, <5>2 DEF AllPages
          <6> HIDE DEF end
          <6> QED BY <6>1, <4>2, <5>1
        <5>3. CASE ~(end > 1)
          BY <4>4, <5>3 DEF AllPages
        <5> QED BY <5>2, <5>3
      <4> QED BY <4>3, <4>4
    <3> QED BY <2>1, <2>2, <3>1 DEF Asked, URLs, Pages, PageLimit
  <2> QED BY <1>1, <2>2, URLsAre DEF Needed
<1>4. Doc(k) \in seen[c][k]
  BY <1>2, <1>3 DEF LookupInv, SeenNow
<1>5. CASE Reads(c, k)
  <2> DEFINE new == IF Fixed(k) /\ Loaded(k) # None THEN Done(Loaded(k).doc) ELSE [at |-> "sent", old |-> Loaded(k)]
  <2>1. /\ request[c][k] = Idle /\ request' = [request EXCEPT ![c][k] = new]
        /\ UNCHANGED <<releases, attested, host, work, kept, listing, package, verify, seen>>
    BY <1>5 DEF Reads
  <2>2. new.at \in {"body", "done"} => new.doc \in seen[c][k]
    <3>1. Fixed(k) /\ Loaded(k) # None => Loaded(k).doc = Doc(k)
      BY DEF Fixed, LookupInv, KeptTrue
    <3> QED BY <3>1, <1>4 DEF Done
  <2>3. request[c][k].at # "failed"
    BY <2>1 DEF Idle
  <2>4. DOMAIN kept' = Keys /\ KeptTrue'
    BY <2>1, DocOf DEF LookupInv, LookupShape, KeptTrue, Loaded
  <2> HIDE DEF new
  <2> QED BY <1>2, <1>3, <2>1, <2>2, <2>3, <2>4, RequestKeeps
<1>6. CASE Replies(c, k)
  <2> DEFINE old == request[c][k].old
             new == IF old # None /\ old.etag /\ old.doc = Doc(k) THEN Done(old.doc)
                    ELSE IF host.tagged \/ Fixed(k) THEN [at |-> "body", doc |-> Doc(k), etag |-> host.tagged]
                    ELSE Done(Doc(k))
  <2>1. request' = [request EXCEPT ![c][k] = new]
    BY <1>6 DEF Replies
  <2>4. new.at \in {"body", "done"} /\ new.doc = Doc(k)
    BY DEF Done
  <2>2. /\ request[c][k].at = "sent"
        /\ UNCHANGED <<releases, attested, host, work, kept, listing, package, verify, seen>>
    BY <1>6 DEF Replies
  <2>3. DOMAIN kept' = Keys /\ KeptTrue'
    BY <2>2, DocOf DEF LookupInv, LookupShape, KeptTrue, Loaded
  <2> HIDE DEF new
  <2> QED BY <1>2, <1>3, <1>4, <2>1, <2>2, <2>3, <2>4, RequestKeeps
<1>7. CASE Fails(c, k)
  <2>1. /\ request[c][k].at \in {"sent", "body"} /\ request' = [request EXCEPT ![c][k] = Failed]
        /\ UNCHANGED <<releases, attested, host, work, kept, listing, package, verify, seen>>
    BY <1>7 DEF Fails
  <2>2. DOMAIN kept' = Keys /\ KeptTrue'
    BY <2>1, DocOf DEF LookupInv, LookupShape, KeptTrue, Loaded
  <2>3. Failed.at = "failed"
    BY DEF Failed
  <2> QED BY <1>2, <1>3, <2>1, <2>2, <2>3, RequestKeeps
<1>8. CASE Keeps(c, k)
  <2> DEFINE doc == request[c][k].doc
  <2>1. /\ request[c][k].at = "body" /\ request' = [request EXCEPT ![c][k] = Done(doc)]
        /\ kept' = [kept EXCEPT ![k] = [doc |-> doc, etag |-> request[c][k].etag]]
        /\ UNCHANGED <<releases, attested, host, work, listing, package, verify, seen>>
    BY <1>8 DEF Keeps
  <2>2. doc \in seen[c][k]
    BY <1>3, <2>1 DEF LookupInv, AnswersSeen
  <2>3. KeptTrue'
    <3>1. Loaded(Bundles)' = Loaded(Bundles)
      BY <1>3, <2>1, URLsAre DEF LookupInv, LookupShape, Loaded
    <3>2. k # File => Loaded(File)' = Loaded(File)
      BY <1>3, <2>1, URLsAre DEF LookupInv, LookupShape, Loaded
    <3>3. k = File => doc = Doc(File)
      BY <2>2 DEF LookupInv, SeenTypes
    <3>4. k = File /\ Loaded(File)' # None => Loaded(File)' = [doc |-> doc, etag |-> request[c][k].etag]
      BY <1>3, <2>1, URLsAre DEF LookupInv, LookupShape, Loaded
    <3>5. k = File /\ Loaded(File)' # None => Loaded(File)'.doc = Doc(File)
      BY <3>3, <3>4
    <3>6. Loaded(File)' # None => Loaded(File)'.doc = Doc(File)
      BY <3>2, <3>5 DEF LookupInv, KeptTrue
    <3> QED BY <3>1, <3>6, DocOf DEF LookupInv, KeptTrue
  <2>4. DOMAIN kept' = Keys
    BY <2>1 DEF LookupInv, LookupShape
  <2>5. Done(doc).at = "done" /\ Done(doc).doc = doc
    BY DEF Done
  <2> HIDE DEF doc
  <2> QED BY <1>2, <1>3, <2>1, <2>2, <2>3, <2>4, <2>5, RequestKeeps
<1> QED BY <1>1, <1>5, <1>6, <1>7, <1>8

(* A step of the packages: the list and what they pick. *)
LEMMA LookupsKeep ==
    ASSUME LookupInv, NEW c \in Commands, Lookups(c)
    PROVE  LookupInv'
<1>1. PICK p \in Packages, all \in BOOLEAN : Wait(c, p, all) \/ Listed(c, p, all) \/ Lists(c, p, all)
  BY DEF Lookups
<1>2. Begun(c)
  <2>1. package[c][p].at # "off"
    BY <1>1 DEF Wait, Listed, Lists
  <2> QED BY <2>1 DEF LookupInv, Before
<1>3. UNCHANGED <<releases, attested, host, work, kept, request, verify, failures, seen>>
  BY <1>1 DEF Wait, Listed, Lists
<1>4. /\ DOMAIN listing' = Commands /\ DOMAIN package' = Commands
      /\ \A b \in Commands : /\ DOMAIN package'[b] = Packages
                             /\ b # c => listing'[b] = listing[b] /\ package'[b] = package[b]
  BY <1>1 DEF LookupInv, LookupShape, Wait, Listed, Lists
<1>5. LookupShape'
  BY <1>3, <1>4 DEF LookupInv, LookupShape
<1>6. SeenNow' /\ SeenTypes' /\ AnswersSeen' /\ KeptTrue' /\ VerifyTrue'
  BY <1>3, DocStays DEF LookupInv, SeenNow, SeenTypes, AnswersSeen, KeptTrue, VerifyTrue, Begun, Loaded
<1>7. Before'
  BY <1>2, <1>3, <1>4 DEF LookupInv, Before, Begun
<1> QED BY <1>5, <1>6, <1>7 DEF LookupInv

(* A step of the check of a download. *)
LEMMA VerifyKeeps ==
    ASSUME LookupInv, NEW c \in Commands, Begun(c), NEW new, verify' = [verify EXCEPT ![c] = new],
           new.at = "asks" => new.fresh \in BOOLEAN,
           new.at = "found" => /\ new.n \in 0..2 /\ new.fresh \in BOOLEAN
                               /\ new.fresh => \E d \in seen[c][Attested] : d.items[1] = new.n,
           new.at = "refused" => (\E d \in seen[c][Attested] : d.items[1] < 2) \/ request[c][Attested].at = "failed",
           UNCHANGED <<releases, attested, host, work, request, listing, package, failures, seen>>,
           DOMAIN kept' = Keys, KeptTrue'
    PROVE  LookupInv'
<1>1. DOMAIN verify' = Commands /\ \A b \in Commands : verify'[b] = IF b = c THEN new ELSE verify[b]
  BY DEF LookupInv, LookupShape
<1>2. LookupShape'
  BY <1>1 DEF LookupInv, LookupShape
<1>3. SeenNow' /\ SeenTypes' /\ AnswersSeen'
  BY DocStays DEF LookupInv, SeenNow, SeenTypes, AnswersSeen, Begun
<1>4. Before'
  BY <1>1 DEF LookupInv, Before, Begun
<1>5. VerifyTrue'
  <2> SUFFICES ASSUME NEW b \in Commands
               PROVE  /\ verify'[b].at = "asks" => verify'[b].fresh \in BOOLEAN
                      /\ verify'[b].at = "found" =>
                           /\ verify'[b].n \in 0..2 /\ verify'[b].fresh \in BOOLEAN
                           /\ verify'[b].fresh => \E d \in seen[b][Attested] : d.items[1] = verify'[b].n
                      /\ verify'[b].at = "refused" =>
                           (\E d \in seen[b][Attested] : d.items[1] < 2) \/ request[b][Attested].at = "failed"
    BY DEF VerifyTrue
  <2>1. CASE b = c
    BY <1>1, <2>1
  <2>2. CASE b # c
    BY <1>1, <2>2 DEF LookupInv, VerifyTrue
  <2> QED BY <2>1, <2>2
<1> QED BY <1>2, <1>3, <1>4, <1>5 DEF LookupInv

LEMMA AttestationsKeep ==
    ASSUME LookupInv, NEW c \in Commands, NEW fresh \in BOOLEAN, Attestations(c, fresh)
    PROVE  LookupInv'
<1> DEFINE new == IF Loaded(Bundles) # None /\ ~fresh
                  THEN [at |-> "found", n |-> Loaded(Bundles).doc.items[1], fresh |-> fresh]
                  ELSE [at |-> "asks", fresh |-> fresh]
<1>1. /\ verify[c].at \in {"fresh", "start"} /\ verify' = [verify EXCEPT ![c] = new]
      /\ UNCHANGED <<releases, attested, host, work, kept, request, listing, package, failures, seen>>
  BY DEF Attestations
<1>2. Begun(c)
  BY <1>1 DEF LookupInv, Before
<1>3. /\ new.at = "asks" => new.fresh \in BOOLEAN
      /\ new.at = "found" => new.n \in 0..2 /\ new.fresh \in BOOLEAN /\ ~new.fresh
      /\ new.at # "refused"
  BY DEF LookupInv, KeptTrue
<1>4. DOMAIN kept' = Keys /\ KeptTrue'
  BY <1>1, DocOf DEF LookupInv, LookupShape, KeptTrue, Loaded
<1> HIDE DEF new
<1> QED BY <1>1, <1>2, <1>3, <1>4, VerifyKeeps

LEMMA AttestsKeeps ==
    ASSUME LookupInv, NEW c \in Commands, Attests(c)
    PROVE  LookupInv'
<1> DEFINE doc == request[c][Attested].doc
           good == IsDone(c, Attested) /\ doc.items[1] > 0
           new == IF good THEN [at |-> "found", n |-> doc.items[1], fresh |-> verify[c].fresh] ELSE [at |-> "refused"]
<1>1. /\ verify[c].at = "asks" /\ Ended(c, Attested) /\ verify' = [verify EXCEPT ![c] = new]
      /\ kept' = IF good THEN [kept EXCEPT ![Bundles] = [doc |-> doc, etag |-> FALSE]] ELSE kept
      /\ UNCHANGED <<releases, attested, host, work, request, listing, package, failures, seen>>
  BY DEF Attests
<1>2. Begun(c)
  BY <1>1 DEF LookupInv, Before
<1>3. IsDone(c, Attested) => doc \in seen[c][Attested] /\ doc.items[1] \in 0..2
  BY URLsAre DEF IsDone, LookupInv, AnswersSeen, SeenTypes
<1>4. verify[c].fresh \in BOOLEAN
  BY <1>1 DEF LookupInv, VerifyTrue
<1>5. new.at = "found" => /\ new.n \in 0..2 /\ new.fresh \in BOOLEAN
                          /\ \E d \in seen[c][Attested] : d.items[1] = new.n
  <2>1. CASE good
    <3>1. new.n = doc.items[1] /\ new.fresh = verify[c].fresh
      BY <2>1
    <3> QED BY <2>1, <3>1, <1>3, <1>4
  <2>2. CASE ~good
    BY <2>2
  <2> QED BY <2>1, <2>2
<1>6. new.at = "refused" => (\E d \in seen[c][Attested] : d.items[1] < 2) \/ request[c][Attested].at = "failed"
  <2>1. CASE good
    BY <2>1
  <2>2. CASE ~good /\ IsDone(c, Attested)
    <3>1. doc \in seen[c][Attested] /\ doc.items[1] < 2
      BY <2>2, <1>3
    <3> QED BY <3>1
  <2>3. CASE ~IsDone(c, Attested)
    BY <2>3, <1>1 DEF Ended, IsDone
  <2> QED BY <2>1, <2>2, <2>3
<1>7. new.at # "asks"
  OBVIOUS
<1>8. DOMAIN kept' = Keys
  BY <1>1 DEF LookupInv, LookupShape
<1>9. KeptTrue'
  <2>1. Loaded(File)' = Loaded(File)
    BY <1>1, URLsAre DEF LookupInv, LookupShape, Loaded
  <2>2. CASE ~good
    BY <2>2, <1>1, DocOf DEF LookupInv, KeptTrue, Loaded
  <2>3. CASE good
    <3>1. Loaded(Bundles)' # None => Loaded(Bundles)' = [doc |-> doc, etag |-> FALSE]
      BY <2>3, <1>1, URLsAre DEF LookupInv, LookupShape, Loaded
    <3>2. Loaded(Bundles)' # None => Loaded(Bundles)'.doc.items[1] \in 0..2
      BY <3>1, <2>3, <1>3
    <3> QED BY <2>1, <3>2, DocOf DEF LookupInv, KeptTrue
  <2> QED BY <2>2, <2>3
<1> HIDE DEF new
<1> QED BY <1>1, <1>2, <1>5, <1>6, <1>7, <1>8, <1>9, VerifyKeeps

LEMMA VerifiesKeeps ==
    ASSUME LookupInv, NEW c \in Commands, Verifies(c)
    PROVE  LookupInv'
<1> DEFINE new == CASE verify[c].n >= 2 -> [at |-> "verified"]
                    [] verify[c].n < 2 /\ ~verify[c].fresh -> [at |-> "fresh"]
                    [] OTHER -> [at |-> "refused"]
<1>1. /\ verify[c].at = "found" /\ verify' = [verify EXCEPT ![c] = new]
      /\ UNCHANGED <<releases, attested, host, work, kept, request, listing, package, failures, seen>>
  BY DEF Verifies
<1>2. Begun(c)
  BY <1>1 DEF LookupInv, Before
<1>3. /\ verify[c].n \in 0..2 /\ verify[c].fresh \in BOOLEAN
      /\ verify[c].fresh => \E d \in seen[c][Attested] : d.items[1] = verify[c].n
  BY <1>1 DEF LookupInv, VerifyTrue
<1>4. \/ new.at \in {"verified", "fresh"}
      \/ new.at = "refused" /\ verify[c].n < 2 /\ verify[c].fresh
  <2>1. CASE verify[c].n >= 2
    BY <2>1, <1>3
  <2>2. CASE verify[c].n < 2 /\ ~verify[c].fresh
    BY <2>2, <1>3
  <2>3. CASE verify[c].n < 2 /\ verify[c].fresh
    BY <2>3, <1>3
  <2> QED BY <1>3, <2>1, <2>2, <2>3
<1>5. DOMAIN kept' = Keys /\ KeptTrue'
  BY <1>1, DocOf DEF LookupInv, LookupShape, KeptTrue, Loaded
<1> HIDE DEF new
<1>6. new.at = "refused" => \E d \in seen[c][Attested] : d.items[1] < 2
  BY <1>3, <1>4
<1> QED BY <1>1, <1>2, <1>4, <1>5, <1>6, VerifyKeeps

LEMMA BeginKeeps ==
    ASSUME LookupInv, NEW c \in Commands, Begin(c)
    PROVE  LookupInv'
<1>1. /\ seen[c][File] = {} /\ seen' = [seen EXCEPT ![c] = [k \in URLs |-> {Doc(k)}]]
      /\ UNCHANGED <<releases, attested, host, work, kept, request, listing, failures>>
      /\ \/ package' = [package EXCEPT ![c] = [p \in Packages |-> [at |-> "first"]]] /\ verify' = verify
         \/ verify' = [verify EXCEPT ![c] = [at |-> "start"]] /\ package' = package
  BY DEF Begin
<1>2. /\ DOMAIN seen' = Commands /\ DOMAIN package' = Commands /\ DOMAIN verify' = Commands
      /\ \A b \in Commands : b # c => seen'[b] = seen[b] /\ package'[b] = package[b] /\ verify'[b] = verify[b]
      /\ \A k \in URLs : seen'[c][k] = {Doc(k)}
      /\ verify'[c] = verify[c] \/ verify'[c].at = "start"
      /\ DOMAIN seen'[c] = URLs /\ DOMAIN package'[c] = Packages
  BY <1>1 DEF LookupInv, LookupShape
<1>3. LookupShape'
  BY <1>1, <1>2 DEF LookupInv, LookupShape
<1>4. \A k : Doc(k)' = Doc(k)
  BY <1>1, DocStays
<1>5. SeenNow'
  BY <1>2, <1>4, URLsAre DEF LookupInv, SeenNow, Begun
<1>6. SeenTypes'
  BY <1>1, <1>2, <1>4, DocOf, LinkOf, URLsAre DEF LookupInv, SeenTypes
<1>7. Before'
  <2>1. Begun(c)'
    BY <1>2, URLsAre DEF Begun
  <2>2. \A b \in Commands : b # c => (Begun(b)' <=> Begun(b))
    BY <1>2 DEF Begun
  <2> QED BY <1>1, <1>2, <2>1, <2>2 DEF LookupInv, Before
<1>8. \A k \in URLs : request[c][k] = Idle /\ verify[c].at = "off"
  BY <1>1 DEF LookupInv, Before, Begun
<1>9. AnswersSeen'
  BY <1>1, <1>2, <1>8 DEF LookupInv, AnswersSeen, Idle
<1>10. KeptTrue'
  BY <1>1, DocOf DEF LookupInv, KeptTrue, Loaded
<1>11. VerifyTrue'
  <2>1. verify'[c].at \in {"off", "start"}
    BY <1>2, <1>8, URLsAre
  <2> QED BY <1>1, <1>2, <2>1 DEF LookupInv, VerifyTrue
<1> QED BY <1>3, <1>5, <1>6, <1>7, <1>9, <1>10, <1>11 DEF LookupInv

(* What the host serves changes, and the commands that run have seen it. *)
LEMMA ServesKeeps ==
    ASSUME LookupInv, Serves, attested' \in 0..2, releases' \in Seq(Nat),
           UNCHANGED <<kept, request, listing, package, verify>>
    PROVE  LookupInv'
<1>1. /\ DOMAIN seen' = Commands
      /\ \A c \in Commands : /\ DOMAIN seen'[c] = URLs
                             /\ \A k \in URLs :
                                  seen'[c][k] = IF seen[c][k] = {} THEN {} ELSE seen[c][k] \cup {Doc(k)'}
  BY DEF Serves
<1>2. \A c \in Commands, k \in URLs : seen[c][k] \subseteq seen'[c][k]
  BY <1>1
<1>3. LookupShape'
  BY <1>1 DEF LookupInv, LookupShape
<1>4. ASSUME NEW c \in Commands PROVE Begun(c)' <=> Begun(c)
  <2>1. seen'[c][File] = IF seen[c][File] = {} THEN {} ELSE seen[c][File] \cup {Doc(File)'}
    BY <1>1, URLsAre
  <2> QED BY <2>1 DEF Begun
<1>10. SeenNow'
  <2> SUFFICES ASSUME NEW c \in Commands, NEW k \in URLs
               PROVE  /\ seen'[c][k] = {} <=> ~Begun(c)'
                      /\ Begun(c)' => Doc(k)' \in seen'[c][k]
    BY DEF SeenNow
  <2>1. seen[c][k] = {} <=> ~Begun(c)
    BY DEF LookupInv, SeenNow
  <2>2. seen'[c][k] = IF seen[c][k] = {} THEN {} ELSE seen[c][k] \cup {Doc(k)'}
    BY <1>1
  <2> QED BY <1>4, <2>1, <2>2
<1>5. SeenTypes'
  <2>1. \A c \in Commands : seen'[c][File] \subseteq {Doc(File)'}
    BY <1>1, DocOf, URLsAre DEF LookupInv, SeenTypes
  <2>2. Doc(Attested)'.items[1] = attested' /\ \A k \in URLs : Doc(k)'.link \in Int
    BY DocAfter
  <2>3. ASSUME NEW c \in Commands, NEW d \in seen'[c][Attested] PROVE d.items[1] \in 0..2
    <3>1. d \in seen[c][Attested] \/ d = Doc(Attested)'
      BY <1>1, <2>3, URLsAre
    <3> QED BY <2>2, <3>1 DEF LookupInv, SeenTypes
  <2>4. ASSUME NEW c \in Commands, NEW k \in URLs, NEW d \in seen'[c][k] PROVE d.link \in Int
    <3>1. d \in seen[c][k] \/ d = Doc(k)'
      BY <1>1, <2>4
    <3> QED BY <2>2, <3>1 DEF LookupInv, SeenTypes
  <2> QED BY <2>1, <2>3, <2>4 DEF SeenTypes
<1>6. Before'
  BY <1>4 DEF LookupInv, Before
<1>7. AnswersSeen'
  BY <1>2 DEF LookupInv, AnswersSeen
<1>8. KeptTrue'
  BY DocOf DEF LookupInv, KeptTrue, Loaded
<1>9. VerifyTrue'
  BY <1>2, URLsAre DEF LookupInv, VerifyTrue
<1> QED BY <1>3, <1>10, <1>5, <1>6, <1>7, <1>8, <1>9 DEF LookupInv

LEMMA CollectsKeeps ==
    ASSUME LookupInv, NEW k \in Keys, Collects(k)
    PROVE  LookupInv'
<1>1. /\ kept' = [kept EXCEPT ![k] = None]
      /\ UNCHANGED <<releases, attested, host, work, request, listing, package, verify, seen>>
  BY DEF Collects
<1>2. DOMAIN kept' = Keys /\ \A u \in Keys : kept'[u] \in {kept[u], None}
  BY <1>1 DEF LookupInv, LookupShape
<1>3. \A u \in Keys : Loaded(u)' \in {Loaded(u), None}
  BY <1>2 DEF Loaded
<1>4. KeptTrue'
  BY <1>3, DocOf, URLsAre DEF LookupInv, KeptTrue
<1>5. LookupShape' /\ SeenNow' /\ SeenTypes' /\ AnswersSeen' /\ VerifyTrue' /\ Before'
  BY <1>1, <1>2, DocStays DEF LookupInv, LookupShape, SeenNow, SeenTypes, AnswersSeen, VerifyTrue, Before, Begun
<1> QED BY <1>4, <1>5 DEF LookupInv

LEMMA LookupBegins == ASSUME LookupInit PROVE LookupInv
<1>1. \A k : Loaded(k) = None \/ k \notin Keys
  BY LookupAssumption DEF LookupInit, Loaded
<1>2. LookupShape /\ SeenNow /\ SeenTypes /\ Before /\ AnswersSeen /\ VerifyTrue
  BY URLsAre, LookupAssumption DEF LookupInit, LookupShape, SeenNow, SeenTypes, Before, AnswersSeen, VerifyTrue, Begun, Idle, NoListing
<1> QED BY <1>1, <1>2, URLsAre DEF LookupInv, KeptTrue

LEMMA LookupKeeps == ASSUME LookupInv, [LookupNext]_lookupVars PROVE LookupInv'
<1>1. ASSUME Publish \/ Attest PROVE LookupInv'
  <2>1. Serves /\ UNCHANGED <<kept, request, listing, package, verify>>
    BY <1>1 DEF Publish, Attest
  <2>2. attested' \in 0..2
    BY <1>1 DEF Publish, Attest, LookupInv, SeenTypes
  <2>3. releases' \in Seq(Nat)
    <3>1. releases \in Seq(Nat)
      BY DEF LookupInv, SeenTypes
    <3>2. CASE Attest
      BY <3>1, <3>2 DEF Attest
    <3>3. CASE Publish
      <4>1. <<Len(releases) + 1>> \in Seq(Nat)
        BY <3>1
      <4> QED BY <3>1, <3>3, <4>1 DEF Publish
    <3> QED BY <1>1, <3>2, <3>3
  <2> QED BY <2>1, <2>2, <2>3, ServesKeeps
<1>2. CASE UNCHANGED lookupVars
  BY <1>2, DocStays DEF lookupVars, LookupInv, LookupShape, SeenNow, SeenTypes, AnswersSeen, KeptTrue, Loaded,
     VerifyTrue, Before, Begun
<1> QED BY <1>1, <1>2, BeginKeeps, AskKeeps, LookupsKeep, AttestationsKeep, AttestsKeeps, VerifiesKeeps, CollectsKeeps
        DEF LookupNext

LEMMA LookupInvHolds == LookupSpec => []LookupInv
<1>1. LookupInit => LookupInv
  BY LookupBegins
<1>2. LookupInv /\ [LookupNext]_lookupVars => LookupInv'
  BY LookupKeeps
<1> QED BY <1>1, <1>2, PTL DEF LookupSpec

(* No answer that a command uses is stale (Revalidating, revalidate.go):   *)
(* with any number of commands, packages, releases and failures, what it   *)
(* is told at a url is what the host served there since it began.  And a   *)
(* download that was attested before the command began verifies            *)
(* (verifyAttestations, sigstore.go): bundles that an earlier command kept *)
(* never make the command refuse it.                                       *)
THEOREM AnswersAreTrue == LookupSpec => []AnswersHold
<1>1. LookupInv => NeverStale
  BY DEF LookupInv, AnswersSeen, NeverStale, IsDone
<1>2. LookupInv => AttestedVerifies
  BY DEF LookupInv, VerifyTrue, AttestedVerifies
<1>3. LookupInv => AnswersHold
  BY <1>1, <1>2 DEF AnswersHold
<1> QED BY <1>3, LookupInvHolds, PTL

=============================================================================
