------------------------------ MODULE Requests ------------------------------
(***************************************************************************)
(* One HTTP request of oku with the redirects it follows: where [network]  *)
(* lets it connect (netpolicy), which login it carries (forge.Hosts, Auth, *)
(* GitHubAsset) and which redirects it follows (forge.CheckRedirect).      *)
(* Servers answer with any redirect, and a name may resolve to any of its  *)
(* addresses each time.  The rules for headers on a redirect are those of  *)
(* Go's net/http, which the code relies on.                                *)
(***************************************************************************)
EXTENDS Integers, Sequences, FiniteSets

CONSTANTS
    Names,         \* host names
    Locals,        \* the names that are this machine: localhost and loopback addresses
    Resolves,      \* Resolves[h]: the addresses of h, of {"public", "private"}
    Within,        \* pairs <<h, g>>: h is a subdomain of g
    Policies,      \* [network]: [allowPrivate, allow, private], the patterns as the names they match
    Trusts,        \* what config.toml may list as the user's own forges: Names -> kind or NoLogin
    APIHost, WebHost,   \* api.github.com and github.com
    GitLabHost, CodebergHost,
    MaxRedirects,  \* the redirects that CheckRedirect follows: 10
    NoLogin

ASSUME RequestsAssumption ==
    /\ {APIHost, WebHost, GitLabHost, CodebergHost} \subseteq Names /\ Locals \subseteq Names
    /\ Resolves \in [Names -> SUBSET {"public", "private"}] /\ MaxRedirects \in Nat
    /\ \A h \in Locals : Resolves[h] = {"private"}

VARIABLES
    policy, trusted, proxy,
    http,        \* the request: its url, the urls before it, its Authorization header
    connected    \* every connection made: where to, and the header sent there

requestVars == <<policy, trusted, proxy, http, connected>>

URL == [scheme : {"https", "http", "file"}, host : Names]
Kinds == {"github", "gitea", "gitlab"}
Logins == {"GITHUB_TOKEN", "CODEBERG_TOKEN", "GITLAB_TOKEN", "GH_ENTERPRISE_TOKEN", "GITEA_TOKEN", "GITLAB_SERVER_TOKEN", NoLogin}

-----------------------------------------------------------------------------
(* Logins.                                                                 *)

\* The forge of a manifest or a ref: github(), gitea() and Open.  A token is named for its variable.
Token(kind, h) ==
    CASE kind = "github" /\ h = APIHost -> "GITHUB_TOKEN"
      [] kind = "gitea" /\ h = CodebergHost -> "CODEBERG_TOKEN"
      [] kind = "gitlab" /\ h = GitLabHost -> "GITLAB_TOKEN"
      [] OTHER -> IF trusted[h] = kind
                  THEN CASE kind = "github" -> "GH_ENTERPRISE_TOKEN"
                         [] kind = "gitea" -> "GITEA_TOKEN"
                         [] kind = "gitlab" -> "GITLAB_SERVER_TOKEN"
                  ELSE NoLogin

\* Auth: GitHub's downloads carry no login.
Auth(kind, h) == [host |-> h, header |-> IF kind = "github" THEN NoLogin ELSE Token(kind, h)]

\* Mutant of For: any URL of the host.
ForAnyScheme(auth, url) == IF url.host = auth.host THEN auth.header ELSE NoLogin

For(auth, url) == IF url.scheme = "https" /\ url.host = auth.host THEN auth.header ELSE NoLogin

\* The hosts a token is meant for.
Meant(token) ==
    CASE token = "GITHUB_TOKEN" -> {APIHost}
      [] token = "CODEBERG_TOKEN" -> {CodebergHost}
      [] token = "GITLAB_TOKEN" -> {GitLabHost}
      [] token = "GH_ENTERPRISE_TOKEN" -> {h \in Names : trusted[h] = "github"}
      [] token = "GITEA_TOKEN" -> {h \in Names : trusted[h] = "gitea"}
      [] token = "GITLAB_SERVER_TOKEN" -> {h \in Names : trusted[h] = "gitlab"}

-----------------------------------------------------------------------------
(* Where oku connects.                                                     *)

Allowed(h) == policy.allow = {} \/ h \in policy.allow
PrivateOK(h) == policy.allowPrivate \/ h \in policy.private

\* guard.RoundTrip: the host, and no redirect from elsewhere to this machine.
Guard(url, hops) ==
    \/ url.scheme = "file"
    \/ url.host \notin Locals /\ Allowed(url.host)
    \/ url.host \in Locals /\ (policy.allowPrivate \/ \A i \in DOMAIN hops : i = 1 => hops[i].host \in Locals)

\* checkAddr, as the dialer calls it for each address it dials.
CheckAddr(h, addr) == addr # "private" \/ PrivateOK(h) \/ h \in Locals

\* CheckURL, for git: refuses when every address is refused.
CheckURL(url) ==
    url.scheme = "file" \/ ((url.host \in Locals \/ Allowed(url.host)) /\ \E a \in Resolves[url.host] : CheckAddr(url.host, a))

-----------------------------------------------------------------------------
NoRequest == [at |-> "none"]

Send(url, header, strip) ==
    http' = [at |-> "new", url |-> url, hops |-> <<>>, header |-> header, strip |-> strip]

\* A request to the API of a forge (github.page, gitlab.get, gitea.read).
API(kind, h) ==
    /\ http = NoRequest
    /\ Send([scheme |-> "https", host |-> h], Token(kind, h), FALSE)
    /\ UNCHANGED <<policy, trusted, proxy, connected>>

\* A download of a package that follows the releases of a forge (AuthFor, Store.get).
Download(kind, h, url) ==
    /\ http = NoRequest
    /\ Send(url, For(Auth(kind, h), url), FALSE)
    /\ UNCHANGED <<policy, trusted, proxy, connected>>

\* A release download of github.com that is 404 without a login (Store.privateGet, GitHubAsset).
Private ==
    /\ http.at = "sent" /\ http.url = [scheme |-> "https", host |-> WebHost] /\ http.hops = <<>>
    /\ Send([scheme |-> "https", host |-> APIHost], "GITHUB_TOKEN", TRUE)
    /\ UNCHANGED <<policy, trusted, proxy, connected>>

\* The url that oku asked for, before any redirect.
FirstURL == Append(http.hops, http.url)[1]

\* A connection: to the proxy of the user, or to an address of the host that CheckAddr takes.
Connects(addr) ==
    /\ http.at = "new" /\ Guard(http.url, http.hops)
    /\ addr \in Resolves[http.url.host] /\ (proxy \/ CheckAddr(http.url.host, addr))
    /\ connected' = connected \cup {[url |-> http.url, first |-> FirstURL, header |-> http.header,
                                     addr |-> IF proxy THEN "proxy" ELSE addr]}
    /\ http' = [http EXCEPT !.at = "sent"]
    /\ UNCHANGED <<policy, trusted, proxy>>

\* git makes its own connections, where CheckURL lets it (cloneHead, tags).
Git(url) ==
    /\ http = NoRequest /\ CheckURL(url)
    /\ connected' = connected \cup {[url |-> url, first |-> url, header |-> NoLogin, addr |-> "git"]}
    /\ UNCHANGED <<policy, trusted, proxy, http>>

\* Refused, and every other error.
Refuse ==
    /\ http.at = "new"
    /\ http' = NoRequest
    /\ UNCHANGED <<policy, trusted, proxy, connected>>

\* CheckRedirect: none away from https, and none to a local file.
CheckRedirect(url, from, hops) ==
    /\ Len(hops) < MaxRedirects
    /\ url.scheme # "file" /\ (from.scheme = "https" => url.scheme = "https")

\* net/http sends the header again to the host of the first request and below it, and once
\* a redirect has left it no more.
Redirects(url) ==
    /\ http.at = "sent"
    /\ http' = IF ~CheckRedirect(url, http.url, Append(http.hops, http.url)) THEN NoRequest
               ELSE [http EXCEPT !.at = "new", !.url = url, !.hops = Append(http.hops, http.url),
                        !.header = IF ~http.strip /\ (url.host = FirstURL.host \/ <<url.host, FirstURL.host>> \in Within)
                                   THEN http.header ELSE NoLogin]
    /\ UNCHANGED <<policy, trusted, proxy, connected>>

Answered ==
    /\ http.at = "sent" /\ http' = NoRequest
    /\ UNCHANGED <<policy, trusted, proxy, connected>>

RequestsInit ==
    /\ policy \in Policies /\ trusted \in Trusts /\ proxy \in BOOLEAN
    /\ http = NoRequest /\ connected = {}

\* Only the connections of the request under way matter to the properties.
RequestsNext ==
    \/ connected = {} /\ \E kind \in Kinds, h \in Names : API(kind, h) \/ \E url \in URL : Download(kind, h, url)
    \/ connected = {} /\ \E url \in URL : Git(url)
    \/ Private \/ Refuse \/ Answered
    \/ \E addr \in {"public", "private"} : Connects(addr)
    \/ \E url \in URL : Redirects(url)

RequestsSpec == RequestsInit /\ [][RequestsNext]_requestVars

-----------------------------------------------------------------------------
RequestsTypeOK ==
    /\ http # NoRequest => http \in [at : {"new", "sent"}, url : URL, hops : Seq(URL), header : Logins, strip : BOOLEAN]
    /\ connected \subseteq [url : URL, first : URL, header : Logins, addr : {"public", "private", "proxy", "git"}]

\* A token reaches only a host it is meant for, or one below it, and only over https,
\* whatever URL a manifest names and wherever servers redirect (Auth.For, CheckRedirect).
TokenKept == \A x \in connected : x.header # NoLogin =>
    /\ x.url.scheme = "https"
    /\ \E h \in Meant(x.header) : x.url.host = h \/ <<x.url.host, h>> \in Within

\* Along a chain of redirects every host is one that [network] allows, and a private address
\* is of a host that [network] names, or is this machine when the user or a manifest asked
\* for it and no other host redirected there (netpolicy).
PolicyKept == \A x \in connected : x.url.scheme # "file" =>
    /\ x.url.host \in Locals \/ Allowed(x.url.host)
    /\ x.addr = "private" =>
           PrivateOK(x.url.host) \/ (x.url.host \in Locals /\ x.first.host \in Locals)

\* What a request keeps to: its types, TokenKept and PolicyKept.
RequestsKept == RequestsTypeOK /\ TokenKept /\ PolicyKept

=============================================================================
