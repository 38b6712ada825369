----------------------------- MODULE MCNetwork -----------------------------
(***************************************************************************)
(* What oku reads from the network: version lookups, requests and their    *)
(* redirects, downloads, and its own releases.  The parts share no state,  *)
(* so the run explores each on its own: part says which one moves.         *)
(***************************************************************************)
EXTENDS Lookup, Requests, Downloads, Self, TLC

CONSTANTS c1, c2, p1, p2, hub, api, lab, berg, mine, cdn, here, u1, u2, x, y, j1, j2

\* Two commands with a package that takes the newest version and one pinned to the oldest.
\* The newest release at first is a draft, and pages hold one release.
MCWants == [p \in {p1, p2} |-> IF p = p1 THEN None ELSE 1]
MCReleased == <<2, 1>>
MCHosts == {[style |-> "last", tagged |-> TRUE, kept |-> None], [style |-> "next", tagged |-> TRUE, kept |-> None],
            [style |-> "none", tagged |-> FALSE, kept |-> Bad]}

\* A host of the user's own that resolves to a public and a private address, a subdomain, and this machine.
MCNames == {hub, api, lab, berg, mine, cdn, here}
MCResolves == [h \in MCNames |-> CASE h = here -> {"private"} [] h = mine -> {"public", "private"} [] OTHER -> {"public"}]
MCWithin == {<<cdn, hub>>}
MCPolicies == {[allowPrivate |-> FALSE, allow |-> a, private |-> q] : a \in {{}, {hub, api, mine}}, q \in {{}, {mine}}}
              \cup {[allowPrivate |-> TRUE, allow |-> {}, private |-> {}]}
MCTrusts == {[h \in MCNames |-> IF h = mine THEN kind ELSE NoLogin] : kind \in {"github", "gitlab", NoLogin}}

\* A package without a pin, one whose url's bytes change, and one with a pin at another url.
MCCalls == {[url |-> u1, want |-> Nothing, reuse |-> TRUE], [url |-> u1, want |-> Nothing, reuse |-> FALSE],
            [url |-> u2, want |-> x, reuse |-> TRUE]}

VARIABLE part

NetworkInit ==
    /\ part \in {"lookup", "requests", "downloads", "update", "uninstall"}
    /\ LookupInit /\ (part # "lookup" => host = CHOOSE h \in Hosts : TRUE) /\ (part # "lookup" => work = "checks")
    /\ RequestsInit /\ (part # "requests" => /\ policy = CHOOSE q \in Policies : TRUE
                                             /\ trusted = CHOOSE t \in Trusts : TRUE
                                             /\ proxy = FALSE)
    /\ DownloadsInit
    /\ SelfInit /\ (part # "uninstall" => pages = Gone)
                /\ (part \notin {"update", "uninstall"} => ~windows /\ exe.of = Release(1))

NetworkNext ==
    /\ UNCHANGED part
    /\ \/ part = "lookup" /\ LookupNext /\ UNCHANGED <<requestVars, downloadVars, selfVars>>
       \/ part = "requests" /\ RequestsNext /\ UNCHANGED <<lookupVars, downloadVars, selfVars>>
       \/ part = "downloads" /\ DownloadsNext /\ UNCHANGED <<lookupVars, requestVars, selfVars>>
       \/ part = "update" /\ UpdateNext /\ UNCHANGED <<lookupVars, requestVars, downloadVars>>
       \/ part = "uninstall" /\ UninstallNext /\ UNCHANGED <<lookupVars, requestVars, downloadVars>>

NetworkSpec == NetworkInit /\ [][NetworkNext]_<<part, lookupVars, requestVars, downloadVars, selfVars>>

NetworkSymmetry == Permutations({c1, c2}) \cup Permutations({j1, j2})

=============================================================================
