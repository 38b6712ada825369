------------------------------- MODULE MCPins -------------------------------
(* Two machines that share a list and a lock, and the lists and upstreams   *)
(* that the runs of Pins look at.                                           *)
EXTENDS Pins

CONSTANTS mac, linux, k1, k2

MCHosts == {mac, linux}

Plain == [update |-> FALSE, weaker |-> FALSE, key |-> FALSE, aged |-> FALSE,
          trust |-> FALSE, rebuild |-> FALSE, frozen |-> FALSE]
Update == [Plain EXCEPT !.update = TRUE]
Locked == [Plain EXCEPT !.frozen = TRUE]
Common == {Plain, Update, Locked}

(* A manifest with artifacts for every machine *)
Stating(what, key) ==
    [key |-> key, arts |-> MCHosts, builds |-> {}, states |-> [h \in MCHosts |-> what],
     sha |-> IF what = "digest" THEN <<1, 1>> ELSE None]

Half == [Stating("file", None) EXCEPT !.states[mac] = "none"]

Building(what) == [Stating(what, None) EXCEPT !.arts = {}, !.builds = MCHosts]

(* A manifest that linux builds, and mac downloads *)
Mixed(what) == [Stating(what, None) EXCEPT !.arts = {mac}, !.builds = {linux}]

(* [lock] platforms names both machines, upstream publishes dates and no   *)
(* digests, and twice uploads a file again or changes the manifest.        *)
Both ==
    [platforms |-> <<linux, mac>>, when |-> MCHosts, commits |-> TRUE,
     fromSource |-> FALSE, publishes |-> FALSE, shared |-> FALSE, refuses |-> FALSE,
     dated |-> TRUE, manifests |-> {Stating("file", None), Stating("none", None)},
     keys |-> {}, constraints |-> {}, changes |-> 2, requests |-> Common]

Weakening == [Both EXCEPT !.requests = Common \cup {[Update EXCEPT !.weaker = TRUE]}]
Publishing == [Both EXCEPT !.publishes = TRUE, !.shared = TRUE]
Digests == [Both EXCEPT !.manifests = {Stating("digest", None), Stating("none", None)}]
Alone == [Both EXCEPT !.platforms = <<>>, !.commits = FALSE]
Refusing == [Both EXCEPT !.refuses = TRUE, !.manifests = {Half, Stating("none", None)},
                         !.requests = Common \cup {[Update EXCEPT !.trust = TRUE]}]
Undated == [Both EXCEPT !.dated = FALSE, !.constraints = {1}, !.changes = 1,
                        !.requests = Common \cup {[Update EXCEPT !.aged = TRUE]}]
Aged == [Both EXCEPT !.changes = 1, !.constraints = {1},
                     !.requests = Common \cup {[Update EXCEPT !.aged = TRUE]}]
Signed == [Both EXCEPT !.manifests = {Stating("file", k1), Stating("file", None), Stating("file", k2)},
                       !.changes = 1,
                       !.requests = Common \cup {[Update EXCEPT !.key = TRUE],
                                                 [Update EXCEPT !.key = TRUE, !.weaker = TRUE]}]
OneHost == [Both EXCEPT !.when = {linux}]
Built == [Both EXCEPT !.manifests = {Building("file"), Building("none")},
                      !.requests = Common \cup {[Plain EXCEPT !.rebuild = TRUE]}]
FromSource == [Both EXCEPT !.fromSource = TRUE, !.when = {linux},
                           !.manifests = {Building("none"), Building("file")}]
Sources == [Both EXCEPT !.manifests = {Mixed("file"), Mixed("none")}]
SignedElsewhere == [Signed EXCEPT !.when = {linux}, !.changes = 2]
Listed == [Both EXCEPT !.keys = {k1}, !.manifests = {Stating("file", None)}, !.changes = 1,
                       !.requests = Common \cup {[Update EXCEPT !.key = TRUE]}]

(* linux builds a source whose digest upstream publishes, and mac only     *)
(* writes the lock for it.                                                 *)
Labelling == [OneHost EXCEPT !.publishes = TRUE, !.manifests = {Building("none")},
                             !.requests = Common \cup {[Update EXCEPT !.aged = TRUE]}]

PinsSettings == {Weakening, Publishing, Digests, Alone, Refusing, Undated, Aged, Signed,
                 OneHost, Built, FromSource, Sources, SignedElsewhere, Listed, Labelling}
RelabelSettings == {Labelling}
=============================================================================
