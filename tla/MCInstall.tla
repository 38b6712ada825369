----------------------------- MODULE MCInstall -----------------------------
(* Install with lists of two and three packages that share up to three     *)
(* deps.                                                                   *)
EXTENDS Install

CONSTANT none

MCPackages == {"a", "b", "c", "x", "y", "z"}

Healthy == [p \in MCPackages |-> "none"]

NoNeeds == [p \in MCPackages |-> <<>>]

Sound == [roots |-> {"a", "b"}, needs |-> NoNeeds, bad |-> Healthy, built |-> {}, limit |-> 2,
          interrupts |-> FALSE]

(* y needs x, and a needs both: the order of a's deps decides who installs *)
Shared == [Sound EXCEPT !.needs["a"] = <<"x", "y">>, !.needs["b"] = <<"y">>, !.needs["y"] = <<"x">>]
Turned == [Shared EXCEPT !.needs["a"] = <<"y", "x">>, !.needs["b"] = <<"x", "y">>]
(* A package of the list that is a dep of another *)
Listed == [Sound EXCEPT !.needs["a"] = <<"b", "x">>, !.needs["b"] = <<"x">>]
(* Three packages, each with a dep that needs the dep of the next *)
Round == [Sound EXCEPT !.roots = {"a", "b", "c"}, !.limit = 3, !.needs =
            [NoNeeds EXCEPT !["a"] = <<"x">>, !["b"] = <<"y">>, !["c"] = <<"z">>,
                            !["x"] = <<"y">>, !["y"] = <<"z">>, !["z"] = <<"x">>]]
Fan == [Round EXCEPT !.needs["z"] = <<>>]
(* Two manifests that depend on each other, and one on the package itself *)
Mutual == [Sound EXCEPT !.needs["a"] = <<"x">>, !.needs["b"] = <<"y">>, !.needs["x"] = <<"y">>,
                        !.needs["y"] = <<"x">>]
Back == [Sound EXCEPT !.needs["a"] = <<"x">>, !.needs["x"] = <<"a">>, !.needs["b"] = <<"x">>]

Shapes == {Shared, Turned, Listed, Round, Fan, Mutual, Back}

(* What goes wrong with them *)
Bads == {Healthy, [Healthy EXCEPT !["x"] = "drift"], [Healthy EXCEPT !["x"] = "failed"],
         [Healthy EXCEPT !["a"] = "drift", !["y"] = "drift"], [Healthy EXCEPT !["a"] = "failed", !["b"] = "drift"]}

MCLists ==
    {[s EXCEPT !.bad = bad] : s \in Shapes, bad \in Bads}
    \cup {[s EXCEPT !.built = {"a", "x", "y"}, !.limit = 1] : s \in Shapes}
    \cup {[s EXCEPT !.built = {"a", "b", "x"}, !.interrupts = TRUE] : s \in {Shared, Listed, Mutual}}

SharedLists == {Shared}

============================================================================
