----------------------------- MODULE MCCollect -----------------------------
(* Collect with two processes, a library, a tool with the same large file, *)
(* an app that is built and links against the library, a plugin that is    *)
(* built against both, and a repo's files.                                 *)
(* Each machine below puts one part of the store under the commands that   *)
(* bear on it.                                                             *)
EXTENDS Collect

CONSTANTS p1, p2, home, proj

MCPaths == {"lib", "tool", "app", "plugin", "files"}
MCClass == [p \in MCPaths |-> CASE p \in {"app", "plugin"} -> "build" [] p = "files" -> "tree" [] OTHER -> "artifact"]
MCClosure == [p \in MCPaths |-> CASE p = "app" -> {"app", "lib"}
                               [] p = "plugin" -> {"plugin", "app", "lib"}
                               [] OTHER -> {p}]
MCBig == {"lib", "tool"}

Machine == [windows |-> FALSE, clones |-> FALSE, edits |-> FALSE, tears |-> FALSE,
            wants |-> {{"app", "lib"}, {"lib"}}, cached |-> {}, commands |-> {"install", "gc"},
            failing |-> {}, procs |-> {p1}, profiles |-> {home}]

(* Builds and rebuilds, beside a download of one of their deps *)
Building == [Machine EXCEPT !.commands = {"install", "rebuild", "gc"}, !.failing = {"steps", "freeze"}]

Plugged == [Building EXCEPT !.wants = {{"plugin", "app"}}, !.commands = {"install"}, !.failing = {"steps"}]

(* Files that are hard links, and files that are clones *)
Sharing == [Machine EXCEPT !.edits = TRUE, !.wants = {{"lib", "tool"}, {"lib"}},
                           !.commands = {"install", "gc", "repair"}]
Cloning == [Sharing EXCEPT !.clones = TRUE, !.commands = {"install", "gc"}]

(* Paths that are deleted in place *)
Windows == [Sharing EXCEPT !.windows = TRUE, !.edits = FALSE, !.commands = {"install", "gc"}]

(* Programs that run while gc does, and a project that goes away *)
Programs == [Machine EXCEPT !.wants = {{"lib", "files"}, {"lib"}}, !.commands = {"install", "shell", "gc"},
                            !.failing = {"fetch"}, !.procs = {p1, p2}]
Projected == [Machine EXCEPT !.wants = {{"lib"}, {"tool"}}, !.profiles = {home, proj}]

(* Builds that a cache has *)
Caching == [Machine EXCEPT !.cached = {"app"}, !.commands = {"install", "rebuild", "gc"}]

PassSettings == {Building, Plugged, Sharing, Cloning, Windows, Programs, Projected, Caching}

(* A directory that lists its meta file after other files *)
TornSettings == {[Building EXCEPT !.tears = TRUE, !.failing = {}]}

(* A cache that has the build of an app *)
ServedSettings == {[Machine EXCEPT !.wants = {{"app"}}, !.cached = {"app"}, !.commands = {"install", "rebuild"}]}

(* A service of the system scope that the user may leave in place *)
ServiceSettings == {[Machine EXCEPT !.wants = {{"app"}, {}}]}

(* A repo's files on Windows, deleted where they are *)
TreeSettings == {[Machine EXCEPT !.windows = TRUE, !.wants = {{"files"}, {}}]}
============================================================================
