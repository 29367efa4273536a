----------------------------- MODULE MCLibrarySearch --------------------------
(* Every list of up to three entries over three paths and the empty one,    *)
(* every state of the files, and two built-in paths, one of them also an    *)
(* entry a user may give.                                                   *)
EXTENDS LibrarySearch

CONSTANTS a, b, c, empty

MCPaths == {a, b, c, empty}
MCEnvLists == UNION {[1 .. n -> {a, b, empty}] : n \in 0 .. 3}
MCDefaults == <<b, c>>
===============================================================================
