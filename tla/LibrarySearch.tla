------------------------------ MODULE LibrarySearch ---------------------------
(***************************************************************************)
(* get_library_handle() of opencl-stub/src/libopencl.cpp: the search for   *)
(* the OpenCL library along LIBOPENCL_PATH and then the built-in paths.    *)
(* It is what OpenLibrary of module StubLoader stands for.  The list of an *)
(* unset variable is <<>>; a variable that is set has at least one entry,  *)
(* possibly the empty path.                                                *)
(***************************************************************************)
EXTENDS Integers, Sequences

CONSTANTS
  Paths,             \* the paths that occur
  EmptyPath,         \* the empty path, which names no file
  None,              \* the null pointer
  EnvLists,          \* the values LIBOPENCL_PATH can have, split at colons
  default_so_paths   \* the built-in paths

ASSUME SearchAssumption ==
  /\ None \notin Paths /\ EmptyPath \in Paths
  /\ EnvLists \subseteq Seq(Paths)
  /\ default_so_paths \in Seq(Paths)

VARIABLES
  file,      \* what is at a path: nothing, a file that dlopen refuses or takes
  env,       \* the entries of LIBOPENCL_PATH
  phase,
  i,         \* the entry of the list being looked at
  path,      \* the path found
  so_handle,    \* the handle: the path it was opened from
  opened     \* how often dlopen has succeeded on a path

searchVars == <<file, env, phase, i, path, so_handle, opened>>

SearchInit ==
  /\ file \in [Paths -> {"absent", "refused", "library"}]
  /\ file[EmptyPath] = "absent"
  /\ env \in EnvLists
  /\ phase = IF env = <<>> THEN "defaults" ELSE "colon"
  /\ i = 1
  /\ path = None /\ so_handle = None
  /\ opened = [p \in Paths |-> 0]

Opens(p) == file[p] = "library"

\* handle after open_shared_lib(p): untouched when there is no file.
HandleAfter(p) ==
  IF file[p] = "absent" THEN so_handle ELSE IF Opens(p) THEN p ELSE None

\* open_shared_lib(p)
TryOpen(p) ==
  /\ so_handle' = HandleAfter(p)
  /\ opened' = IF Opens(p) THEN [opened EXCEPT ![p] = @ + 1] ELSE opened

\* A variant that moves past the entry even when it has opened.
NextBegin(p) == i + 1

\* begin after a colon: a hit leaves the loop before begin moves.
BeginAfter(p) == IF Opens(p) THEN i ELSE i + 1

\* The entry ends at a colon.
EntryBeforeColon ==
  /\ phase = "colon" /\ i < Len(env)
  /\ TryOpen(env[i])
  /\ path' = IF Opens(env[i]) THEN env[i] ELSE path
  /\ i' = BeginAfter(env[i])
  /\ phase' = IF Opens(env[i]) THEN "last" ELSE phase
  /\ UNCHANGED <<file, env>>

\* The end of the string is reached.
EndOfList ==
  /\ phase = "colon" /\ i = Len(env)
  /\ phase' = "last"
  /\ UNCHANGED <<file, env, i, path, so_handle, opened>>

\* A variant that looks at the built-in paths whatever has been found.
AlwaysDefaults == TRUE

\* The built-in paths are searched only without a hit.
SearchDefaults == path' = None

\* The entry at begin after the loop: the last one, or the hit once more.
EntryAtBegin ==
  /\ phase = "last"
  /\ TryOpen(env[i])
  /\ path' = IF Opens(env[i]) THEN env[i] ELSE path
  /\ phase' = IF SearchDefaults THEN "defaults" ELSE "done"
  /\ i' = 1
  /\ UNCHANGED <<file, env>>

\* One built-in path.
DefaultPath ==
  /\ phase = "defaults" /\ i <= Len(default_so_paths)
  /\ TryOpen(default_so_paths[i])
  /\ IF Opens(default_so_paths[i])
     THEN path' = default_so_paths[i] /\ phase' = "done" /\ UNCHANGED i
     ELSE i' = i + 1 /\ UNCHANGED <<path, phase>>
  /\ UNCHANGED <<file, env>>

\* Nothing is found, and the null pointer is returned.
NotFound ==
  /\ phase = "defaults" /\ i > Len(default_so_paths)
  /\ phase' = "done"
  /\ so_handle' = None
  /\ UNCHANGED <<file, env, i, path, opened>>

SearchNext ==
  \/ EntryBeforeColon
  \/ EndOfList
  \/ EntryAtBegin
  \/ DefaultPath
  \/ NotFound

SearchSpec == SearchInit /\ [][SearchNext]_searchVars

-------------------------------------------------------------------------------

\* The variables keep their types.
SearchTypeOK ==
  /\ file \in [Paths -> {"absent", "refused", "library"}]
  /\ env \in EnvLists
  /\ phase \in {"colon", "last", "defaults", "done"}
  /\ i \in 1 .. Len(env) + Len(default_so_paths) + 1
  /\ path \in Paths \cup {None} /\ so_handle \in Paths \cup {None}
  /\ opened \in [Paths -> Nat]

\* No entry of list before position n is a library.
NoneBefore(list, n) == \A j \in 1 .. Len(list) : j < n => ~Opens(list[j])

\* p is the first library of list.
FirstOf(list, p) ==
  \E j \in 1 .. Len(list) : list[j] = p /\ Opens(p) /\ NoneBefore(list, j)

\* The handle returned is that of the first library in the order of the
\* search, a hit in LIBOPENCL_PATH always winning over the built-in paths, and
\* null exactly when no path at all is a library.
FirstLibraryWins ==
  phase = "done" =>
    \/ FirstOf(env, path) /\ so_handle = path
    \/ /\ NoneBefore(env, Len(env) + 1)
       /\ FirstOf(default_so_paths, path) /\ so_handle = path
    \/ /\ path = None /\ so_handle = None
       /\ NoneBefore(env, Len(env) + 1)
       /\ NoneBefore(default_so_paths, Len(default_so_paths) + 1)

\* The library returned is the only one left open, opened twice when it was
\* found before the last entry of LIBOPENCL_PATH and once otherwise.
OnlyResultOpened ==
  phase = "done" =>
    \A p \in Paths :
      opened[p] = IF p # path THEN 0
                  ELSE IF \E j \in 1 .. Len(env) - 1 : env[j] = p THEN 2
                  ELSE 1

\* What holds between the steps of the search.
Progress ==
  /\ phase = "colon" =>
       /\ path = None /\ so_handle = None
       /\ i \in 1 .. Len(env) /\ NoneBefore(env, i)
  /\ phase = "last" =>
       /\ i \in 1 .. Len(env) /\ NoneBefore(env, i)
       /\ \/ path = None /\ so_handle = None /\ i = Len(env)
          \/ /\ path = env[i] /\ so_handle = path /\ Opens(path) /\ i < Len(env)
             /\ \A p \in Paths : opened[p] = IF p = path THEN 1 ELSE 0
  /\ phase = "defaults" =>
       /\ path = None /\ so_handle = None
       /\ NoneBefore(env, Len(env) + 1)
       /\ i \in 1 .. Len(default_so_paths) + 1
       /\ NoneBefore(default_so_paths, i)
  /\ path = None => \A p \in Paths : opened[p] = 0

SearchInv == SearchTypeOK /\ Progress /\ FirstLibraryWins /\ OnlyResultOpened
===============================================================================
