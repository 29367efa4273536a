----------------------------- MODULE LazyDispatch -----------------------------
(***************************************************************************)
(* What the OpenCL stub of src/opencl-stub promises its callers, with no   *)
(* table, no mutex and no init stubs in sight: the OpenCL library is       *)
(* chosen once, lazily, because of some call; from then on every call of   *)
(* an OpenCL function is answered by that library if it exports the        *)
(* function, and by the stub's error answer otherwise.                     *)
(***************************************************************************)
EXTENDS Naturals

CONSTANTS
  Threads,   \* the threads that call OpenCL functions
  Funcs,     \* the functions of the API (indices of g_func_name)
  Libs,      \* the libraries that dlopen can return
  Exports    \* Exports[l]: the functions that dlsym finds in library l

VARIABLES
  lib,       \* the chosen library, NoLib when none can be opened
  call,      \* call[t]: the function t is calling, Idle between calls
  answer     \* answer[t]: who answered the last call of t

vars == <<lib, call, answer>>

Idle     == 0
Unopened == "unopened"
NoLib    == "nolib"
Nobody   == "nobody"
ErrorStub == "error"

\* Who must answer a call of f when the chosen library is l.
Provider(l, f) == IF l \in Libs /\ f \in Exports[l] THEN l ELSE ErrorStub

Init ==
  /\ lib = Unopened
  /\ call = [t \in Threads |-> Idle]
  /\ answer = [t \in Threads |-> Nobody]

Begin(t, f) ==
  /\ call[t] = Idle
  /\ call' = [call EXCEPT ![t] = f]
  /\ answer' = [answer EXCEPT ![t] = Nobody]
  /\ UNCHANGED lib

Open(l) ==
  /\ lib = Unopened
  /\ \E t \in Threads : call[t] # Idle
  /\ lib' = l
  /\ UNCHANGED <<call, answer>>

Answer(t) ==
  /\ call[t] # Idle
  /\ lib # Unopened
  /\ answer' = [answer EXCEPT ![t] = Provider(lib, call[t])]
  /\ call' = [call EXCEPT ![t] = Idle]
  /\ UNCHANGED lib

Next ==
  \/ \E t \in Threads, f \in Funcs : Begin(t, f)
  \/ \E l \in Libs \cup {NoLib} : Open(l)
  \/ \E t \in Threads : Answer(t)

Spec == Init /\ [][Next]_vars

\* A call in progress leads to the choice of a library and to an answer.
Fairness ==
  /\ WF_vars(\E l \in Libs \cup {NoLib} : Open(l))
  /\ \A t \in Threads : WF_vars(Answer(t))

FairSpec == Spec /\ Fairness
===============================================================================
