---------------------------- MODULE MCClWrapper ----------------------------
(***************************************************************************)
(* Three uses of the C++ bindings that share no state, one per behaviour:  *)
(*  - wrappers: three variables of one class, two objects of the driver,   *)
(*    one raw reference to each and up to two failing calls: enough for    *)
(*    self-assignment, aliases and both orders of destruction;             *)
(*  - functors: two threads, whose functors share a kernel or do not, with *)
(*    more, as many or fewer types than the kernel has parameters;         *)
(*  - transfers: a buffer constructed and copied to or from.               *)
(***************************************************************************)
EXTENDS ClWrapper, ClFunctor, ClTransfer, TLC

CONSTANTS s1, s2, s3, o1, o2, c1, c2, k1, k2

MCSlots   == {s1, s2, s3}
MCObjects == {o1, o2}
MCCallers == {c1, c2}
MCKernels == {k1, k2}
Symmetry  == Permutations(MCSlots) \cup Permutations(MCObjects)
             \cup Permutations(MCCallers)

VARIABLE used       \* what of the bindings the behaviour uses

NoFunctors  == /\ raises = FALSE /\ holds = [c \in Callers |-> k1]
               /\ types = [c \in Callers |-> 1] /\ params = [k \in Kernels |-> 1]
               /\ FunctorIdle
NoTransfers == excepts = FALSE /\ TransferIdle
NoWrappers  == /\ kind = "other" /\ throws = FALSE /\ newer = [o \in Objects |-> FALSE]
               /\ counted = [o \in Objects |-> TRUE] /\ Init

\* Which kernel is shared, and the parameters of one that no functor holds,
\* make no difference.
HeldKernels == /\ holds[c1] = holds[c2] => holds[c1] = k1
               /\ \A k \in Kernels : params[k] = 1 \/ \E c \in Callers : holds[c] = k

BindingsInit ==
  \/ used = "wrappers"  /\ Init        /\ NoFunctors  /\ NoTransfers
  \/ used = "functors"  /\ FunctorInit /\ HeldKernels /\ NoWrappers /\ NoTransfers
  \/ used = "transfers" /\ TransferInit /\ NoWrappers /\ NoFunctors

BindingsNext ==
  /\ \/ used = "wrappers"  /\ Next         /\ UNCHANGED <<functorVars, transferVars>>
     \/ used = "functors"  /\ FunctorNext  /\ UNCHANGED <<vars, transferVars>>
     \/ used = "transfers" /\ TransferNext /\ UNCHANGED <<vars, functorVars>>
  /\ UNCHANGED used

Bindings == BindingsInit /\ [][BindingsNext]_<<vars, functorVars, transferVars, used>>
=============================================================================
