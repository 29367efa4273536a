------------------------------- MODULE KernelWork -----------------------------
(***************************************************************************)
(* What the OpenCL kernels do: the work of an item of each kernel, which   *)
(* the runners divide by the time to get a figure, and the execution of    *)
(* one group of the local memory kernel, whose items share local memory    *)
(* and only fence their own accesses (there is no barrier).                *)
(*                                                                         *)
(* A value in local memory is known by the item and the place it was       *)
(* written for; how many integers it holds (1, 2 or 4) changes nothing in  *)
(* what the items do.                                                      *)
(***************************************************************************)
EXTENDS Geometry, Sequences, FiniteSets

CONSTANT UNSET                \* what local memory holds before it is written

VARIABLES group,              \* the size of the group, 0 before a launch
          shm_buffer,         \* the local memory of the group
          step,               \* step[i]: accesses item i has made
          tmp,                \* tmp[i]: the local tmp of shmem_swap
          loaded,             \* loaded[i]: *v1 on its way to *v2
          reduced             \* reduced[i]: the values item i has summed

kernelVars == <<group, shm_buffer, step, tmp, loaded, reduced>>

------------------------------------------------------------------------------
(* Compute kernels: how many MAD_64 the kernel of each width has.           *)

widths == {1, 2, 4, 8, 16}

\* Variant: the kernel of width 8 is that of width 4.
CopiedKernel == [v \in widths |-> IF v = 8 THEN 8 ELSE 32 \div v]

compute_sp == [v \in widths |->
  CASE v = 1 -> 16 + 16 [] v = 2 -> 16 [] v = 4 -> 8 [] v = 8 -> 4 [] v = 16 -> 2]

compute_integer == [v \in widths |->
  CASE v = 1 -> 16 + 16 [] v = 2 -> 16 [] v = 4 -> 8 [] v = 8 -> 4 [] v = 16 -> 2]

compute_dp == [v \in widths |->
  CASE v = 1 -> 16 + 16 [] v = 2 -> 16 [] v = 4 -> 8 [] v = 8 -> 4 [] v = 16 -> 2]

compute_hp == [v \in widths |->
  CASE v = 1 -> 16 + 16 [] v = 2 -> 16 [] v = 4 -> 8 [] v = 8 -> 4 [] v = 16 -> 2]

\* MAD_4, four times in MAD_16, four times in MAD_64: each a product and a sum
\* in every lane.
MAD_64(v) == 4 * 4 * 4 * 2 * v

------------------------------------------------------------------------------
(* What the figures claim, in operations or bytes.                          *)

work_per_wi == 4096

\* CompRunner::run_step
CompClaim(global_size) == global_size * work_per_wi

\* GlobalMemRunner::run_step
GlobalClaim(nr_elems) == nr_elems * 4

\* LocalMemRunner::run_step
LocalClaim(nr_elems) == (6 + 4 * 5 * 16 + 6) * nr_elems * 4

------------------------------------------------------------------------------
(* The local memory kernel.                                                 *)

TOTAL_ITERATIONS == 16

\* The swaps of a round; a fence follows the third and the fifth.
Swaps == <<<<0, 1>>, <<2, 3>>, <<4, 5>>, <<1, 2>>, <<3, 4>>>>

\* A swap reads *v2, reads *v1, writes *v2 and writes *v1.
SwapSteps   == 4 * Len(Swaps) * TOTAL_ITERATIONS
LastStep    == LOCAL_SLOTS + SwapSteps + LOCAL_SLOTS
SwapAt(s)   == Swaps[(((s - LOCAL_SLOTS) \div 4) % Len(Swaps)) + 1]
AccessAt(s) == (s - LOCAL_SLOTS) % 4

Swapping(s) == s \in LOCAL_SLOTS .. LOCAL_SLOTS + SwapSteps - 1

GroupItems == 0 .. group - 1

Slot(i, k) == LocalSlot(i, group, k)

KernelIdle == /\ group = 0
              /\ shm_buffer = <<>> /\ step = <<>>
              /\ tmp = <<>> /\ loaded = <<>> /\ reduced = <<>>

\* A group of l items starts; its local memory holds anything.
LaunchGroup(l) ==
  /\ group = 0
  /\ group' = l
  /\ shm_buffer' = [s \in 0 .. LOCAL_SLOTS * l - 1 |-> UNSET]
  /\ step' = [i \in 0 .. l - 1 |-> 0]
  /\ tmp' = [i \in 0 .. l - 1 |-> UNSET]
  /\ loaded' = [i \in 0 .. l - 1 |-> UNSET]
  /\ reduced' = [i \in 0 .. l - 1 |-> {}]

Advances(i) == step' = [step EXCEPT ![i] = @ + 1] /\ UNCHANGED group

\* set_vector(shm_buffer, tid + k * blockDim, init_val(...))
SetVector(i) ==
  /\ step[i] < LOCAL_SLOTS
  /\ shm_buffer' = [shm_buffer EXCEPT ![Slot(i, step[i])] = <<i, step[i]>>]
  /\ Advances(i)
  /\ UNCHANGED <<tmp, loaded, reduced>>

\* tmp = *v2
SwapReadSecond(i) ==
  /\ Swapping(step[i]) /\ AccessAt(step[i]) = 0
  /\ tmp' = [tmp EXCEPT ![i] = shm_buffer[Slot(i, SwapAt(step[i])[2])]]
  /\ Advances(i)
  /\ UNCHANGED <<shm_buffer, loaded, reduced>>

\* *v2 = *v1, a read and a write
SwapReadFirst(i) ==
  /\ Swapping(step[i]) /\ AccessAt(step[i]) = 1
  /\ loaded' = [loaded EXCEPT ![i] = shm_buffer[Slot(i, SwapAt(step[i])[1])]]
  /\ Advances(i)
  /\ UNCHANGED <<shm_buffer, tmp, reduced>>

SwapWriteSecond(i) ==
  /\ Swapping(step[i]) /\ AccessAt(step[i]) = 2
  /\ shm_buffer' = [shm_buffer EXCEPT ![Slot(i, SwapAt(step[i])[2])] = loaded[i]]
  /\ Advances(i)
  /\ UNCHANGED <<tmp, loaded, reduced>>

\* *v1 = tmp
SwapWriteFirst(i) ==
  /\ Swapping(step[i]) /\ AccessAt(step[i]) = 3
  /\ shm_buffer' = [shm_buffer EXCEPT ![Slot(i, SwapAt(step[i])[1])] = tmp[i]]
  /\ Advances(i)
  /\ UNCHANGED <<tmp, loaded, reduced>>

\* reduce_vector over the six places, in their order
Reduce(i) ==
  LET k == step[i] - LOCAL_SLOTS - SwapSteps IN
  /\ k \in 0 .. LOCAL_SLOTS - 1
  /\ reduced' = [reduced EXCEPT ![i] = @ \cup {shm_buffer[Slot(i, k)]}]
  /\ Advances(i)
  /\ UNCHANGED <<shm_buffer, tmp, loaded>>

Item(i) == \/ SetVector(i) \/ SwapReadSecond(i) \/ SwapReadFirst(i)
           \/ SwapWriteSecond(i) \/ SwapWriteFirst(i) \/ Reduce(i)

------------------------------------------------------------------------------
\* Nothing but the layout of the slots keeps the items of a group apart: the
\* slots of an item never hold a value of another, and in the end the item has
\* summed exactly the six values it wrote, however the items are interleaved.
ItemsKeepApart ==
  \A i \in GroupItems :
    LET own == {i} \X (0 .. LOCAL_SLOTS - 1) IN
    /\ \A k \in 0 .. LOCAL_SLOTS - 1 : shm_buffer[Slot(i, k)] \in own \cup {UNSET}
    /\ step[i] = LastStep => reduced[i] = own
===============================================================================
