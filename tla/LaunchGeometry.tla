----------------------------- MODULE LaunchGeometry ---------------------------
(***************************************************************************)
(* Devices and launches, one after another: each state is a size that a    *)
(* device reports and the size of a work group, and the figures, buffers   *)
(* and addresses that Geometry and KernelWork give for them.  At the first *)
(* device the local memory kernel runs in a group of that size.            *)
(***************************************************************************)
EXTENDS KernelWork

CONSTANTS MaxRaw,     \* bound of the sizes a device reports
          MaxLocal,   \* bound of the sizes of a group
          MaxGroup    \* bound of the group that is executed

VARIABLE at           \* the point of the input space being looked at

Start == at = [n |-> 0, l |-> 1] /\ KernelIdle

NextSize  == at.n < MaxRaw /\ at' = [at EXCEPT !.n = @ + 1]
NextGroup == at.n = 0 /\ at.l < MaxLocal /\ at' = [at EXCEPT !.l = @ + 1]
Scan == group = 0 /\ (NextSize \/ NextGroup) /\ UNCHANGED kernelVars

Run == /\ at.n = 0 /\ at.l <= MaxGroup
       /\ LaunchGroup(at.l) \/ \E i \in GroupItems : Item(i)
       /\ UNCHANGED at

Enumerate == Start /\ [][Scan \/ Run]_<<at, kernelVars>>

------------------------------------------------------------------------------
\* Just below a power of two, where log2f may give the next integer.
InMargin(b) == \E k \in 1 .. W : 2^k > b /\ 2^k - b <= Margin[k]

\* The global memory runner asks for empty buffers exactly when the low word
\* of the largest allocation is under 8 bytes, as for 4 GiB.  Each of its two
\* buffers is within what the device allocates at once.  The two together
\* exceed that only if the elements wanted lie in the margin of log2f, as for
\* 2^32 - 1 bytes, and so does a buffer of a compute runner only if the bytes
\* wanted do.
BuffersFit ==
  /\ \A e \in GlobalElems(at.n) :
       /\ e = 0 <=> U32(at.n) < 8
       /\ e * 4 <= at.n
       /\ 2 * (e * 4) <= at.n \/ InMargin((U32(at.n) \div 4) \div 2)
  /\ \A size \in {2, 4, 8}, cus \in {1, 3} :
       \A e \in CompElems(cus, at.l, size, at.n) :
         e * size <= at.n \/ InMargin(WantedBytes(cus, at.l, size, at.n))

\* What a figure claims is what the launched items do, or more by less than
\* the work of a group, the part that dividing down leaves out.
FiguresMatchWork ==
  /\ \A size \in {2, 4, 8} : \A e \in CompElems(1, at.l, size, at.n) :
       \A mads \in {compute_sp, compute_integer, compute_dp, compute_hp}, v \in widths :
         CompClaim(e) - DivDown(e, at.l) * mads[v] * MAD_64(v)
           \in 0 .. at.l * work_per_wi - 1
  /\ \A e \in GlobalElems(at.n), v \in widths :
       LET item == FETCH_PER_WI * v * 4
       IN  GlobalClaim(e) - DivDown((e \div v) \div FETCH_PER_WI, at.l) * item
             \in 0 .. at.l * item - 1
  /\ \A v \in {1, 2, 4} :
       LET item == LastStep * v * 4
       IN  LocalClaim(LOCAL_ELEMS) - DivDown(LOCAL_ELEMS \div v, at.l) * item
             \in 0 .. at.l * item - 1

\* Every element of the part of A that a launch of g items covers is read
\* exactly once (there are as many loads as elements), by either addressing
\* scheme, and no other.
CoversOnce(g, l) ==
  LET gs == DivDown(g, l)
      loads == (0 .. gs - 1) \X (0 .. FETCH_PER_WI - 1)
      byGroup == {LocalOffset(x[1] \div l, x[1] % l, l, x[2]) : x \in loads}
      byGrid == {GlobalOffset(x[1], gs, x[2]) : x \in loads}
  IN  byGroup = 0 .. gs * FETCH_PER_WI - 1 /\ byGrid = byGroup

\* The launches looked at cover their elements once.
EachElementOnce == CoversOnce(at.n % 32, at.l)
===============================================================================
