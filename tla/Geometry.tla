-------------------------------- MODULE Geometry ------------------------------
(***************************************************************************)
(* The sizes the OpenCL runners compute (src/opencl/common.cpp): work      *)
(* group sizes, buffer sizes, global sizes, and the array elements a       *)
(* launch touches.  DeviceInfo keeps sizes in 32 bits; the width and the   *)
(* round numbers of the code are parameters, so that TLC can check a       *)
(* scaled instance and the proofs cover the real one.                      *)
(***************************************************************************)
EXTENDS Integers

CONSTANTS
  W,             \* width of uint32_t
  Margin,        \* Margin[k]: how far below 2^k log2f still rounds up to k
  DEFAULT_WG,    \* 256, the smallest max_wg_size before the vendor caps
  QUALCOMM_WG,   \* 128
  NVIDIA_WG,     \* 256
  LOCAL_ELEMS,   \* 1024 * 1024, nr_elems of LocalMemRunner
  WI_PER_CU      \* 2048, work items per compute unit and group member

ASSUME WidthAssumption == W \in Nat \ {0} /\ Margin \in [0 .. W -> Nat]
\* What the proofs use of exponentiation; it holds of every W.
ASSUME PowersAssumption ==
  \A j \in 0 .. W : 2^j \in Nat \ {0} /\ 2^(j + 1) = 2 * 2^j
ASSUME SizesAssumption ==
  /\ DEFAULT_WG \in Nat \ {0} /\ QUALCOMM_WG \in Nat \ {0}
  /\ NVIDIA_WG \in Nat \ {0} /\ LOCAL_ELEMS \in Nat \ {0}
  /\ WI_PER_CU \in Nat \ {0}

FETCH_PER_WI == 16    \* loads of a work item of the global memory kernels
LOCAL_SLOTS  == 6     \* local memory slots of a work item

Smaller(a, b) == IF a < b THEN a ELSE b
Larger(a, b)  == IF a > b THEN a ELSE b

\* static_cast<uint32_t>
U32(n) == n % 2^W

\* max_wg_size: at least DEFAULT_WG, whatever the device says, and capped for
\* two vendors.
MaxWgSize(item, vendor) ==
  LET top == Larger(item, DEFAULT_WG)
  IN  CASE vendor = "qualcomm" -> Smaller(top, QUALCOMM_WG)
        [] vendor = "nvidia"   -> Smaller(top, NVIDIA_WG)
        [] OTHER               -> top

\* Where floorf(log2f(n)) can land for 2^k <= n < 2^(k + 1): just below a
\* power of two log2f rounds up to it; 2^W does not fit the result and is
\* converted to 0 or to the largest value, by platform.
RoundedAt(n, k) ==
  CASE 2^(k + 1) - n > Margin[k + 1]                -> {2^k}
    [] 2^(k + 1) - n <= Margin[k + 1] /\ k + 1 < W -> {2^(k + 1)}
    [] OTHER                                        -> {0, 2^W - 1}

\* round_to_power2: pow(2, floorf(log2f(n))).  log2f(0) is -inf and gives 0.
RoundToPower2(n) ==
  IF n = 0 THEN {0}
  ELSE UNION {RoundedAt(n, k) : k \in {j \in 0 .. W - 1 : 2^j <= n /\ n < 2^(j + 1)}}

\* nr_elems of GlobalMemRunner, from the device's largest allocation.
GlobalElems(alloc) == RoundToPower2((U32(alloc) \div 4) \div 2)

\* A variant without the limit by the largest allocation.
UnlimitedBytes(cus, wg, size, alloc) == U32(cus * WI_PER_CU * wg) * size

\* What CompRunner asks for before rounding.  The product of num_cus,
\* WI_PER_CU and max_wg_size is computed in 32 bits.
WantedBytes(cus, wg, size, alloc) ==
  Smaller(U32(cus * WI_PER_CU * wg) * size, U32(alloc))

\* global_size of CompRunner, in elements of the given size.
CompElems(cus, wg, size, alloc) ==
  {b \div size : b \in RoundToPower2(WantedBytes(cus, wg, size, alloc))}

\* get_global_size_divdown in one dimension.
DivDown(g, l) == (g \div l) * l

\* A variant whose groups start one group apart, not FETCH_PER_WI groups.
PackedOffset(group, lid, l, k) == group * l + lid + k * l

\* The element of A that work item lid of group reads in its k-th load, by
\* the two addressing schemes of global_bandwidth_kernels.h.
LocalOffset(group, lid, l, k)  == group * l * FETCH_PER_WI + lid + k * l

GlobalOffset(gid, gs, k)       == gid + k * gs

\* A variant without the distance between the slots of an item.
SlotsTogether(lid, l, k) == lid + k

\* The slot of the local buffer that work item lid uses for its k-th value.
LocalSlot(lid, l, k) == lid + k * l

===============================================================================
