---------------------------- MODULE CpuBenchmarks ----------------------------
(***************************************************************************)
(* The micro-benchmarks of the four processor families as tables for       *)
(* BenchLoop.  What an instruction computes is left out; what it reads and *)
(* writes is kept.  A benchmark has the name it has in the code and stands *)
(* for all the benchmarks of its file with the same registers: fmla for    *)
(* mul, addp, sdot and every other "op v_i, v_i, v_i".                     *)
(***************************************************************************)
EXTENDS Integers, Sequences, FiniteSets

CONSTANTS RUNS,    \* iterations of a loop (800000 in the code)
          SCALE    \* factor of the x86 and LoongArch register loops (100)

------------------------------------------------------------------------------
\* Locations, each a set of units: vector and general registers of AArch64;
\* d registers of ARMv7, of which a q register is two; the one cell of memory
\* at a_ptr.
V(i) == {<<"v", i>>}
X(i) == {<<"x", i>>}
D(i) == {<<"d", i>>}
Q(i) == D(2 * i) \cup D(2 * i + 1)
R(i) == {<<"r", i>>}
Mem  == {<<"mem", 0>>}

Vs(a, b) == UNION {V(i) : i \in a..b}
Xs(a, b) == UNION {X(i) : i \in a..b}
Qs(a, b) == UNION {Q(i) : i \in a..b}
Rs(a, b) == UNION {R(i) : i \in a..b}

Op(dst, src) == [dst |-> dst, src |-> src]
Acc(r, s)    == Op(r, r \cup s)      \* fmla, or any op r, r, r

\* Variants: an operation that does not read what it writes; a move into a lane.
Fresh(r)       == Op(r, {})
LaneMove(r, s) == Op(r, r \cup s)

Rmw(r)       == Op(r, r)
Move(r, s)   == Op(r, s)             \* dup, vmovl
Ins(r, x)    == Op(r, r \cup x)      \* writes one lane, keeps the others
Ldr(r)       == Op(r, Mem)
Str(r)       == Op(Mem, r)
Nop          == Op({}, {})           \* nop, prfm, pld

Loads(regs)  == [j \in DOMAIN regs |-> Ldr(V(regs[j]))]
Ins1(regs)   == [j \in DOMAIN regs |-> Ins(V(regs[j]), X(1))]

\* UNROLL_CALL(n, cb) and UNROLL_CALL_START6(n, cb).  The callback cb is a
\* sequence of instructions, each a function of the register number.
Unroll(n, cb) == [k \in 1..n |-> [j \in DOMAIN cb |-> cb[j][k - 1]]]
UnrollStart6(n, cb) == [k \in 1..n |-> [j \in DOMAIN cb |-> cb[j][k + 5]]]

\* A callback that ignores the number, as those of the latency loops do.
Same(n, instructions) == [k \in 1..n |-> instructions]

\* The functions of the register number in use.
Reg == 0..31
Fixed(x) == [i \in Reg |-> x]
LdrV     == [i \in Reg |-> Ldr(V(i))]
StrV     == [i \in Reg |-> Str(V(i))]
RmwV     == [i \in Reg |-> Rmw(V(i))]
AccV(s)  == [i \in Reg |-> Acc(V(i), s)]
MoveV(s) == [i \in Reg |-> Move(V(i), s)]
InsV(s)  == [i \in Reg |-> Ins(V(i), s)]
LdrX     == [i \in Reg |-> Ldr(X(i))]
RmwR     == [i \in Reg |-> Rmw(R(i))]
LdrD     == [i \in Reg |-> Ldr(D(i))]
StrD     == [i \in Reg |-> Str(D(i))]
RmwD     == [i \in Reg |-> Rmw(D(i))]
AccD(s)  == [i \in Reg |-> Acc(D(i), s)]
LdrQ     == [i \in Reg |-> Ldr(Q(i))]
RmwQ     == [i \in Reg |-> Rmw(Q(i))]
AccQ(s)  == [i \in Reg |-> Acc(Q(i), s)]
MoveQ(s) == [i \in Reg |-> Move(Q(i), s)]
AccOwn   == [i \in Reg |-> Acc(Q(i), D(i) \cup D(0))]   \* vmlal.s16 q_i, d_i, d0[0]

\* Bodies written out by hand: n multiply-adds into v16, v17, ..., and before
\* every m-th of them one instruction of the sequence pre.
Packed(n, m, pre, op) ==
  [k \in 1..n |-> IF (k - 1) % m = 0
                  THEN <<pre[1 + (k - 1) \div m], op[15 + k]>>
                  ELSE <<op[15 + k]>>]

------------------------------------------------------------------------------
\* AArch64: THROUGHPUT, LATENCY, THROUGHPUT_MEM_ITER, LATENCY_MEM.
A64Saved == Vs(8, 15) \cup Xs(19, 28)
A64Pool  == {X(0), X(2), X(20), X(21), X(28)}

A64(body, counter, counts, zeroed, clobbers, per, memory) ==
  [body |-> body, counter |-> counter, counts |-> counts, zeroed |-> zeroed,
   clobbers |-> clobbers, per |-> per, loops |-> RUNS, memory |-> memory,
   pool |-> A64Pool, saved |-> A64Saved]

THROUGHPUT(cb) ==
  A64(Unroll(20, cb), X(0), "down", Vs(0, 19), Vs(0, 22) \cup X(0), 20, FALSE)
LATENCY(instructions) ==
  A64(Same(20, instructions), X(0), "down", V(0), V(0) \cup X(0), 20, FALSE)
THROUGHPUT_MEM_ITER(cb, n) ==
  A64(Unroll(n, cb), X(28), "down", Vs(0, n - 1),
      Vs(0, 22) \cup Xs(0, 20) \cup X(28), n, TRUE)
THROUGHPUT_MEM(cb) == THROUGHPUT_MEM_ITER(cb, 20)
LATENCY_MEM(instructions) ==
  A64(Same(20, instructions), X(28), "down", V(0),
      Vs(0, 1) \cup Xs(0, 1) \cup X(28), 20, TRUE)

\* Variants of ByHand: a counter that some of the bodies load; a clobber list
\* without the callee-saved vector registers, or without the counter; the
\* count of the macros.
ByHandCounterX2(body, counter, xs, per) ==
  A64(body, X(2), "up", Vs(0, 19), Vs(0, 31) \cup X(2) \cup xs, per, TRUE)
ByHandClobbers8(body, counter, xs, per) ==
  A64(body, counter, "up", Vs(0, 19), Vs(0, 7) \cup counter \cup xs, per, TRUE)
ByHandCounterUnnamed(body, counter, xs, per) ==
  A64(body, counter, "up", Vs(0, 19), Vs(0, 31) \cup (xs \ counter), per, TRUE)
ByHandPer20(body, counter, xs, per) ==
  A64(body, counter, "up", Vs(0, 19), Vs(0, 31) \cup counter \cup xs, 20, TRUE)

\* The loops written out by hand count upwards, in x0, x20 or x28.
ByHand(body, counter, xs, per) ==
  A64(body, counter, "up", Vs(0, 19), Vs(0, 31) \cup counter \cup xs, per, TRUE)

Both(t, l) == [throughput |-> t, latency |-> l]

\* aarch64.h: one instruction, or one instruction twice, per operation.
A64Single ==
  [ldq  |-> Both(THROUGHPUT_MEM(<<LdrV>>), LATENCY_MEM(<<Ldr(V(0))>>)),
   lddx2 |-> Both(THROUGHPUT_MEM(<<Fixed(Ldr(Vs(0, 1)))>>),
                  LATENCY_MEM(<<Ldr(Vs(0, 1))>>)),
   nop  |-> Both(THROUGHPUT_MEM(<<Fixed(Nop)>>), LATENCY_MEM(<<Nop>>)),
   stq  |-> Both(THROUGHPUT_MEM(<<StrV>>), LATENCY_MEM(<<Str(V(0))>>)),
   dupd_lane_s8 |-> Both(THROUGHPUT_MEM(<<MoveV(V(21))>>),
                         LATENCY_MEM(<<Move(V(0), V(0))>>)),
   mlaq_lane_s16 |-> Both(THROUGHPUT_MEM_ITER(<<AccV(V(15))>>, 15),
                          LATENCY_MEM(<<Rmw(V(0))>>)),
   ldpq |-> Both(ByHand([k \in 1..16 |-> <<Ldr(Vs(2 * k - 2, 2 * k - 1))>>],
                        X(0), {}, 16),
                 LATENCY_MEM(<<Ldr(Vs(0, 1))>>))]

A64Float ==
  [fmla    |-> Both(THROUGHPUT(<<RmwV>>), LATENCY(<<Rmw(V(0))>>)),
   fmla_x2 |-> Both(THROUGHPUT(<<RmwV, RmwV>>),
                    LATENCY(<<Rmw(V(0)), Rmw(V(0))>>))]

A64Integer ==
  [tbl |-> A64Float.fmla,
   ins |-> Both(THROUGHPUT_MEM(<<InsV(X(1))>>),
                LATENCY_MEM(<<Ins(V(0), X(0))>>))]

\* Eleven prfm in a loop that returns RUNS * 16.
A64Prefetch ==
  [prefetch_very_long |-> Both(ByHand([k \in 1..11 |-> <<Nop>>], X(20), Xs(0, 19), 16),
                               LATENCY_MEM(<<Nop>>))]

\* aarch64_dual_issue.h: combinations built by the macros.
LdPairs ==
  [ldd_ldx_ins |-> Both(
     THROUGHPUT_MEM(<<LdrV, LdrX, Fixed(Ins(V(20), X(20)))>>),
     LATENCY_MEM(<<Ldr(V(0)), Ldr(X(0)), Ins(V(0), X(0))>>)),
   ldq_fmlaq |-> Both(THROUGHPUT_MEM(<<LdrV, RmwV>>),
                      LATENCY_MEM(<<Ldr(V(0)), Rmw(V(0))>>))]

SepPairs ==
  [ins_fmlaq_lane_sep |-> Both(
     THROUGHPUT_MEM(<<Fixed(Ins(V(21), X(1))), RmwV>>),
     LATENCY_MEM(<<Ins(V(0), X(0)), Rmw(V(1))>>)),
   dupd_fmlaq_lane_sep |-> Both(
     THROUGHPUT_MEM(<<Fixed(Move(V(21), X(1))), RmwV>>),
     LATENCY_MEM(<<Move(V(0), X(0)), Rmw(V(1))>>)),
   ldqstq |-> Both(THROUGHPUT_MEM(<<LdrV, StrV>>),
                   LATENCY_MEM(<<Ldr(V(0)), Str(V(0))>>)),
   dupd_lane_smlal_s8 |-> Both(
     THROUGHPUT_MEM(<<Fixed(Move(V(20), V(21))), RmwV>>),
     LATENCY_MEM(<<Move(V(0), V(0)), Rmw(V(0))>>)),
   ldd_fmlaq_lane_sep |-> Both(
     THROUGHPUT_MEM(<<Fixed(Ldr(V(21))), RmwV>>),
     LATENCY_MEM(<<Ldr(V(0)), Rmw(V(1))>>)),
   ldd_smlalq_sep |-> Both(
     THROUGHPUT_MEM(<<Fixed(Ldr(V(21))), RmwV>>),
     LATENCY_MEM(<<Ldr(V(1)), Rmw(V(1))>>)),
   lddx2_smlalq_sep |-> Both(
     THROUGHPUT_MEM(<<Fixed(Ldr(Vs(21, 22))), RmwV>>),
     LATENCY_MEM(<<Ldr(Vs(0, 1)), Rmw(V(1))>>))]

LdxPair ==
  [ldx_fmlaq_lane_sep |-> Both(
     THROUGHPUT_MEM(<<LdrX, RmwV>>),
     LATENCY_MEM(<<Ldr(X(0)), Rmw(V(1))>>))]

\* (The latency loop of smlal_8b_dupd executes addp where it should smlal.)
SmlalPairs ==
  [smlal_8b_addp |-> Both(
     THROUGHPUT(<<Fixed(Move(V(21), V(22))), RmwV>>),
     LATENCY(<<Rmw(V(0)), Rmw(V(0))>>)),
   smlal_8b_dupd |-> Both(
     THROUGHPUT(<<Fixed(Move(V(21), V(22))), RmwV>>),
     LATENCY(<<Move(V(0), V(0)), Rmw(V(0))>>)),
   smlal_sadalp |-> Both(
     THROUGHPUT(<<RmwV, RmwV>>),
     LATENCY(<<Rmw(V(0)), Rmw(V(0))>>)),
   smull_smlal_sadalp |-> Both(
     THROUGHPUT(<<RmwV, RmwV, RmwV>>),
     LATENCY(<<Rmw(V(0)), Rmw(V(0)), Rmw(V(0))>>))]

LdrPairs ==
  [ldrd_sshll |-> Both(
     THROUGHPUT_MEM(<<Fixed(Ldr(V(21))), RmwV>>),
     LATENCY_MEM(<<Ldr(V(0)), Rmw(V(0))>>)),
   ldrd_sdot_lane |-> Both(
     THROUGHPUT_MEM(<<Fixed(Ldr(V(21))), RmwV>>),
     LATENCY_MEM(<<Ldr(V(1)), Rmw(V(1))>>))]

\* aarch64_dual_issue.h: loops written out by hand, one group per operation
\* that is counted.
InsLdr ==
  [ins_ldd |-> Both(
     ByHand([k \in 1..16 |-> <<Ins(V(2 * k - 2), X(0)), Ldr(V(2 * k - 1))>>],
            X(28), Xs(0, 20), 16),
     LATENCY_MEM(<<Ins(V(0), X(0)), Ldr(V(0))>>))]

LdFmla ==
  [stq_fmlaq_lane |-> Both(
     ByHand(Packed(15, 3, [j \in 1..5 |-> Str(V(0))], RmwV), X(0), {}, 15),
     LATENCY_MEM(<<Str(V(0)), Rmw(V(0))>>)),
   ldq_fmlaq_sep |-> Both(
     ByHand(Packed(16, 2, [j \in 1..8 |-> Ldr(V(2 * j - 2))], RmwV), X(0), {}, 16),
     LATENCY_MEM(<<Ldr(V(0)), Rmw(V(1))>>))]

LdFmlaLane ==
  [ldq_fmlaq_lane_sep |-> LdFmla.ldq_fmlaq_sep,
   ldd_fmlaq_sep |-> Both(
     ByHand(Packed(16, 1, [j \in 1..16 |-> Ldr(V(j - 1))], RmwV), X(0), {}, 16),
     LATENCY_MEM(<<Ldr(V(0)), Rmw(V(1))>>))]

Smlal ==
  [ldx_ins_smlalq_sep |-> Both(
     ByHand([k \in 1..16 |->
               LET m == Rmw(V(15 + k)) IN
               CASE k % 4 = 1 -> <<m, Ldr(X(2))>>
                 [] k % 4 = 0 -> <<m, Ldr(V(3)), Ins(V(<<4, 8, 12, 15>>[k \div 4]), X(5))>>
                 [] OTHER -> <<m>>],
            X(20), Xs(0, 19), 16),
     LATENCY_MEM(<<Ldr(X(0)), Ins(V(1), X(0)), Rmw(V(1))>>)),
   ins_smlalq_sep_1_2 |-> Both(
     ByHand([k \in 1..16 |->
               LET m == Rmw(V(15 + k)) IN
               IF k % 2 = 1 THEN <<m>>
               ELSE <<m, Ins(V(IF k = 16 THEN 15 ELSE 3), X(5))>>],
            X(20), Xs(0, 19), 16),
     LATENCY_MEM(<<Ins(V(1), X(0)), Rmw(V(1))>>))]

OneToFour ==
  [ldd_fmlaq_lane_1_4_sep |-> Both(
     ByHand(Packed(16, 4, Loads(<<0, 2, 6, 11>>), RmwV),
            X(20), Xs(0, 19) \cup X(22), 16),
     LATENCY_MEM(<<Ldr(X(0)), Rmw(V(1))>>)),
   ldd_mla_s16_lane_1_4_sep |-> Both(
     ByHand(Packed(16, 4, Loads(<<0, 2, 6, 11>>),
                   AccV(V(1))),
            X(20), Xs(0, 19) \cup X(22), 16),
     LATENCY_MEM(<<Ldr(V(1)), Rmw(V(1))>>))]

SshllIns ==
  [sshll_ins_sep |-> Both(
     ByHand([k \in 1..10 |-> <<Rmw(V(2 * k - 2)), Ins(V(2 * k - 1), X(0))>>],
            X(20), Xs(0, 19) \cup X(22), 10),
     LATENCY_MEM(<<Ins(V(1), X(0)), Rmw(V(1))>>))]

LdqInsToFour ==
  [ldq_fmlaq_lane_1_4_sep |-> Both(
     ByHand(Packed(16, 4, Loads(<<0, 2, 6, 11>>), RmwV),
            X(20), Xs(0, 19) \cup X(22), 16),
     LATENCY_MEM(<<Ldr(V(1)), Rmw(V(1))>>)),
   ins_fmlaq_lane_1_4_sep |-> Both(
     ByHand(Packed(16, 4, [j \in 1..4 |-> Ins(V(0), X(0))], RmwV),
            X(20), Xs(0, 19) \cup X(22), 16),
     LATENCY_MEM(<<Ins(V(1), X(0)), Rmw(V(1))>>))]

OneToThree ==
  [ldd_fmlaq_lane_1_3_sep |-> Both(
     ByHand([k \in 1..15 |->
               LET m == Rmw(V(15 + k))  n == (k + 2) \div 3 IN
               CASE k % 3 = 1 -> <<Ldr(V(<<0, 2, 4, 6, 11>>[n])),
                                   Ins(V(<<1, 3, 5, 7, 12>>[n]), X(1)), m>>
                 [] k % 3 = 2 -> <<Ldr(X(2)), m>>
                 [] OTHER -> IF k = 15 THEN <<m>> ELSE <<Nop, m, Nop>>],
            X(20), Xs(0, 19) \cup X(22), 15),
     LATENCY_MEM(<<Ldr(X(0)), Ins(V(1), X(0)), Rmw(V(1))>>)),
   ins_fmlaq_lane_1_3_sep |-> Both(
     ByHand(Packed(15, 3, Ins1(<<1, 3, 5, 7, 12>>), RmwV),
            X(20), Xs(0, 19) \cup X(22), 15),
     LATENCY_MEM(<<Ldr(X(0)), Ins(V(1), X(0)), Rmw(V(1))>>))]

LdqToThreeAndTwo ==
  [ldq_fmlaq_lane_1_3_sep |-> Both(
     ByHand(Packed(15, 3, Loads(<<0, 2, 6, 7, 7>>), RmwV),
            X(20), Xs(0, 19) \cup X(22), 15),
     LATENCY_MEM(<<Ldr(V(1)), Rmw(V(1))>>)),
   ldq_fmlaq_lane_1_2_sep |-> Both(
     ByHand(Packed(16, 2, Loads(<<0, 2, 4, 6, 7, 8, 9, 10>>), RmwV),
            X(20), Xs(0, 19) \cup X(22), 16),
     LATENCY_MEM(<<Ldr(V(1)), Rmw(V(1))>>))]

\* (The first loop loads x12 where its pattern would load d12.)
LddLdxIns ==
  [ldd_ldx_ins_fmlaq_lane_sep |-> Both(
     ByHand(Packed(16, 1,
              [j \in 1..16 |->
                 LET n == j - 1 IN
                 IF n \in {0, 3, 6, 9, 15} THEN Ldr(V(n))
                 ELSE IF n \in {2, 5, 8, 11, 14} THEN Ins(V(n), X(n))
                 ELSE Ldr(X(n))], RmwV),
            X(0), Xs(1, 20), 16),
     LATENCY_MEM(<<Ldr(V(0)), Rmw(V(1))>>)),
   ldd_nop_ldx_ins_fmlaq_lane_sep |-> Both(
     ByHand([k \in 1..16 |->
               LET m == Rmw(V(15 + k))  n == (k + 3) \div 4 IN
               CASE k % 4 = 1 -> <<Ldr(V(3 * n - 3)), m>>
                 [] k % 4 = 2 -> <<m>>
                 [] k % 4 = 3 -> <<Ldr(X(3 * n - 2)), m>>
                 [] OTHER -> <<Ins(V(3 * n - 1), X(<<2, 5, 11, 14>>[n])), m>>],
            X(0), Xs(1, 20), 16),
     LATENCY_MEM(<<Ldr(V(0)), Rmw(V(1))>>))]

\* smull and smlal are counted, sadalp is not.
SmullSmlal ==
  [smull_smlal_sadalp_sep |-> Both(
     ByHand([k \in 1..12 |->
               LET n == (k - 1) \div 2 IN
               IF k % 2 = 1 THEN <<Rmw(V(3 * n))>>
               ELSE <<Rmw(V(3 * n + 1)), Rmw(V(3 * n + 2))>>],
            X(0), {}, 12),
     LATENCY(<<Rmw(V(0)), Rmw(V(0)), Rmw(V(0))>>))]

------------------------------------------------------------------------------
\* ARMv7.
V7Saved == Qs(4, 7) \cup Rs(4, 11)
V7Pool  == {R(0), R(1), R(9), R(10), R(11), R(12)}

V7(body, counter, zeroed, clobbers, per, memory) ==
  [body |-> body, counter |-> counter, counts |-> "up", zeroed |-> zeroed,
   clobbers |-> clobbers, per |-> per, loops |-> RUNS, memory |-> memory,
   pool |-> V7Pool, saved |-> V7Saved]

V7Throughput(cb) ==
  V7(Unroll(10, cb), R(0), Qs(0, 9), Qs(0, 9) \cup Rs(0, 1), 10, FALSE)
V7ThroughputStart6(cb) ==
  V7(UnrollStart6(10, cb), R(0), Qs(6, 15), Qs(0, 9) \cup Rs(0, 1), 10, FALSE)
V7ThroughputMem(cb, n) ==
  V7(Unroll(n, cb), R(10), Qs(0, 9), Qs(0, 11) \cup Rs(0, 10), n, TRUE)
V7ThroughputMemStart6(cb) ==
  V7(UnrollStart6(10, cb), R(10), Qs(6, 15), Qs(0, 15) \cup Rs(0, 10), 10, TRUE)
V7Latency(instructions) ==
  V7(Same(10, instructions), R(0), Q(0), Q(0) \cup R(0), 10, FALSE)
V7LatencyMem(instructions) ==
  V7(Same(10, instructions), R(0), Q(0), Q(0) \cup Rs(0, 1), 10, TRUE)
V7ByHand(body, qs, per) ==
  V7(body, R(0), Qs(0, 9), qs \cup Rs(0, 1), per, TRUE)

V7Single ==
  [nop |-> Both(V7Throughput(<<Fixed(Nop)>>), V7Latency(<<Nop>>)),
   eor_d |-> Both(V7Throughput(<<RmwD>>), V7Latency(<<Rmw(D(0))>>)),
   eor_q |-> Both(V7Throughput(<<RmwQ>>), V7Latency(<<Rmw(Q(0))>>)),
   add_reg |-> Both(V7ThroughputMem(<<RmwR>>, 9), V7LatencyMem(<<Rmw(R(1))>>)),
   ld1_d |-> Both(V7ThroughputMem(<<LdrD>>, 10), V7LatencyMem(<<Ldr(D(0))>>)),
   vld1d_x2 |-> Both(V7ByHand([k \in 1..10 |-> <<Ldr(Q(k - 1))>>], Qs(0, 11), 10),
                     V7LatencyMem(<<Ldr(Q(0))>>)),
   st1_d |-> Both(V7ThroughputMem(<<StrD>>, 10), V7LatencyMem(<<Str(D(0))>>)),
   ldst1_d |-> Both(V7ThroughputMem(<<LdrD, StrD>>, 10),
                    V7LatencyMem(<<Ldr(D(0)), Str(D(0))>>)),
   ld1_q |-> Both(V7ThroughputMem(<<LdrQ>>, 10), V7LatencyMem(<<Ldr(Q(0))>>))]

V7Lane ==
  [mlal_s8 |-> Both(V7ThroughputStart6(<<AccQ(D(0))>>),
                    V7Latency(<<Acc(Q(1), D(0))>>)),
   vmovl_s8 |-> Both(V7ThroughputStart6(<<MoveQ(D(0))>>),
                     V7Latency(<<Move(Q(0), D(0))>>)),
   mla_s16_lane |-> Both(V7ThroughputStart6(<<AccQ(Q(1) \cup D(0))>>),
                         V7Latency(<<Acc(Q(1), Q(0))>>)),
   mla_s16_lane_d |-> Both(V7ThroughputStart6(<<AccD(Q(0))>>),
                           V7Latency(<<Acc(D(1), D(0))>>))]

V7LdMla ==
  [ldrd_mla_s16_lane |-> Both(
     V7ByHand([k \in 1..10 |-> <<Ldr(D(3)), Acc(Q(k + 1), Q(0))>>], Qs(0, 11), 10),
     V7LatencyMem(<<Ldr(D(0)), Acc(Q(1), Q(0))>>)),
   ldrd_mla_s16_lane_1_4 |-> Both(
     V7ByHand([k \in 1..12 |->
                 LET m == Acc(Q(k + 1), Q(0)) IN
                 IF k % 4 = 1 THEN <<Ldr(D(3)), m>> ELSE <<m>>], Qs(0, 13), 12),
     V7LatencyMem(<<Ldr(D(0)), Acc(Q(1), Q(0))>>))]

V7Pairs ==
  [mlal_s16_lane |-> Both(V7ThroughputStart6(<<AccOwn>>),
                          V7Latency(<<Acc(Q(1), D(0))>>)),
   ld1d_fmlad |-> Both(V7ThroughputMem(<<Fixed(Ldr(D(22))), RmwD>>, 10),
                       V7LatencyMem(<<Ldr(D(0)), Rmw(D(0))>>)),
   ld1d_fmlaq |-> Both(V7ThroughputMem(<<Fixed(Ldr(D(22))), RmwQ>>, 10),
                       V7LatencyMem(<<Ldr(D(0)), Rmw(Q(0))>>)),
   ld1dx2_fmlaq_lane |-> Both(
     V7ThroughputMemStart6(<<Fixed(Ldr(Q(1))), AccQ(D(0))>>),
     V7LatencyMem(<<Ldr(Q(0)), Rmw(Q(0))>>)),
   ld1dx2_fmlad_lane |-> Both(
     V7ThroughputMemStart6(<<Fixed(Ldr(Q(1))), AccD(D(0))>>),
     V7LatencyMem(<<Ldr(Q(0)), Rmw(D(0))>>)),
   ld1d_mlad_s16 |-> Both(V7ThroughputMem(<<Fixed(Ldr(D(10))), RmwD>>, 10),
                          V7LatencyMem(<<Ldr(D(0)), Rmw(D(0))>>)),
   mla_f32q_lane |-> Both(V7ThroughputStart6(<<AccQ(D(0))>>),
                          V7Latency(<<Rmw(Q(0))>>)),
   mla_f32d_lane |-> Both(V7ThroughputStart6(<<AccD(D(0))>>),
                          V7Latency(<<Rmw(D(0))>>))]

------------------------------------------------------------------------------
\* LoongArch: no clobber list, and the loop counts in its input operand.
LA(n, cb, zeroed, loops, memory) ==
  [body |-> Unroll(n, cb), counter |-> {}, counts |-> "down", zeroed |-> zeroed,
   clobbers |-> {}, per |-> n, loops |-> loops, memory |-> memory,
   pool |-> {R(4), R(5), R(23)}, saved |-> Vs(24, 31) \cup Rs(22, 31)]

LAMemory ==
  [xvld |-> Both(LA(20, <<LdrV>>, Vs(0, 19), RUNS, TRUE),
                 LA(20, <<Fixed(Ldr(V(0)))>>, V(0), RUNS, TRUE)),
   xvst |-> Both(LA(20, <<StrV>>, Vs(0, 19), RUNS, TRUE),
                 LA(20, <<Fixed(Str(V(0)))>>, V(0), RUNS, TRUE))]

\* Two or three operands, all the same register; one operand.
LAFloat ==
  [xvfadd_s |-> Both(LA(10, <<RmwV>>, Vs(0, 9), RUNS * SCALE, FALSE),
                     LA(10, <<Fixed(Rmw(V(0)))>>, V(0), RUNS * SCALE, FALSE))]

LAUnary == [xvfsqrt_s |-> LAFloat.xvfadd_s]

\* x86, AVX and SSE alike: the counter is eax (register 0), rbx is register 3.
X86(cb, zeroed) ==
  [body |-> Unroll(10, cb), counter |-> R(0), counts |-> "down", zeroed |-> zeroed,
   clobbers |-> zeroed \cup R(0), per |-> 10, loops |-> RUNS * SCALE,
   memory |-> FALSE, pool |-> {R(0), R(2), R(3)}, saved |-> R(3) \cup R(5) \cup Rs(12, 15)]

AvxSse ==
  [vfmadd132ps |-> Both(X86(<<RmwV>>, Vs(0, 9)),
                        X86(<<Fixed(Rmw(V(0)))>>, V(0))),
   vpmaddwd_vpaddd |-> Both(X86(<<RmwV, RmwV>>, Vs(0, 9)),
                            X86(<<Fixed(Rmw(V(0))), Fixed(Rmw(V(0)))>>, V(0)))]
=============================================================================
