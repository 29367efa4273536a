------------------------------ MODULE CpuLoops -------------------------------
\* All benchmarks of CpuBenchmarks in BenchLoop, and what their loops have to
\* be for the two figures of benchmark() to mean what they say.
EXTENDS BenchLoop, CpuBenchmarks

\* A benchmark is known by its architecture, the name of its table entry and
\* its kind.  The tables of an architecture share no name.
Tables ==
  [aarch64   |-> {A64Single, A64Float, A64Integer, A64Prefetch, LdPairs, SepPairs,
                  LdxPair, SmlalPairs, LdrPairs, InsLdr, LdFmla, LdFmlaLane,
                  Smlal, OneToFour, SshllIns, LdqInsToFour, OneToThree,
                  LdqToThreeAndTwo, LddLdxIns, SmullSmlal},
   armv7     |-> {V7Single, V7Lane, V7LdMla, V7Pairs},
   loongarch |-> {LAMemory, LAFloat, LAUnary},
   x86       |-> {AvxSse}]

Kinds == {"throughput", "latency"}

Known(id, b) ==
  [id |-> id, body |-> b.body, counter |-> b.counter, counts |-> b.counts,
   zeroed |-> b.zeroed, clobbers |-> b.clobbers, per |-> b.per,
   loops |-> b.loops, pool |-> b.pool, saved |-> b.saved, memory |-> b.memory]

OfTable(a, T) == {Known(<<a, n, k>>, T[n][k]) : n \in DOMAIN T, k \in Kinds}
OfFamily(a)   == UNION {OfTable(a, T) : T \in Tables[a]}
CpuBench      == UNION {OfFamily(a) : a \in DOMAIN Tables}

Name == bench.id[2]
Latency == bench.id[3] = "latency"

------------------------------------------------------------------------------
\* Every loop returns the number of operations it executes but one:
\* prefetch_very_long returns 16 for its eleven prfm (aarch64.h:352-383).
CountsOperationsBut ==
  bench.id # <<"aarch64", "prefetch_very_long", "throughput">> => CountsOperations

\* The operations of a throughput loop do not wait for each other, except in
\* the loops that insert lanes into one and the same register, in the two that
\* load what they have just stored, and in the one whose source registers d12
\* to d15 are the halves of the q6 and q7 that it writes.
Entangled == {"ldd_ldx_ins", "ins_fmlaq_lane_sep", "ins_smlalq_sep_1_2",
              "ins_fmlaq_lane_1_4_sep", "ldqstq", "ldst1_d", "mlal_s16_lane"}

ThroughputIndependent ==
  pc = "done" /\ ~Latency => (flow.crossed <=> Name \in Entangled)

\* In a latency loop every operation waits for the one before it, as the
\* scheme at common.h:67-79 has it (op reg, reg on one register), except where
\* an operation only loads, stores or does nothing, or starts by loading the
\* register that the rest of it works on.
Unchained == {"ldq", "lddx2", "nop", "stq", "ldpq", "prefetch_very_long",
              "ldd_ldx_ins", "ldq_fmlaq", "ins_ldd",
              "ldd_smlalq_sep", "lddx2_smlalq_sep", "ldrd_sshll", "ldrd_sdot_lane",
              "ldd_mla_s16_lane_1_4_sep", "ldq_fmlaq_lane_1_4_sep",
              "ldq_fmlaq_lane_1_3_sep", "ldq_fmlaq_lane_1_2_sep",
              "ld1_d", "vld1d_x2", "st1_d", "ld1_q",
              "ld1d_fmlad", "ld1dx2_fmlaq_lane",
              "ld1dx2_fmlad_lane", "ld1d_mlad_s16", "xvld", "xvst"}

Chained == flow.chain >= iter * Len(bench.body)

LatencyChained ==
  pc = "done" /\ Latency => (Chained <=> Name \notin Unchained)
=============================================================================
