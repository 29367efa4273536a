---------------------------- MODULE CpuBackendProofs --------------------------
(***************************************************************************)
(* Proofs about CpuBackend for every set of builds, machines and cores and *)
(* every duration a function can take.                                     *)
(*                                                                         *)
(* Tables.  Each table of CpuCalls prints its names from one list whose    *)
(* entries are different (Listed, Distinct), so a name belongs to one      *)
(* benchmark (NamesOnce).  What a table executes follows from its guard or *)
(* from what the program was built for.                                    *)
(*                                                                         *)
(* Deaths.  A flag that is set proves that the processor and the system    *)
(* passed its test (FlagsSound), so a function of an enabled group that    *)
(* cannot execute is one of those DiesOnlyHere lists.                      *)
(*                                                                         *)
(* Figures.  The Timer reads zero when a measured function starts          *)
(* (Readings), and the lines printed so far are of benchmarks that come    *)
(* before the current one (InOrder), whose name is therefore new.          *)
(***************************************************************************)
EXTENDS CpuBackend, SequenceTheorems, TLAPS

\* The names of loongarch_lasx() that occur twice.
Twice == {"xvfadd.s", "xvfadd.d"}

\* A name is printed by one benchmark of the groups, and never for the memory.
NamesOnce(G) ==
  \A t, u \in DOMAIN G : \A i \in DOMAIN G[t].benches, j \in DOMAIN G[u].benches :
    LET name == G[t].benches[i].name
    IN  /\ name # "bandwidth"
        /\ name = G[u].benches[j].name => (t = u /\ i = j) \/ name \in Twice

\* The groups of the ARM tables print the names they are given.
LEMMA ArmNames ==
  \A built, names :
    /\ DOMAIN Arm(built, names).benches = DOMAIN names
    /\ \A v \in DOMAIN names : Arm(built, names).benches[v].name = names[v]
BY DEF Arm, Group, Bench

LEMMA ArmForNames ==
  \A feature, built, names :
    /\ DOMAIN ArmFor(feature, built, names).benches = DOMAIN names
    /\ \A v \in DOMAIN names : ArmFor(feature, built, names).benches[v].name = names[v]
BY DEF ArmFor, Group, Bench

LEMMA ArmWarmupNames == \A name : DOMAIN ArmWarmup(name).benches = {}
BY DEF ArmWarmup, Group

\* A table made of two tables, one after the other.
LEMMA Joined ==
  ASSUME NEW S, NEW T, NEW s \in Seq(S), NEW t \in Seq(T)
  PROVE  /\ s \o t \in Seq(S \cup T) /\ Len(s \o t) = Len(s) + Len(t)
         /\ \A i \in 1 .. Len(s) : (s \o t)[i] = s[i]
         /\ \A i \in 1 .. Len(t) : (s \o t)[Len(s) + i] = t[i]
<1>1. s \in Seq(S \cup T) /\ t \in Seq(S \cup T)
  OBVIOUS
<1> QED BY <1>1, ConcatProperties

\* A position inside a part is a position inside the whole.
LEMMA Within ==
  ASSUME NEW a \in Nat, NEW m \in Nat, NEW N \in Nat, NEW k \in 1 .. m, a + m <= N
  PROVE  a + k \in 1 .. N
OBVIOUS

\* The names of the groups stand one after the other in a list, those of
\* group u from from[u] + 1 on.
Listed(G, n, N, names, from, many) ==
  /\ DOMAIN G = 1 .. n
  /\ \A u \in 1 .. n : from[u] \in Nat /\ many[u] \in Nat /\ from[u] + many[u] <= N
  /\ \A t, u \in 1 .. n : t < u => from[t] + many[t] <= from[u]
  /\ \A u \in 1 .. n :
       /\ DOMAIN G[u].benches = 1 .. many[u]
       /\ \A v \in 1 .. many[u] : G[u].benches[v].name = names[from[u] + v]

\* The names of a list are different from each other.
Distinct(N, names) ==
  /\ \A i, j \in 1 .. N : names[i] = names[j] => i = j \/ names[i] \in Twice
  /\ \A i \in 1 .. N : names[i] # "bandwidth"

\* The groups print no name but those of the list.
PrintsOnly(G, N, names) ==
  \A u \in DOMAIN G : \A i \in DOMAIN G[u].benches :
    \E k \in 1 .. N : G[u].benches[i].name = names[k]

\* Groups whose names stand in one list of different names print each of them once.
LEMMA FlatOnce ==
  ASSUME NEW G, NEW n \in Nat, NEW N \in Nat, NEW names, NEW from, NEW many,
         Listed(G, n, N, names, from, many), Distinct(N, names)
  PROVE  NamesOnce(G) /\ PrintsOnly(G, N, names)
<1> USE DEF Listed, Distinct
<1> SUFFICES NamesOnce(G)
  <2>1. ASSUME NEW u \in DOMAIN G, NEW i \in DOMAIN G[u].benches
        PROVE  \E k \in 1 .. N : G[u].benches[i].name = names[k]
    <3>1. u \in 1 .. n /\ i \in 1 .. many[u]
      BY <2>1
    <3>2. from[u] \in Nat /\ many[u] \in Nat /\ from[u] + many[u] <= N
      BY <3>1
    <3>3. from[u] + i \in 1 .. N /\ G[u].benches[i].name = names[from[u] + i]
      BY <3>1, <3>2, Within
    <3> QED BY <3>3
  <2> QED BY <2>1 DEF PrintsOnly
<1> SUFFICES ASSUME NEW t \in DOMAIN G, NEW u \in DOMAIN G,
                    NEW i \in DOMAIN G[t].benches, NEW j \in DOMAIN G[u].benches
             PROVE  /\ G[t].benches[i].name # "bandwidth"
                    /\ G[t].benches[i].name = G[u].benches[j].name
                         => (t = u /\ i = j) \/ G[t].benches[i].name \in Twice
  BY DEF NamesOnce
<1>0. t \in 1 .. n /\ u \in 1 .. n /\ i \in 1 .. many[t] /\ j \in 1 .. many[u]
  OBVIOUS
<1>1. /\ from[t] \in Nat /\ many[t] \in Nat /\ from[t] + many[t] <= N
      /\ from[u] \in Nat /\ many[u] \in Nat /\ from[u] + many[u] <= N
  BY <1>0
<1>2. from[t] + i \in 1 .. N /\ from[u] + j \in 1 .. N
  BY <1>0, <1>1, Within
<1>3. /\ G[t].benches[i].name = names[from[t] + i]
      /\ G[u].benches[j].name = names[from[u] + j]
  BY <1>0
<1>4. from[t] + i = from[u] + j => t = u /\ i = j
  <2>1. CASE t < u
    <3>1. from[t] + many[t] <= from[u]
      BY <1>0, <2>1
    <3> QED BY <1>0, <1>1, <2>1, <3>1
  <2>2. CASE u < t
    <3>1. from[u] + many[u] <= from[t]
      BY <1>0, <2>2
    <3> QED BY <1>0, <1>1, <2>2, <3>1
  <2>3. CASE t = u
    BY <1>0, <1>1, <2>3
  <2> QED BY <1>0, <2>1, <2>2, <2>3
<1>5. names[from[t] + i] # "bandwidth"
  BY <1>2
<1>6. names[from[t] + i] = names[from[u] + j]
        => from[t] + i = from[u] + j \/ names[from[t] + i] \in Twice
  BY <1>2
<1> QED BY <1>3, <1>4, <1>5, <1>6

\* The names armv7() prints, in order.
Armv7Names ==
  <<"nop", "eor_d", "eor_q", "ld1_d", "vld1d_x2", "ld1_q", "add_imm", "add_reg",
    "pld", "st1_d", "ldst1_d", "padal", "padd", "mla_s32", "vmovl_s8", "mla_s16",
    "mla_s16_lane", "mla_s16_lane_d", "ldrd_mla_s16_lane", "ldrd_mla_s16_lane_1_4",
    "ld1d_mlad_s16", "mlal_s8", "mlal_s16", "mlal_s16_lane", "mla_f32", "mla_f32_d",
    "mla_f32d_lane", "mla_f32q_lane", "ld1d_fmlad", "ld1d_fmlaq", "ld1dx2_fmlad_lane",
    "ld1dx2_fmlaq_lane", "mul_s32", "mul_f32", "cvt", "qrdmulh", "rshl">>

\* armv7() prints each name once.
LEMMA Armv7Listed == NamesOnce(Armv7Groups) /\ PrintsOnly(Armv7Groups, 37, Armv7Names)
<1> DEFINE from == <<0, 0, 0, 11, 14, 21, 25, 32>>
           many == <<0, 0, 11, 3, 7, 4, 7, 5>>
           n == 8
           N == 37
<1>1. Distinct(N, Armv7Names)
  BY DEF Distinct, Twice, Armv7Names
<1>2. n \in Nat /\ N \in Nat
  OBVIOUS
<1>3. ASSUME NEW u \in 1 .. n
      PROVE  /\ DOMAIN Armv7Groups[u].benches = 1 .. many[u]
             /\ \A v \in 1 .. many[u] : Armv7Groups[u].benches[v].name = Armv7Names[from[u] + v]
  <2>1. CASE u = 1
    BY <2>1, ArmNames, ArmForNames, ArmWarmupNames DEF Armv7Groups, Armv7Names
  <2>2. CASE u = 2
    BY <2>2, ArmNames, ArmForNames, ArmWarmupNames DEF Armv7Groups, Armv7Names
  <2>3. CASE u = 3
    BY <2>3, ArmNames, ArmForNames, ArmWarmupNames DEF Armv7Groups, Armv7Names
  <2>4. CASE u = 4
    BY <2>4, ArmNames, ArmForNames, ArmWarmupNames DEF Armv7Groups, Armv7Names
  <2>5. CASE u = 5
    BY <2>5, ArmNames, ArmForNames, ArmWarmupNames DEF Armv7Groups, Armv7Names
  <2>6. CASE u = 6
    BY <2>6, ArmNames, ArmForNames, ArmWarmupNames DEF Armv7Groups, Armv7Names
  <2>7. CASE u = 7
    BY <2>7, ArmNames, ArmForNames, ArmWarmupNames DEF Armv7Groups, Armv7Names
  <2>8. CASE u = 8
    BY <2>8, ArmNames, ArmForNames, ArmWarmupNames DEF Armv7Groups, Armv7Names
  <2> QED BY <2>1, <2>2, <2>3, <2>4, <2>5, <2>6, <2>7, <2>8
<1>4. \A u \in 1 .. n : from[u] \in Nat /\ many[u] \in Nat /\ from[u] + many[u] <= N
  OBVIOUS
<1>5. \A t, u \in 1 .. n : t < u => from[t] + many[t] <= from[u]
  OBVIOUS
<1>6. DOMAIN Armv7Groups = 1 .. n
  BY DEF Armv7Groups
<1> HIDE DEF from, many, n, N
<1>7. Listed(Armv7Groups, n, N, Armv7Names, from, many)
  BY <1>3, <1>4, <1>5, <1>6 DEF Listed
<1>8. NamesOnce(Armv7Groups) /\ PrintsOnly(Armv7Groups, N, Armv7Names)
  BY <1>1, <1>2, <1>7, FlatOnce
<1> QED BY <1>8 DEF N

\* The names aarch64() prints before it calls aarch64_dual_issue().
SingleIssueNames ==
  <<"nop", "ldd", "ldq", "stq", "ldpq", "lddx2", "ld1q", "eor", "fmla", "fmlad",
    "fmla_x2", "mla", "fmul", "mul", "addp", "sdot", "smmla", "bfmmla", "sadalp",
    "add", "fadd", "smull", "smlal_4b", "smlal_8b", "dupd_lane_s8", "mlaq_lane_s16",
    "sshll", "tbl", "ins", "sqrdmulh", "usubl", "abs", "fcvtzs", "scvtf", "fcvtns",
    "fcvtms", "fcvtps", "fcvtas", "fcvtn", "fcvtl", "prefetch_very_long">>

\* aarch64() itself prints each name once.
LEMMA SingleIssueListed ==
  NamesOnce(SingleIssueGroups) /\ PrintsOnly(SingleIssueGroups, 41, SingleIssueNames)
<1> DEFINE from == <<0, 0, 1, 15, 16, 17, 18, 40>>
           many == <<0, 1, 14, 1, 1, 1, 22, 1>>
           n == 8
           N == 41
<1>1. Distinct(N, SingleIssueNames)
  BY DEF Distinct, Twice, SingleIssueNames
<1>2. n \in Nat /\ N \in Nat
  OBVIOUS
<1>3. ASSUME NEW u \in 1 .. n
      PROVE  /\ DOMAIN SingleIssueGroups[u].benches = 1 .. many[u]
             /\ \A v \in 1 .. many[u] :
                  SingleIssueGroups[u].benches[v].name = SingleIssueNames[from[u] + v]
  <2>1. CASE u = 1
    BY <2>1, ArmNames, ArmForNames, ArmWarmupNames DEF SingleIssueGroups, SingleIssueNames
  <2>2. CASE u = 2
    BY <2>2, ArmNames, ArmForNames, ArmWarmupNames DEF SingleIssueGroups, SingleIssueNames
  <2>3. CASE u = 3
    BY <2>3, ArmNames, ArmForNames, ArmWarmupNames DEF SingleIssueGroups, SingleIssueNames
  <2>4. CASE u = 4
    BY <2>4, ArmNames, ArmForNames, ArmWarmupNames DEF SingleIssueGroups, SingleIssueNames
  <2>5. CASE u = 5
    BY <2>5, ArmNames, ArmForNames, ArmWarmupNames DEF SingleIssueGroups, SingleIssueNames
  <2>6. CASE u = 6
    BY <2>6, ArmNames, ArmForNames, ArmWarmupNames DEF SingleIssueGroups, SingleIssueNames
  <2>7. CASE u = 7
    BY <2>7, ArmNames, ArmForNames, ArmWarmupNames DEF SingleIssueGroups, SingleIssueNames
  <2>8. CASE u = 8
    BY <2>8, ArmNames, ArmForNames, ArmWarmupNames DEF SingleIssueGroups, SingleIssueNames
  <2> QED BY <2>1, <2>2, <2>3, <2>4, <2>5, <2>6, <2>7, <2>8
<1>4. \A u \in 1 .. n : from[u] \in Nat /\ many[u] \in Nat /\ from[u] + many[u] <= N
  OBVIOUS
<1>5. \A t, u \in 1 .. n : t < u => from[t] + many[t] <= from[u]
  OBVIOUS
<1>6. DOMAIN SingleIssueGroups = 1 .. n
  BY DEF SingleIssueGroups
<1> HIDE DEF from, many, n, N
<1>7. Listed(SingleIssueGroups, n, N, SingleIssueNames, from, many)
  BY <1>3, <1>4, <1>5, <1>6 DEF Listed
<1>8. NamesOnce(SingleIssueGroups) /\ PrintsOnly(SingleIssueGroups, N, SingleIssueNames)
  BY <1>1, <1>2, <1>7, FlatOnce
<1> QED BY <1>8 DEF N

\* The names aarch64_dual_issue() prints.
DualIssueNames ==
  <<"ins_ldd", "ldd_ldx_ins", "ldqstq", "ldq_fmlaq", "stq_fmlaq_lane", "ldd_fmlad",
    "ldq_fmlaq_sep", "ldq_fmlaq_lane_sep", "ldd_fmlaq_sep", "lds_fmlaq_lane_sep",
    "ldd_fmlaq_lane_sep", "ldx_fmlaq_lane_sep", "ldd_ldx_ins_fmlaq_lane_sep",
    "ldd_nop_ldx_ins_fmlaq_lane_sep", "ins_fmlaq_lane_1_4_sep",
    "ldd_fmlaq_lane_1_4_sep", "ldq_fmlaq_lane_1_4_sep", "ins_fmlaq_lane_1_3_sep",
    "ldd_fmlaq_lane_1_3_sep", "ldq_fmlaq_lane_1_3_sep", "ldq_fmlaq_lane_1_2_sep",
    "ins_fmlaq_lane_sep", "dupd_fmlaq_lane_sep", "smlal_8b_addp", "smlal_8b_dupd",
    "ldd_smlalq_sep_8b", "ldq_smlalq_sep", "lddx2_smlalq_sep", "smlal_sadalp",
    "smull_smlal_sadalp", "smull_smlal_sadalp_sep", "ins_smlalq_sep_1_2",
    "ldx_ins_smlalq_sep", "ldrd_sdot_lane", "ldrq_sdot_lane", "dupd_lane_smlal_s8",
    "ldd_mla_s16_lane_1_4_sep", "ldrd_sshll", "sshll_ins_sep">>

\* aarch64_dual_issue() prints each name once.
LEMMA DualIssueListed ==
  NamesOnce(DualIssueGroups) /\ PrintsOnly(DualIssueGroups, 39, DualIssueNames)
<1> DEFINE from == <<0, 1, 3, 4, 8, 9, 10, 11, 12, 13, 14, 16, 21, 22, 33, 35>>
           many == <<1, 2, 1, 4, 1, 1, 1, 1, 1, 1, 2, 5, 1, 11, 2, 4>>
           n == 16
           N == 39
<1>1. Distinct(N, DualIssueNames)
  BY DEF Distinct, Twice, DualIssueNames
<1>2. n \in Nat /\ N \in Nat
  OBVIOUS
<1>3. ASSUME NEW u \in 1 .. n
      PROVE  /\ DOMAIN DualIssueGroups[u].benches = 1 .. many[u]
             /\ \A v \in 1 .. many[u] :
                  DualIssueGroups[u].benches[v].name = DualIssueNames[from[u] + v]
  <2>1. CASE u = 1
    BY <2>1, ArmNames, ArmForNames, ArmWarmupNames DEF DualIssueGroups, DualIssueNames
  <2>2. CASE u = 2
    BY <2>2, ArmNames, ArmForNames, ArmWarmupNames DEF DualIssueGroups, DualIssueNames
  <2>3. CASE u = 3
    BY <2>3, ArmNames, ArmForNames, ArmWarmupNames DEF DualIssueGroups, DualIssueNames
  <2>4. CASE u = 4
    BY <2>4, ArmNames, ArmForNames, ArmWarmupNames DEF DualIssueGroups, DualIssueNames
  <2>5. CASE u = 5
    BY <2>5, ArmNames, ArmForNames, ArmWarmupNames DEF DualIssueGroups, DualIssueNames
  <2>6. CASE u = 6
    BY <2>6, ArmNames, ArmForNames, ArmWarmupNames DEF DualIssueGroups, DualIssueNames
  <2>7. CASE u = 7
    BY <2>7, ArmNames, ArmForNames, ArmWarmupNames DEF DualIssueGroups, DualIssueNames
  <2>8. CASE u = 8
    BY <2>8, ArmNames, ArmForNames, ArmWarmupNames DEF DualIssueGroups, DualIssueNames
  <2>9. CASE u = 9
    BY <2>9, ArmNames, ArmForNames, ArmWarmupNames DEF DualIssueGroups, DualIssueNames
  <2>10. CASE u = 10
    BY <2>10, ArmNames, ArmForNames, ArmWarmupNames DEF DualIssueGroups, DualIssueNames
  <2>11. CASE u = 11
    BY <2>11, ArmNames, ArmForNames, ArmWarmupNames DEF DualIssueGroups, DualIssueNames
  <2>12. CASE u = 12
    BY <2>12, ArmNames, ArmForNames, ArmWarmupNames DEF DualIssueGroups, DualIssueNames
  <2>13. CASE u = 13
    BY <2>13, ArmNames, ArmForNames, ArmWarmupNames DEF DualIssueGroups, DualIssueNames
  <2>14. CASE u = 14
    BY <2>14, ArmNames, ArmForNames, ArmWarmupNames DEF DualIssueGroups, DualIssueNames
  <2>15. CASE u = 15
    BY <2>15, ArmNames, ArmForNames, ArmWarmupNames DEF DualIssueGroups, DualIssueNames
  <2>16. CASE u = 16
    BY <2>16, ArmNames, ArmForNames, ArmWarmupNames DEF DualIssueGroups, DualIssueNames
  <2> QED BY <2>1, <2>2, <2>3, <2>4, <2>5, <2>6, <2>7, <2>8, <2>9, <2>10, <2>11, <2>12, <2>13,
             <2>14, <2>15, <2>16
<1>4. \A u \in 1 .. n : from[u] \in Nat /\ many[u] \in Nat /\ from[u] + many[u] <= N
  OBVIOUS
<1>5. \A t, u \in 1 .. n : t < u => from[t] + many[t] <= from[u]
  OBVIOUS
<1>6. DOMAIN DualIssueGroups = 1 .. n
  BY DEF DualIssueGroups
<1> HIDE DEF from, many, n, N
<1>7. Listed(DualIssueGroups, n, N, DualIssueNames, from, many)
  BY <1>3, <1>4, <1>5, <1>6 DEF Listed
<1>8. NamesOnce(DualIssueGroups) /\ PrintsOnly(DualIssueGroups, N, DualIssueNames)
  BY <1>1, <1>2, <1>7, FlatOnce
<1> QED BY <1>8 DEF N

\* The groups of aarch64(): its own eight, then the sixteen it calls for.
LEMMA Aarch64GroupsRows ==
  /\ \E S : Aarch64Groups \in Seq(S)
  /\ DOMAIN Aarch64Groups = 1 .. 24
  /\ \A u \in 1 .. 8 : Aarch64Groups[u] = SingleIssueGroups[u]
  /\ \A u \in 1 .. 16 : Aarch64Groups[8 + u] = DualIssueGroups[u]
<1> DEFINE S == {SingleIssueGroups[u] : u \in 1 .. 8}
           T == {DualIssueGroups[u] : u \in 1 .. 16}
<1>1. SingleIssueGroups \in Seq(S) /\ Len(SingleIssueGroups) = 8
  BY DEF SingleIssueGroups
<1>2. DualIssueGroups \in Seq(T) /\ Len(DualIssueGroups) = 16
  BY DEF DualIssueGroups
<1> HIDE DEF S, T
<1>3. SingleIssueGroups \in Seq(S) /\ DualIssueGroups \in Seq(T)
  BY <1>1, <1>2
<1> DEFINE all == SingleIssueGroups \o DualIssueGroups
<1>4. /\ all \in Seq(S \cup T)
      /\ Len(all) = Len(SingleIssueGroups) + Len(DualIssueGroups)
      /\ \A i \in 1 .. Len(SingleIssueGroups) : all[i] = SingleIssueGroups[i]
      /\ \A i \in 1 .. Len(DualIssueGroups) : all[Len(SingleIssueGroups) + i] = DualIssueGroups[i]
  BY <1>3, Joined
<1>5. Aarch64Groups = all
  BY DEF Aarch64Groups
<1> HIDE DEF all
<1>6. /\ DOMAIN all = 1 .. 24
      /\ \A u \in 1 .. 8 : all[u] = SingleIssueGroups[u]
      /\ \A u \in 1 .. 16 : all[8 + u] = DualIssueGroups[u]
  BY <1>1, <1>2, <1>4
<1> QED BY <1>4, <1>5, <1>6

\* Two tables that print each name once, and no name in common, do so together.
LEMMA OnceTogether ==
  ASSUME NEW G, NEW A, NEW B, NEW n \in Nat, NEW m \in Nat, NEW N, NEW M, NEW names, NEW others,
         DOMAIN A = 1 .. n, DOMAIN B = 1 .. m, DOMAIN G = 1 .. n + m,
         \A u \in 1 .. n : G[u] = A[u], \A u \in 1 .. m : G[n + u] = B[u],
         NamesOnce(A), NamesOnce(B), PrintsOnly(A, N, names), PrintsOnly(B, M, others),
         \A i \in 1 .. N, j \in 1 .. M : names[i] # others[j]
  PROVE  NamesOnce(G)
<1> SUFFICES ASSUME NEW t \in DOMAIN G, NEW u \in DOMAIN G,
                    NEW i \in DOMAIN G[t].benches, NEW j \in DOMAIN G[u].benches
             PROVE  /\ G[t].benches[i].name # "bandwidth"
                    /\ G[t].benches[i].name = G[u].benches[j].name
                         => (t = u /\ i = j) \/ G[t].benches[i].name \in Twice
  BY DEF NamesOnce
<1>1. ASSUME NEW k \in DOMAIN G
      PROVE  \/ k \in DOMAIN A /\ G[k] = A[k]
             \/ k - n \in DOMAIN B /\ G[k] = B[k - n]
  <2>1. CASE k <= n
    BY <2>1
  <2>2. CASE k > n
    <3>1. k - n \in 1 .. m /\ n + (k - n) = k
      BY <2>2
    <3> QED BY <3>1
  <2> QED BY <2>1, <2>2
<1>2. CASE t \in DOMAIN A /\ u \in DOMAIN A /\ G[t] = A[t] /\ G[u] = A[u]
  BY <1>2 DEF NamesOnce
<1>3. CASE t - n \in DOMAIN B /\ u - n \in DOMAIN B /\ G[t] = B[t - n] /\ G[u] = B[u - n]
  <2>1. /\ G[t].benches[i].name # "bandwidth"
        /\ G[t].benches[i].name = G[u].benches[j].name
             => (t - n = u - n /\ i = j) \/ G[t].benches[i].name \in Twice
    BY <1>3 DEF NamesOnce
  <2>2. t - n = u - n => t = u
    OBVIOUS
  <2> QED BY <2>1, <2>2
<1>4. CASE t \in DOMAIN A /\ u - n \in DOMAIN B /\ G[t] = A[t] /\ G[u] = B[u - n]
  <2>0. i \in DOMAIN A[t].benches
    BY <1>4
  <2>1. PICK k \in 1 .. N : G[t].benches[i].name = names[k]
    BY <1>4, <2>0 DEF PrintsOnly
  <2>4. j \in DOMAIN B[u - n].benches /\ G[u].benches[j].name = B[u - n].benches[j].name
    BY <1>4
  <2>2. PICK l \in 1 .. M : B[u - n].benches[j].name = others[l]
    BY <1>4, <2>4 DEF PrintsOnly
  <2>3. G[t].benches[i].name # "bandwidth"
    BY <1>4 DEF NamesOnce
  <2> QED BY <2>0, <2>1, <2>2, <2>3, <2>4
<1>5. CASE t - n \in DOMAIN B /\ u \in DOMAIN A /\ G[t] = B[t - n] /\ G[u] = A[u]
  <2>1. PICK k \in 1 .. N : G[u].benches[j].name = names[k]
    BY <1>5 DEF PrintsOnly
  <2>2. PICK l \in 1 .. M : G[t].benches[i].name = others[l]
    BY <1>5 DEF PrintsOnly
  <2>3. G[t].benches[i].name # "bandwidth"
    BY <1>5 DEF NamesOnce
  <2> QED BY <2>1, <2>2, <2>3
<1> QED BY <1>1, <1>2, <1>3, <1>4, <1>5

\* An AArch64 program prints each name once.
LEMMA Aarch64Once == NamesOnce(Aarch64Groups)
<1> DEFINE n == 8
           m == 16
           N == 41
           M == 39
<1>1. \A i \in 1 .. N, j \in 1 .. M : SingleIssueNames[i] # DualIssueNames[j]
  BY DEF SingleIssueNames, DualIssueNames
<1>2. /\ NamesOnce(SingleIssueGroups) /\ PrintsOnly(SingleIssueGroups, N, SingleIssueNames)
      /\ NamesOnce(DualIssueGroups) /\ PrintsOnly(DualIssueGroups, M, DualIssueNames)
  BY SingleIssueListed, DualIssueListed
<1>3. DOMAIN SingleIssueGroups = 1 .. n /\ DOMAIN DualIssueGroups = 1 .. m
  BY DEF SingleIssueGroups, DualIssueGroups
<1>4. /\ DOMAIN Aarch64Groups = 1 .. n + m
      /\ \A u \in 1 .. n : Aarch64Groups[u] = SingleIssueGroups[u]
      /\ \A u \in 1 .. m : Aarch64Groups[n + u] = DualIssueGroups[u]
  BY Aarch64GroupsRows
<1>5. n \in Nat /\ m \in Nat
  OBVIOUS
<1> HIDE DEF n, m, N, M
<1> QED BY <1>1, <1>2, <1>3, <1>4, <1>5, OnceTogether

\* The names x86_avx() and x86_sse() print.
X86Names ==
  <<"vfmadd132ps_avx", "vfmadd132pd_avx", "vpmaddwd_avx2", "vpaddd_avx2",
    "vpand_avx2", "vpmaddwd_vpaddd_avx2", "vpackssdw_avx2", "vpacksswb_avx2",
    "vpmaddwd_512", "vpaddd_512", "vfmadd132ps_512", "vpdpbusd_vnni", "mulps_sse",
    "mulpd_sse", "vfmadd132ps_sse", "vpmaddwd_vpaddd_sse">>

\* The groups of an x86 program: five of x86_avx() and one of x86_sse().
LEMMA X86Rows ==
  LET G == X86AvxGroups \o X86SseGroups IN
  /\ \E S : G \in Seq(S)
  /\ DOMAIN G = 1 .. 6
  /\ \A u \in 1 .. 5 : G[u] = X86AvxGroups[u]
  /\ G[6] = X86SseGroups[1]
<1> DEFINE S == {X86AvxGroups[u] : u \in 1 .. 5}
           T == {X86SseGroups[1]}
           all == X86AvxGroups \o X86SseGroups
<1>1. X86AvxGroups \in Seq(S) /\ Len(X86AvxGroups) = 5
  BY DEF X86AvxGroups
<1>2. X86SseGroups \in Seq(T) /\ Len(X86SseGroups) = 1
  BY DEF X86SseGroups
<1> HIDE DEF S, T
<1>3. X86AvxGroups \in Seq(S) /\ X86SseGroups \in Seq(T)
  BY <1>1, <1>2
<1>4. /\ all \in Seq(S \cup T)
      /\ Len(all) = Len(X86AvxGroups) + Len(X86SseGroups)
      /\ \A i \in 1 .. Len(X86AvxGroups) : all[i] = X86AvxGroups[i]
      /\ \A i \in 1 .. Len(X86SseGroups) : all[Len(X86AvxGroups) + i] = X86SseGroups[i]
  BY <1>3, Joined
<1> HIDE DEF all
<1>5. \A u \in 1 .. 5 : all[u] = X86AvxGroups[u]
  BY <1>1, <1>4
<1>6. all[6] = X86SseGroups[1] /\ DOMAIN all = 1 .. 6
  BY <1>1, <1>2, <1>4
<1> QED BY <1>4, <1>5, <1>6 DEF all

\* The benchmarks of the groups, group by group.
LEMMA X86Benches ==
  LET G == X86AvxGroups \o X86SseGroups IN
  /\ G[1].benches = AvxBenches /\ G[2].benches = Avx2Benches /\ G[3].benches = Avx512Benches
  /\ G[4].benches = Avx512FmaBenches /\ G[5].benches = VnniBenches /\ G[6].benches = SseBenches
  /\ G[1].guard = {"FMA", "AVX"} /\ G[2].guard = {"AVX2"} /\ G[3].guard = {"AVX512"}
  /\ G[4].guard = {"AVX512"} /\ G[5].guard = {"VNNI"} /\ G[6].guard = {"SSE2"}
  /\ G[1].warmup = First(AvxBenches) /\ G[2].warmup = First(Avx2Benches)
  /\ G[3].warmup = First(Avx512Benches) /\ G[4].warmup = <<>> /\ G[5].warmup = <<>>
  /\ G[6].warmup = First(SseBenches)
<1> DEFINE G == X86AvxGroups \o X86SseGroups
<1>1. /\ G[1] = X86AvxGroups[1] /\ G[2] = X86AvxGroups[2] /\ G[3] = X86AvxGroups[3]
      /\ G[4] = X86AvxGroups[4] /\ G[5] = X86AvxGroups[5] /\ G[6] = X86SseGroups[1]
  BY X86Rows
<1> HIDE DEF G
<1>2. /\ G[1] = Group({}, {"FMA", "AVX"}, First(AvxBenches), AvxBenches)
      /\ G[2] = Group({}, {"AVX2"}, First(Avx2Benches), Avx2Benches)
      /\ G[3] = Group({}, {"AVX512"}, First(Avx512Benches), Avx512Benches)
      /\ G[4] = Group({}, {"AVX512"}, <<>>, Avx512FmaBenches)
      /\ G[5] = Group({"vnni"}, {"VNNI"}, <<>>, VnniBenches)
      /\ G[6] = Group({}, {"SSE2"}, First(SseBenches), SseBenches)
  BY <1>1 DEF X86AvxGroups, X86SseGroups
<1> QED BY <1>2 DEF Group, G

\* An x86 program prints each name once.
LEMMA X86Once == NamesOnce(X86AvxGroups \o X86SseGroups)
<1> DEFINE G == X86AvxGroups \o X86SseGroups
           from == <<0, 2, 8, 10, 11, 12>>
           many == <<2, 6, 2, 1, 1, 4>>
           n == 6
           N == 16
<1>1. Distinct(N, X86Names)
  BY DEF Distinct, Twice, X86Names
<1>2. n \in Nat /\ N \in Nat
  OBVIOUS
<1>3. /\ G[1].benches = AvxBenches /\ G[2].benches = Avx2Benches /\ G[3].benches = Avx512Benches
      /\ G[4].benches = Avx512FmaBenches /\ G[5].benches = VnniBenches /\ G[6].benches = SseBenches
  BY X86Benches
<1>4. DOMAIN G = 1 .. n
  BY X86Rows
<1> HIDE DEF G
<1>5. ASSUME NEW u \in 1 .. n
      PROVE  /\ DOMAIN G[u].benches = 1 .. many[u]
             /\ \A v \in 1 .. many[u] : G[u].benches[v].name = X86Names[from[u] + v]
  <2>1. CASE u = 1
    BY <1>3, <2>1 DEF AvxBenches, Bench, X86Names
  <2>2. CASE u = 2
    BY <1>3, <2>2 DEF Avx2Benches, Bench, X86Names
  <2>3. CASE u = 3
    BY <1>3, <2>3 DEF Avx512Benches, Bench, X86Names
  <2>4. CASE u = 4
    BY <1>3, <2>4 DEF Avx512FmaBenches, Bench, X86Names
  <2>5. CASE u = 5
    BY <1>3, <2>5 DEF VnniBenches, Bench, X86Names
  <2>6. CASE u = 6
    BY <1>3, <2>6 DEF SseBenches, Bench, X86Names
  <2> QED BY <2>1, <2>2, <2>3, <2>4, <2>5, <2>6
<1>6. \A u \in 1 .. n : from[u] \in Nat /\ many[u] \in Nat /\ from[u] + many[u] <= N
  OBVIOUS
<1>7. \A t, u \in 1 .. n : t < u => from[t] + many[t] <= from[u]
  OBVIOUS
<1> HIDE DEF from, many, n, N
<1>8. Listed(G, n, N, X86Names, from, many)
  BY <1>4, <1>5, <1>6, <1>7 DEF Listed
<1>9. NamesOnce(G)
  BY <1>1, <1>2, <1>8, FlatOnce
<1> QED BY <1>9 DEF G

\* The benchmarks of loongarch_lasx() print 48 names, two of them twice.
LasxNames ==
  <<"xvld", "xvst", "xvldx", "xvstx", "xvldrepl.b", "xvldrepl.h", "xvldrepl.w",
    "xvldrepl.d", "xvstelm.b", "xvstelm.h", "xvstelm.w", "xvstelm.d", "xvfadd.s",
    "xvfadd.d", "xvfsub.s", "xvfsub.d", "xvfadd.s", "xvfadd.d", "xvfmul.s",
    "xvfmul.d", "xvfdiv.s", "xvfdiv.d", "xvfmadd.s", "xvfmadd.d", "xvfmsub.s",
    "xvfmsub.d", "xvfnmadd.s", "xvfnmadd.d", "xvfnmsub.s", "xvfnmsub.d", "xvfmax.s",
    "xvfmax.d", "xvfmin.s", "xvfmin.d", "xvfmaxa.s", "xvfmaxa.d", "xvfmina.s",
    "xvfmina.d", "xvflogb.s", "xvflogb.d", "xvfclass.s", "xvfclass.d", "xvfsqrt.s",
    "xvfsqrt.d", "xvfrecip.s", "xvfrecip.d", "xvfrsqrt.s", "xvfrsqrt.d">>

\* Row by row, the table of loongarch_lasx() executes LASX and prints LasxNames.
LEMMA LasxRows == LasxBenches = [j \in DOMAIN LasxNames |-> Bench(LasxNames[j], {"lasx"}, "xr")]
BY DEF LasxBenches, LasxNames

\* A LoongArch program prints each name once, but for those of Twice.
LEMMA LasxOnce == NamesOnce(LoongarchGroups)
<1> DEFINE from == <<0>>
           many == <<48>>
           n == 1
           N == 48
<1>1. Distinct(N, LasxNames)
  BY DEF Distinct, Twice, LasxNames
<1>2. n \in Nat /\ N \in Nat
  OBVIOUS
<1>3. DOMAIN LasxNames = 1 .. 48
  BY DEF LasxNames
<1>4. ASSUME NEW u \in 1 .. n
      PROVE  /\ DOMAIN LoongarchGroups[u].benches = 1 .. many[u]
             /\ \A v \in 1 .. many[u] : LoongarchGroups[u].benches[v].name = LasxNames[from[u] + v]
  <2>1. LoongarchGroups[u].benches = LasxBenches
    BY DEF LoongarchGroups, Group
  <2>2. DOMAIN LasxBenches = 1 .. 48 /\ \A v \in 1 .. 48 : LasxBenches[v].name = LasxNames[v]
    BY <1>3, LasxRows DEF Bench
  <2>3. u = 1 /\ from[1] = 0 /\ many[1] = 48
    OBVIOUS
  <2> HIDE DEF from, many
  <2>4. \A v \in 1 .. 48 : from[u] + v = v
    BY <2>3
  <2> QED BY <2>1, <2>2, <2>3, <2>4
<1>5. DOMAIN LoongarchGroups = 1 .. n
  BY DEF LoongarchGroups
<1>6. \A u \in 1 .. n : from[u] \in Nat /\ many[u] \in Nat /\ from[u] + many[u] <= N
  OBVIOUS
<1>7. \A t, u \in 1 .. n : t < u => from[t] + many[t] <= from[u]
  OBVIOUS
<1> HIDE DEF from, many, n, N
<1>8. Listed(LoongarchGroups, n, N, LasxNames, from, many)
  BY <1>4, <1>5, <1>6, <1>7 DEF Listed
<1> QED BY <1>1, <1>2, <1>8, FlatOnce

\* The functions of an ARM group execute Advanced SIMD and, of the extensions, only
\* those the group is compiled in for.
ArmFine(grp, extras) ==
  /\ \A j \in DOMAIN grp.benches :
       /\ grp.benches[j].regs = "base"
       /\ grp.benches[j].isa \subseteq {"neon"} \cup (grp.built \cap extras)
  /\ \A j \in DOMAIN grp.warmup :
       /\ grp.warmup[j].regs = "base"
       /\ grp.warmup[j].isa \subseteq {"neon"} \cup (grp.built \cap extras)

\* So do the groups the three ways of writing a row give.
LEMMA ArmIsFine == \A built, names, extras : ArmFine(Arm(built, names), extras)
BY DEF ArmFine, Arm, Group, Bench

LEMMA ArmForIsFine ==
  \A feature, built, names, extras :
    feature \in built \cap extras => ArmFine(ArmFor(feature, built, names), extras)
BY DEF ArmFine, ArmFor, Group, Bench

LEMMA ArmWarmupIsFine == \A name, extras : ArmFine(ArmWarmup(name), extras)
BY DEF ArmFine, ArmWarmup, Group, Bench

\* So does every group of the two ARM tables.
LEMMA Armv7Fine == \A u \in DOMAIN Armv7Groups : ArmFine(Armv7Groups[u], Features.armv7)
BY ArmIsFine, ArmWarmupIsFine DEF Armv7Groups

LEMMA Aarch64Fine ==
  \A u \in DOMAIN Aarch64Groups : ArmFine(Aarch64Groups[u], Features.aarch64)
<1>0. {"dotprod", "i8mm", "bf16"} \subseteq Features.aarch64
  BY DEF Features
<1>1. \A u \in 1 .. 8 : ArmFine(SingleIssueGroups[u], Features.aarch64)
  BY <1>0, ArmIsFine, ArmForIsFine, ArmWarmupIsFine DEF SingleIssueGroups
<1>2. \A u \in 1 .. 16 : ArmFine(DualIssueGroups[u], Features.aarch64)
  BY <1>0, ArmIsFine, ArmForIsFine, ArmWarmupIsFine DEF DualIssueGroups
<1>3. ASSUME NEW u \in DOMAIN Aarch64Groups PROVE ArmFine(Aarch64Groups[u], Features.aarch64)
  <2>1. u \in 1 .. 24
    BY Aarch64GroupsRows
  <2>2. CASE u <= 8
    <3>1. u \in 1 .. 8
      BY <2>1, <2>2
    <3> QED BY <1>1, <3>1, Aarch64GroupsRows
  <2>3. CASE u > 8
    <3>1. u - 8 \in 1 .. 16 /\ 8 + (u - 8) = u
      BY <2>1, <2>3
    <3> QED BY <1>2, <3>1, Aarch64GroupsRows
  <2> QED BY <2>1, <2>2, <2>3
<1> QED BY <1>3

\* Whatever the architecture, a name belongs to one benchmark.
LEMMA OnceEverywhere == ASSUME NEW a \in Archs PROVE NamesOnce(GroupsOf[a])
<1>1. a \in {"x86", "aarch64", "armv7", "loongarch"}
  BY DEF Archs, Features
<1>2. /\ GroupsOf["x86"] = X86AvxGroups \o X86SseGroups /\ GroupsOf["aarch64"] = Aarch64Groups
      /\ GroupsOf["armv7"] = Armv7Groups /\ GroupsOf["loongarch"] = LoongarchGroups
  BY DEF GroupsOf
<1> QED BY <1>1, <1>2, X86Once, Aarch64Once, Armv7Listed, LasxOnce

------------------------------------------------------------------------------
\* The flags of x86_utils.cpp.
FlagNames == {"AVX", "FMA", "AVX2", "AVX512", "VNNI"}

\* The program runs on a machine of its architecture.
Typed ==
  /\ build \in Builds /\ machine \in Machines /\ machine.arch = build.arch
  /\ d \in 1 .. 5 /\ g \in Nat /\ b \in Nat

\* A flag is set only where the processor and the system passed its test.
FlagsSound ==
  \A flag \in detected : /\ flag \in FlagNames /\ AsksCpu(flag) \subseteq machine.cpu
                         /\ machine.osxsave /\ {"xmm", "ymm"} \subseteq machine.os

\* Only an x86 program asks for flags, before it is pinned.
StaticFirst == pc = "static" => build.arch = "x86" /\ ~pinned

\* The functions measured are those of an enabled group.
Measuring == {"throughput", "reset", "latency"}
AtBench == pc \in Measuring => MoreGroups /\ HasBench(b) /\ Enabled(Groups[g])

\* The inductive invariant behind DiesOnlyHere.
DeathInv == Typed /\ FlagsSound /\ StaticFirst /\ AtBench /\ DiesOnlyHere

\* The four architectures.
LEMMA ArchsAre == Archs = {"x86", "aarch64", "armv7", "loongarch"}
BY DEF Archs, Features

\* The ways to die that DiesOnlyHere lists.
Deadly ==
  CASE build.arch = "x86" ->
         \/ ~pinned /\ ~machine.osxsave
         \/ g \in {3, 4, 5} /\ "zmm" \notin machine.os
         \/ g = 3 /\ "avx512bw" \notin machine.cpu
         \/ g = 6 /\ \/ ~({"avx", "fma"} \subseteq machine.cpu)
                     \/ "ymm" \notin machine.os
    [] build.arch \in {"aarch64", "armv7"} ->
         ~(({"neon"} \cup (build.given \cap Features[build.arch])) \subseteq machine.cpu)
    [] OTHER -> FALSE

\* An ARM function dies only of a feature the program was built for.
LEMMA ArmDies ==
  ASSUME NEW grp, NEW extras, ArmFine(grp, extras), grp.built \subseteq build.given,
         NEW x, ~Executes(x),
         \/ x \in {grp.benches[j] : j \in DOMAIN grp.benches}
         \/ x \in {grp.warmup[j] : j \in DOMAIN grp.warmup}
  PROVE  ~(({"neon"} \cup (build.given \cap extras)) \subseteq machine.cpu)
<1>1. x.regs = "base" /\ x.isa \subseteq {"neon"} \cup (grp.built \cap extras)
  BY DEF ArmFine
<1>2. ~(x.isa \subseteq machine.cpu)
  BY <1>1 DEF Executes
<1> QED BY <1>1, <1>2

\* Where AT_HWCAP shows LASX, the functions of loongarch_lasx() execute.
LEMMA LasxLives ==
  ASSUME machine.arch = "loongarch", NEW x, Enabled(LoongarchGroups[1]),
         \/ x \in {LoongarchGroups[1].benches[j] : j \in DOMAIN LoongarchGroups[1].benches}
         \/ x \in {LoongarchGroups[1].warmup[j] : j \in DOMAIN LoongarchGroups[1].warmup}
  PROVE  Executes(x)
<1>1. /\ LoongarchGroups[1].benches = LasxBenches /\ LoongarchGroups[1].warmup = <<>>
      /\ LoongarchGroups[1].guard = {"LASX"}
  BY DEF LoongarchGroups, Group
<1>2. "xr" \in machine.os /\ "lasx" \in machine.cpu
  BY <1>1 DEF Enabled, Supported, Hwcap
<1>3. x.isa = {"lasx"} /\ x.regs = "xr"
  BY <1>1, LasxRows DEF Bench
<1> QED BY <1>2, <1>3 DEF Executes

\* What the instruction sets of the flags stand for on a machine.
LEMMA FlagMeans ==
  ASSUME Typed, FlagsSound, build.arch = "x86"
  PROVE  /\ Supported("AVX") => "avx" \in machine.cpu
         /\ Supported("FMA") => "fma" \in machine.cpu
         /\ Supported("AVX2") => "avx2" \in machine.cpu /\ "avx" \in machine.cpu
         /\ Supported("AVX512") => "avx512f" \in machine.cpu /\ "avx" \in machine.cpu
         /\ Supported("VNNI") => {"avx", "avx512f", "avx512vnni"} \subseteq machine.cpu
         /\ Supported("SSE2") => "sse2" \in machine.cpu
         /\ \A type \in FlagNames : Supported(type) =>
              machine.osxsave /\ {"xmm", "ymm"} \subseteq machine.os
<1>1. \A type \in FlagNames : Supported(type) <=> type \in detected
  BY DEF Supported, FlagNames
<1>2. \A type \in FlagNames : Supported(type) =>
        /\ AsksCpu(type) \subseteq machine.cpu
        /\ machine.osxsave /\ {"xmm", "ymm"} \subseteq machine.os
  BY <1>1 DEF FlagsSound
<1>3. machine.cpu \cap {"fma", "avx2", "avx512f"} # {} => "avx" \in machine.cpu
  BY CpuAssumption DEF Typed
<1>4. /\ AsksCpu("AVX") = {"avx"} /\ AsksCpu("FMA") = {"fma"} /\ AsksCpu("AVX2") = {"avx2"}
      /\ AsksCpu("AVX512") = {"avx512f"} /\ {"avx512f", "avx512vnni"} \subseteq AsksCpu("VNNI")
  BY DEF AsksCpu
<1>5. Supported("SSE2") => "sse2" \in machine.cpu
  BY DEF Supported
<1>6. {"AVX", "FMA", "AVX2", "AVX512", "VNNI"} \subseteq FlagNames
  BY DEF FlagNames
<1> QED BY <1>2, <1>3, <1>4, <1>5, <1>6

\* What the functions of the x86 tables execute, and that the function a group
\* warms up with is the first of its table.
LEMMA AvxRuns ==
  /\ 1 \in DOMAIN AvxBenches
  /\ \A j \in DOMAIN AvxBenches :
       AvxBenches[j].isa = {"avx", "fma"} /\ AvxBenches[j].regs = "ymm"
<1>1. DOMAIN AvxBenches = 1 .. 2
  BY DEF AvxBenches
<1>2. \A j \in 1 .. 2 : AvxBenches[j].isa = {"avx", "fma"} /\ AvxBenches[j].regs = "ymm"
  BY DEF AvxBenches, Bench
<1> QED BY <1>1, <1>2

LEMMA Avx2Runs ==
  /\ 1 \in DOMAIN Avx2Benches
  /\ \A j \in DOMAIN Avx2Benches :
       Avx2Benches[j].isa = {"avx", "avx2"} /\ Avx2Benches[j].regs = "ymm"
<1>1. DOMAIN Avx2Benches = 1 .. 6
  BY DEF Avx2Benches
<1>2. \A j \in 1 .. 6 : Avx2Benches[j].isa = {"avx", "avx2"} /\ Avx2Benches[j].regs = "ymm"
  BY DEF Avx2Benches, Bench
<1> QED BY <1>1, <1>2

LEMMA SseRuns ==
  /\ 1 \in DOMAIN SseBenches
  /\ \A j \in DOMAIN SseBenches :
       \/ SseBenches[j].isa = {"sse2"} /\ SseBenches[j].regs = "base"
       \/ SseBenches[j].isa \subseteq {"avx", "fma"} /\ SseBenches[j].regs = "ymm"
<1>1. DOMAIN SseBenches = 1 .. 4
  BY DEF SseBenches
<1>2. /\ SseBenches[1].isa = {"sse2"} /\ SseBenches[1].regs = "base"
      /\ SseBenches[2].isa = {"sse2"} /\ SseBenches[2].regs = "base"
  BY DEF SseBenches, Bench
<1>3. /\ SseBenches[3].isa = {"avx", "fma"} /\ SseBenches[3].regs = "ymm"
      /\ SseBenches[4].isa = {"avx"} /\ SseBenches[4].regs = "ymm"
  BY DEF SseBenches, Bench
<1>4. \A j \in 1 .. 4 : j = 1 \/ j = 2 \/ j = 3 \/ j = 4
  OBVIOUS
<1> QED BY <1>1, <1>2, <1>3, <1>4

LEMMA WarmsUpWithFirst ==
  \A benches : \A j \in DOMAIN First(benches) : First(benches)[j] = benches[1]
BY DEF First

\* What can die in an enabled group of an x86 program: the five tests leave open
\* ZMM registers, AVX512BW, and the AVX and FMA functions of the SSE group.
LEMMA X86Dies ==
  ASSUME Typed, FlagsSound, build.arch = "x86", MoreGroups, Enabled(Groups[g]),
         NEW x, ~Executes(x),
         \/ x \in {Groups[g].benches[j] : j \in DOMAIN Groups[g].benches}
         \/ x \in {Groups[g].warmup[j] : j \in DOMAIN Groups[g].warmup}
  PROVE  \/ g \in {3, 4, 5} /\ "zmm" \notin machine.os
         \/ g = 3 /\ "avx512bw" \notin machine.cpu
         \/ g = 6 /\ \/ ~({"avx", "fma"} \subseteq machine.cpu)
                     \/ "ymm" \notin machine.os
<1> DEFINE G == X86AvxGroups \o X86SseGroups
<1>1. Groups = G
  BY DEF Groups, GroupsOf
<1>2. DOMAIN G = 1 .. 6
  BY X86Rows
<1>3. /\ G[1].benches = AvxBenches /\ G[2].benches = Avx2Benches /\ G[3].benches = Avx512Benches
      /\ G[4].benches = Avx512FmaBenches /\ G[5].benches = VnniBenches /\ G[6].benches = SseBenches
      /\ G[1].guard = {"FMA", "AVX"} /\ G[2].guard = {"AVX2"} /\ G[3].guard = {"AVX512"}
      /\ G[4].guard = {"AVX512"} /\ G[5].guard = {"VNNI"} /\ G[6].guard = {"SSE2"}
      /\ G[1].warmup = First(AvxBenches) /\ G[2].warmup = First(Avx2Benches)
      /\ G[3].warmup = First(Avx512Benches) /\ G[4].warmup = <<>> /\ G[5].warmup = <<>>
      /\ G[6].warmup = First(SseBenches)
  BY X86Benches
<1> HIDE DEF G
<1>4. /\ g \in 1 .. 6 /\ \A type \in G[g].guard : Supported(type)
      /\ \/ x \in {G[g].benches[j] : j \in DOMAIN G[g].benches}
         \/ x \in {G[g].warmup[j] : j \in DOMAIN G[g].warmup}
  BY <1>1, <1>2 DEF MoreGroups, Enabled
<1>5. x.regs \in {"ymm", "zmm"} /\ machine.osxsave =>
         x.regs \notin machine.os \/ ~(x.isa \subseteq machine.cpu)
  BY DEF Executes
<1>6. \A type \in FlagNames : Supported(type) =>
         machine.osxsave /\ {"xmm", "ymm"} \subseteq machine.os
  BY FlagMeans
<1>7. CASE g = 1
  <2>1. x.isa = {"avx", "fma"} /\ x.regs = "ymm"
    BY <1>3, <1>4, <1>7, AvxRuns, WarmsUpWithFirst
  <2>2. Supported("AVX") /\ Supported("FMA")
    BY <1>3, <1>4, <1>7
  <2> QED BY <1>5, <1>6, <2>1, <2>2, FlagMeans DEF FlagNames
<1>8. CASE g = 2
  <2>1. x.isa = {"avx", "avx2"} /\ x.regs = "ymm"
    BY <1>3, <1>4, <1>8, Avx2Runs, WarmsUpWithFirst
  <2>2. Supported("AVX2")
    BY <1>3, <1>4, <1>8
  <2> QED BY <1>5, <1>6, <2>1, <2>2, FlagMeans DEF FlagNames
<1>9. CASE g = 3
  <2>1. x.isa \subseteq {"avx", "avx512f", "avx512bw"} /\ x.regs = "zmm"
    BY <1>3, <1>4, <1>9 DEF Avx512Benches, First, Bench
  <2>2. Supported("AVX512")
    BY <1>3, <1>4, <1>9
  <2> QED BY <1>5, <1>6, <1>9, <2>1, <2>2, FlagMeans DEF FlagNames
<1>10. CASE g = 4
  <2>1. x.isa = {"avx", "avx512f"} /\ x.regs = "zmm"
    BY <1>3, <1>4, <1>10 DEF Avx512FmaBenches, Bench
  <2>2. Supported("AVX512")
    BY <1>3, <1>4, <1>10
  <2> QED BY <1>5, <1>6, <1>10, <2>1, <2>2, FlagMeans DEF FlagNames
<1>11. CASE g = 5
  <2>1. x.isa = {"avx", "avx512f", "avx512vnni"} /\ x.regs = "zmm"
    BY <1>3, <1>4, <1>11 DEF VnniBenches, Bench
  <2>2. Supported("VNNI")
    BY <1>3, <1>4, <1>11
  <2> QED BY <1>5, <1>6, <1>11, <2>1, <2>2, FlagMeans DEF FlagNames
<1>12. CASE g = 6
  <2>1. \/ x.isa = {"sse2"} /\ x.regs = "base"
        \/ x.isa \subseteq {"avx", "fma"} /\ x.regs = "ymm"
    <3>1. x \in {SseBenches[j] : j \in DOMAIN SseBenches}
      BY <1>3, <1>4, <1>12, SseRuns, WarmsUpWithFirst
    <3> QED BY <3>1, SseRuns
  <2>2. "sse2" \in machine.cpu
    BY <1>3, <1>4, <1>12, FlagMeans
  <2>3. "ymm" \in machine.os => machine.osxsave
    BY CpuAssumption DEF Typed
  <2>4. CASE x.isa = {"sse2"} /\ x.regs = "base"
    BY <2>2, <2>4 DEF Executes
  <2>5. CASE x.isa \subseteq {"avx", "fma"} /\ x.regs = "ymm"
    BY <1>5, <1>12, <2>3, <2>5
  <2> QED BY <2>1, <2>4, <2>5
<1> QED BY <1>4, <1>7, <1>8, <1>9, <1>10, <1>11, <1>12

\* Whatever the architecture, a function that kills the process in an enabled
\* group does so in one of the ways of DiesOnlyHere.
LEMMA DeathIsListed ==
  ASSUME Typed, FlagsSound, MoreGroups, Enabled(Groups[g]),
         NEW x, ~Executes(x),
         \/ x \in {Groups[g].benches[j] : j \in DOMAIN Groups[g].benches}
         \/ x \in {Groups[g].warmup[j] : j \in DOMAIN Groups[g].warmup}
  PROVE  Deadly
<1>1. build.arch \in {"x86", "aarch64", "armv7", "loongarch"}
  BY ArchsAre, CpuAssumption DEF Typed
<1>2. Groups[g].built \subseteq build.given
  BY DEF Enabled
<1>3. CASE build.arch = "x86"
  BY <1>3, X86Dies DEF Deadly
<1>4. CASE build.arch = "aarch64"
  <2>1. Groups = Aarch64Groups
    BY <1>4 DEF Groups, GroupsOf
  <2>2. ArmFine(Groups[g], Features.aarch64)
    BY <2>1, Aarch64Fine DEF MoreGroups
  <2>3. ~(({"neon"} \cup (build.given \cap Features.aarch64)) \subseteq machine.cpu)
    BY <1>2, <2>2, ArmDies
  <2> QED BY <1>4, <2>3 DEF Deadly
<1>5. CASE build.arch = "armv7"
  <2>1. Groups = Armv7Groups
    BY <1>5 DEF Groups, GroupsOf
  <2>2. ArmFine(Groups[g], Features.armv7)
    BY <2>1, Armv7Fine DEF MoreGroups
  <2>3. ~(({"neon"} \cup (build.given \cap Features.armv7)) \subseteq machine.cpu)
    BY <1>2, <2>2, ArmDies
  <2> QED BY <1>5, <2>3 DEF Deadly
<1>6. CASE build.arch = "loongarch"
  <2>1. Groups = LoongarchGroups
    BY <1>6 DEF Groups, GroupsOf
  <2>2. g = 1
    BY <2>1 DEF MoreGroups, LoongarchGroups
  <2>3. machine.arch = "loongarch"
    BY <1>6 DEF Typed
  <2> QED BY <2>1, <2>2, <2>3, LasxLives
<1> QED BY <1>1, <1>3, <1>4, <1>5, <1>6

\* The initial states satisfy the invariant.
LEMMA DeathStart == Init => DeathInv
<1> SUFFICES ASSUME Init PROVE DeathInv
  OBVIOUS
<1>1. Typed
  BY DEF Init, Typed
<1>2. FlagsSound
  BY DEF Init, FlagsSound
<1>3. pc = "static" \/ pc = "affinity"
  BY DEF Init
<1>4. StaticFirst
  BY DEF Init, StaticFirst
<1>5. AtBench
  BY <1>3 DEF AtBench, Measuring
<1>6. DiesOnlyHere
  BY <1>3 DEF DiesOnlyHere
<1> QED BY <1>1, <1>2, <1>4, <1>5, <1>6 DEF DeathInv

\* A static initialiser sets a flag after its test, or dies of xgetbv.
LEMMA DetectDies == DeathInv /\ Detect => DeathInv'
<1> SUFFICES ASSUME DeathInv, Detect PROVE DeathInv'
  OBVIOUS
<1> USE DEF DeathInv
<1> DEFINE flag == Flags[d]
<1>1. build' = build /\ machine' = machine /\ g' = g /\ b' = b /\ pinned' = pinned
  BY DEF Detect, given
<1>2. flag \in FlagNames /\ Len(Flags) = 5
  BY DEF Typed, Flags, FlagNames
<1>3. \/ ReachesXgetbv(flag) /\ ~machine.osxsave /\ pc' = "killed" /\ detected' = detected /\ d' = d
      \/ /\ ~(ReachesXgetbv(flag) /\ ~machine.osxsave)
         /\ detected' = IF ReachesXgetbv(flag) /\ OsEnables(flag)
                        THEN detected \cup {flag} ELSE detected
         /\ \/ d < Len(Flags) /\ d' = d + 1 /\ pc' = pc
            \/ pc' = "affinity" /\ d' = d
  BY DEF Detect, MoreFlags
<1> HIDE DEF flag
<1>4. Typed'
  BY <1>1, <1>2, <1>3 DEF Typed
<1>5. FlagsSound'
  <2>2. ReachesXgetbv(flag) /\ OsEnables(flag) /\ ~(ReachesXgetbv(flag) /\ ~machine.osxsave) =>
          /\ AsksCpu(flag) \subseteq machine.cpu
          /\ machine.osxsave /\ {"xmm", "ymm"} \subseteq machine.os
    <3> HIDE DEF DeathInv
    <3> QED BY <1>1 DEF ReachesXgetbv, OsEnables, Typed
  <2>3. ASSUME NEW f \in detected', f \notin detected
        PROVE  f = flag /\ AsksCpu(flag) \subseteq machine.cpu
               /\ machine.osxsave /\ {"xmm", "ymm"} \subseteq machine.os
    <3>1. CASE ReachesXgetbv(flag) /\ OsEnables(flag)
      <4>1. detected' = detected \/ detected' = detected \cup {flag}
        BY <1>3, <3>1
      <4>2. f = flag
        BY <2>3, <4>1
      <4>3. detected' # detected
        BY <2>3
      <4>4. ~(ReachesXgetbv(flag) /\ ~machine.osxsave)
        BY <1>3, <4>3
      <4> QED BY <2>2, <3>1, <4>2, <4>4
    <3>2. CASE ~(ReachesXgetbv(flag) /\ OsEnables(flag))
      <4>1. detected' = detected
        BY <1>3, <3>2
      <4> QED BY <2>3, <4>1
    <3> QED BY <3>1, <3>2
  <2> QED BY <1>1, <1>2, <2>3 DEF FlagsSound, AsksCpu
<1>6. pc = "static" /\ build.arch = "x86" /\ ~pinned
  BY DEF Detect, StaticFirst
<1>7. StaticFirst' /\ AtBench'
  BY <1>1, <1>3, <1>6 DEF StaticFirst, AtBench, Measuring
<1>8. DiesOnlyHere'
  BY <1>1, <1>3, <1>6 DEF DiesOnlyHere
<1> QED BY <1>4, <1>5, <1>7, <1>8

\* The state the death of the process depends on, left as it is.
SameGround == UNCHANGED <<build, machine, detected, d>>

\* What a step does not touch, it does not spoil.
LEMMA GroundKept ==
  ASSUME DeathInv, SameGround, g' \in Nat, b' \in Nat
  PROVE  Typed' /\ FlagsSound'
BY DEF DeathInv, SameGround, Typed, FlagsSound, AsksCpu

\* A group is entered if it is enabled, and its warm-up dies as listed.
LEMMA StartGroupDies == DeathInv /\ StartGroup => DeathInv'
<1> SUFFICES ASSUME DeathInv, StartGroup PROVE DeathInv'
  OBVIOUS
<1>1. /\ SameGround /\ pinned' = pinned /\ b' = 1
      /\ pc = "group" /\ MoreGroups /\ Enabled(Groups[g])
      /\ \/ (\E j \in DOMAIN Groups[g].warmup : ~Executes(Groups[g].warmup[j]))
            /\ pc' = "killed" /\ g' = g
         \/ HasBench(1) /\ pc' = "throughput" /\ g' = g
         \/ g' = g + 1 /\ pc' = pc
  BY DEF StartGroup, given, SameGround
<1>2. g \in Nat /\ b \in Nat
  BY DEF DeathInv, Typed
<1>3. Typed' /\ FlagsSound'
  BY <1>1, <1>2, GroundKept
<1>4. StaticFirst'
  BY <1>1 DEF StaticFirst
<1>5. AtBench'
  <2>1. pc' \in Measuring => HasBench(1) /\ g' = g
    BY <1>1 DEF Measuring
  <2>2. pc' \in Measuring => MoreGroups' /\ HasBench(b)'
    BY <1>1, <2>1 DEF MoreGroups, HasBench, Groups, SameGround
  <2>3. pc' \in Measuring => Enabled(Groups[g])'
    BY <1>1, <2>1 DEF Enabled, Supported, Hwcap, Groups, SameGround
  <2> QED BY <2>2, <2>3 DEF AtBench
<1>6. DiesOnlyHere'
  <2>1. CASE pc' = "killed"
    <3>1. PICK j \in DOMAIN Groups[g].warmup : ~Executes(Groups[g].warmup[j])
      BY <1>1, <2>1
    <3>2. Deadly
      BY <1>1, <3>1, DeathIsListed DEF DeathInv
    <3>3. g' = g
      BY <1>1, <2>1
    <3> QED BY <1>1, <3>2, <3>3 DEF Deadly, DiesOnlyHere, SameGround
  <2> QED BY <2>1 DEF DiesOnlyHere
<1> QED BY <1>3, <1>4, <1>5, <1>6 DEF DeathInv

\* A throughput function dies as listed.
LEMMA ThroughputDies == DeathInv /\ MeasureThroughput => DeathInv'
<1> SUFFICES ASSUME DeathInv, MeasureThroughput PROVE DeathInv'
  OBVIOUS
<1>1. /\ SameGround /\ pinned' = pinned /\ b' = b /\ g' = g
      /\ pc = "throughput"
      /\ \/ pc' = "reset"
         \/ ~Executes(bench) /\ pc' = "killed"
  BY DEF MeasureThroughput, given, SameGround
<1>2. g \in Nat /\ b \in Nat
  BY DEF DeathInv, Typed
<1>3. Typed' /\ FlagsSound'
  BY <1>1, <1>2, GroundKept
<1>4. StaticFirst'
  BY <1>1 DEF StaticFirst
<1>5. MoreGroups /\ HasBench(b) /\ Enabled(Groups[g])
  BY <1>1 DEF DeathInv, AtBench, Measuring
<1>6. AtBench'
  BY <1>1, <1>5 DEF AtBench, MoreGroups, HasBench, Enabled, Supported, Hwcap, Groups, SameGround
<1>7. DiesOnlyHere'
  <2>1. CASE pc' = "killed"
    <3>1. ~Executes(bench) /\ bench \in {Groups[g].benches[j] : j \in DOMAIN Groups[g].benches}
      BY <1>1, <1>5, <2>1 DEF bench, HasBench
    <3>2. Deadly
      BY <1>5, <3>1, DeathIsListed DEF DeathInv
    <3> QED BY <1>1, <3>2 DEF Deadly, DiesOnlyHere, SameGround
  <2> QED BY <2>1 DEF DiesOnlyHere
<1> QED BY <1>3, <1>4, <1>6, <1>7 DEF DeathInv

\* The other steps kill nobody.
LEMMA OthersLive ==
  ASSUME DeathInv, SameGround, g' \in Nat, b' \in Nat,
         pc' \notin {"static", "killed"},
         pc' \in Measuring => pc \in Measuring /\ g' = g /\ HasBench(b)'
  PROVE  DeathInv'
<1>1. Typed' /\ FlagsSound'
  BY GroundKept
<1>2. StaticFirst' /\ DiesOnlyHere'
  BY DEF StaticFirst, DiesOnlyHere
<1>3. pc' \in Measuring => MoreGroups /\ Enabled(Groups[g]) /\ g' = g /\ HasBench(b)'
  BY DEF DeathInv, AtBench
<1>4. AtBench'
  BY <1>3 DEF AtBench, MoreGroups, Enabled, Supported, Hwcap, Groups, SameGround, Measuring
<1> QED BY <1>1, <1>2, <1>4 DEF DeathInv

\* Every step preserves the invariant.
LEMMA DeathStep == DeathInv /\ [Next]_vars => DeathInv'
<1> SUFFICES ASSUME DeathInv, [Next]_vars PROVE DeathInv'
  OBVIOUS
<1>0. g \in Nat /\ b \in Nat /\ g + 1 \in Nat /\ b + 1 \in Nat
  BY DEF DeathInv, Typed
<1>1. CASE Detect
  BY <1>1, DetectDies
<1>2. CASE Pin
  BY <1>0, <1>2, OthersLive DEF Pin, given, SameGround, Measuring
<1>3. CASE PrintCpuInfo
  BY <1>0, <1>3, OthersLive DEF PrintCpuInfo, given, SameGround, Measuring
<1>4. CASE WarmCopies
  BY <1>0, <1>4, OthersLive DEF WarmCopies, given, SameGround, Measuring
<1>5. CASE Copies
  BY <1>0, <1>5, OthersLive DEF Copies, given, SameGround, Measuring
<1>6. CASE SkipGroup
  BY <1>0, <1>6, OthersLive DEF SkipGroup, given, SameGround, Measuring
<1>7. CASE StartGroup
  BY <1>7, StartGroupDies
<1>8. CASE MeasureThroughput
  BY <1>8, ThroughputDies
<1>9. CASE ResetTimer
  <2>1. SameGround /\ g' = g /\ b' = b /\ pc = "reset" /\ pc' = "latency" /\ Groups' = Groups
    BY <1>9 DEF ResetTimer, given, SameGround, Groups
  <2>2. HasBench(b)
    BY <2>1 DEF DeathInv, AtBench, Measuring
  <2>3. HasBench(b)'
    BY <2>1, <2>2 DEF HasBench
  <2> QED BY <1>0, <2>1, <2>3, OthersLive DEF Measuring
<1>10. CASE MeasureLatency
  <2>1. /\ SameGround /\ Groups' = Groups /\ pc = "latency"
        /\ \/ HasBench(b + 1) /\ b' = b + 1 /\ pc' = "throughput" /\ g' = g
           \/ b' = 1 /\ g' = g + 1 /\ pc' = "group"
    BY <1>10 DEF MeasureLatency, given, SameGround, Groups
  <2>2. pc' = "throughput" => HasBench(b)'
    BY <2>1 DEF HasBench
  <2> QED BY <1>0, <2>1, <2>2, OthersLive DEF Measuring
<1>11. CASE Finish
  BY <1>0, <1>11, OthersLive DEF Finish, given, SameGround, Measuring
<1>12. CASE UNCHANGED vars
  BY <1>12 DEF vars, given, DeathInv, Typed, FlagsSound, AsksCpu, StaticFirst, AtBench,
               Measuring,
       DiesOnlyHere, MoreGroups, HasBench, Enabled, Supported, Hwcap, Groups
<1> QED BY <1>1, <1>2, <1>3, <1>4, <1>5, <1>6, <1>7, <1>8, <1>9, <1>10, <1>11, <1>12 DEF Next

\* The process dies of an illegal instruction only in the ways DiesOnlyHere lists:
\* the checks of x86_utils.cpp, the guards of x86_avx(), x86_sse() and
\* loongarch_lasx(), and what an ARM program is compiled for exclude every other.
THEOREM DeathsAreListed == Spec => []DiesOnlyHere
<1>1. DeathInv => DiesOnlyHere
  BY DEF DeathInv
<1> QED BY <1>1, DeathStart, DeathStep, PTL DEF Spec

------------------------------------------------------------------------------
\* The Timer starts at zero before each measured function, and the first
\* reading is the throughput function's own time.
ReadingsTyped ==
  /\ elapsed \in Nat /\ throughput \in Nat
  /\ spent \in [throughput : Nat, latency : Nat]

Readings ==
  /\ pc \in {"copy", "throughput", "latency"} => elapsed = 0
  /\ pc \in {"reset", "latency"} => throughput = spent.throughput
  /\ figures.throughput = figures.spent.throughput
  /\ figures.latency = figures.spent.latency

ReadingsInv == ReadingsTyped /\ Readings

\* No figure has been printed at first.
LEMMA ReadingsStart == Init => ReadingsInv
<1> SUFFICES ASSUME Init PROVE ReadingsInv
  OBVIOUS
<1>1. ReadingsTyped
  BY DEF Init, ReadingsTyped, NoSpent
<1>2. Readings
  BY DEF Init, Readings, NoFigures, NoSpent
<1> QED BY <1>1, <1>2 DEF ReadingsInv

\* Every step keeps the readings of the Timer apart.
LEMMA ReadingsStep == ReadingsInv /\ [Next]_vars => ReadingsInv'
<1> SUFFICES ASSUME ReadingsInv, [Next]_vars PROVE ReadingsInv'
  OBVIOUS
<1> USE DEF ReadingsInv
<1>0. \A t \in Durations : t \in Nat
  BY CpuAssumption
<1>1. CASE UNCHANGED measured /\ pc' \in {"killed", "static", "affinity", "info", "exited",
                                         "bandwidth", "crashed", "group", "done"}
  BY <1>1 DEF measured, ReadingsTyped, Readings
<1>2. CASE Detect
  <2>1. UNCHANGED measured /\ (pc' = "killed" \/ pc' = "static" \/ pc' = "affinity")
    BY <1>2 DEF Detect
  <2> QED BY <1>1, <2>1
<1>3. CASE Pin \/ PrintCpuInfo \/ SkipGroup \/ Finish
  <2>1. UNCHANGED measured /\ pc' \in {"info", "exited", "bandwidth", "crashed", "group", "done"}
    BY <1>3 DEF Pin, PrintCpuInfo, SkipGroup, Finish
  <2> QED BY <1>1, <2>1
<1>4. CASE WarmCopies
  BY <1>4 DEF WarmCopies, ReadingsTyped, Readings
<1>5. CASE Copies
  <2>1. PICK t \in Durations :
          figures' = [NoFigures EXCEPT !.throughput = elapsed + t, !.spent.throughput = t]
    BY <1>5 DEF Copies
  <2>2. /\ figures'.throughput = t /\ figures'.spent.throughput = t
        /\ figures'.latency = 0 /\ figures'.spent.latency = 0
    <3>1. elapsed = 0 /\ elapsed + t = t
      BY <1>0, <1>5 DEF Copies, Readings
    <3>2. figures' = [NoFigures EXCEPT !.throughput = t, !.spent.throughput = t]
      BY <2>1, <3>1
    <3> QED BY <3>2 DEF NoFigures, NoSpent
  <2> QED BY <1>5, <2>2 DEF Copies, ReadingsTyped, Readings
<1>6. CASE StartGroup
  <2>1. elapsed' = 0 /\ UNCHANGED <<throughput, spent, figures>>
        /\ pc' \in {"killed", "throughput", "group"}
    BY <1>6 DEF StartGroup
  <2> QED BY <2>1 DEF ReadingsTyped, Readings
<1>7. CASE MeasureThroughput
  <2>1. CASE Executes(bench)
    <3>1. PICK t \in Durations :
            /\ throughput' = elapsed + t /\ elapsed' = elapsed + t
            /\ spent' = [spent EXCEPT !.throughput = t]
            /\ pc' = "reset"
      BY <1>7, <2>1 DEF MeasureThroughput
    <3>2. elapsed = 0 /\ figures' = figures
      BY <1>7 DEF MeasureThroughput, Readings
    <3>3. t \in Nat
      BY <1>0
    <3> QED BY <3>1, <3>2, <3>3 DEF ReadingsTyped, Readings
  <2>2. CASE ~Executes(bench)
    BY <1>1, <1>7, <2>2 DEF MeasureThroughput, measured
  <2> QED BY <2>1, <2>2
<1>8. CASE ResetTimer
  BY <1>8 DEF ResetTimer, Restarted, ReadingsTyped, Readings
<1>9. CASE MeasureLatency
  <2>1. PICK t \in Durations :
          figures' = [throughput |-> throughput, latency |-> elapsed + t,
                      spent |-> [spent EXCEPT !.latency = t]]
    BY <1>9 DEF MeasureLatency
  <2>2. /\ elapsed = 0 /\ throughput = spent.throughput
        /\ spent' = NoSpent /\ elapsed' = 0 /\ throughput' = 0
        /\ pc' \in {"throughput", "group"}
    BY <1>9 DEF MeasureLatency, Readings
  <2>3. t \in Nat
    BY <1>0
  <2> QED BY <2>1, <2>2, <2>3 DEF ReadingsTyped, Readings, NoSpent
<1>10. CASE UNCHANGED vars
  BY <1>10 DEF vars, measured, ReadingsTyped, Readings
<1> QED BY <1>2, <1>3, <1>4, <1>5, <1>6, <1>7, <1>8, <1>9, <1>10 DEF Next

------------------------------------------------------------------------------
\* The names a program can print.
NamesIn(grp) == {grp.benches[v].name : v \in DOMAIN grp.benches}
NamesOf(G) == UNION {NamesIn(G[u]) : u \in DOMAIN G}
AllNames == {"bandwidth"} \cup UNION {NamesOf(GroupsOf[a]) : a \in Archs}

\* The lines printed are a sequence of these names.
PrintedTyped ==
  /\ build.arch \in Archs /\ g \in Nat /\ b \in Nat
  /\ printed \in Seq(AllNames)

Early == {"static", "affinity", "info", "bandwidth", "copy"}
\* Nothing is printed before the copies, and a group starts at its first benchmark.
Places ==
  /\ pc \in Early => printed = <<>> /\ b = 1
  /\ pc = "group" => b = 1
  /\ pc \in Measuring => MoreGroups /\ HasBench(b)

\* Every benchmark printed comes before the one that is next.
Behind(u, v) == u < g \/ (u = g /\ v < b)
InOrder ==
  \A i \in DOMAIN printed :
    \/ printed[i] = "bandwidth"
    \/ \E u, v \in Nat :
         /\ u \in DOMAIN Groups /\ v \in DOMAIN Groups[u].benches /\ Behind(u, v)
         /\ printed[i] = Groups[u].benches[v].name

\* No line repeats the name of another, but for those of Twice.
NoRepeat ==
  \A i, j \in DOMAIN printed : printed[i] = printed[j] => i = j \/ printed[i] \in Twice

NamesInv == PrintedTyped /\ Places /\ InOrder /\ NoRepeat

\* No line has been printed at first.
LEMMA NamesStart == Init => NamesInv
<1> SUFFICES ASSUME Init PROVE NamesInv
  OBVIOUS
<1>1. PrintedTyped
  BY CpuAssumption DEF Init, PrintedTyped
<1>2. Places /\ InOrder /\ NoRepeat
  BY DEF Init, Places, Early, Measuring, InOrder, NoRepeat
<1> QED BY <1>1, <1>2 DEF NamesInv

\* A step that prints nothing and does not go back.
LEMMA NothingPrinted ==
  ASSUME NamesInv, build' = build, printed' = printed, Places',
         (g' = g /\ b' = b) \/ (g' = g + 1 /\ b' = b)
  PROVE  NamesInv'
<1> USE DEF NamesInv
<1>1. g \in Nat /\ b \in Nat /\ g' \in Nat /\ b' \in Nat
  BY DEF PrintedTyped
<1>2. PrintedTyped'
  BY <1>1 DEF PrintedTyped
<1>3. NoRepeat'
  BY DEF NoRepeat
<1>4. Groups' = Groups
  BY DEF Groups
<1>5. \A u, v \in Nat : Behind(u, v) => Behind(u, v)'
  BY <1>1 DEF Behind
<1>6. InOrder'
  BY <1>4, <1>5 DEF InOrder
<1> QED BY <1>2, <1>3, <1>6

\* The first line.
LEMMA CopiesPrint == NamesInv /\ Copies => NamesInv'
<1> SUFFICES ASSUME NamesInv, Copies PROVE NamesInv'
  OBVIOUS
<1> USE DEF NamesInv
<1>1. /\ pc = "copy" /\ pc' = "group" /\ printed' = Append(printed, "bandwidth")
      /\ build' = build /\ g' = g /\ b' = b
  BY DEF Copies, given
<1>2. printed = <<>>
  BY <1>1 DEF Places, Early
<1>3. printed' = <<"bandwidth">>
  BY <1>1, <1>2
<1>4. DOMAIN printed' = {1} /\ printed'[1] = "bandwidth"
  BY <1>3
<1>5. PrintedTyped'
  <2>1. "bandwidth" \in AllNames
    BY DEF AllNames
  <2> QED BY <1>1, <1>3, <2>1 DEF PrintedTyped
<1>6. Places'
  BY <1>1 DEF Places, Early, Measuring
<1> QED BY <1>4, <1>5, <1>6 DEF InOrder, NoRepeat

\* A benchmark's line: no line above it has its name, because the lines above
\* are of benchmarks that come before it.
LEMMA LatencyPrints == NamesInv /\ MeasureLatency => NamesInv'
<1> SUFFICES ASSUME NamesInv, MeasureLatency PROVE NamesInv'
  OBVIOUS
<1> USE DEF NamesInv
<1> DEFINE name == Groups[g].benches[b].name
<1>1. /\ pc = "latency" /\ printed' = Append(printed, name) /\ build' = build
      /\ \/ HasBench(b + 1) /\ b' = b + 1 /\ pc' = "throughput" /\ g' = g
         \/ b' = 1 /\ g' = g + 1 /\ pc' = "group"
  BY DEF MeasureLatency, given, bench
<1>2. g \in DOMAIN Groups /\ b \in DOMAIN Groups[g].benches
  BY <1>1 DEF Places, Measuring, MoreGroups, HasBench
<1>3. build.arch \in Archs /\ Groups = GroupsOf[build.arch] /\ Groups' = Groups
  BY <1>1 DEF PrintedTyped, Groups
<1>4. g \in Nat /\ b \in Nat /\ g' \in Nat /\ b' \in Nat
  BY <1>1 DEF PrintedTyped
<1>5. name \in AllNames
  <2>1. name \in NamesIn(Groups[g])
    BY <1>2 DEF NamesIn
  <2>2. name \in NamesOf(Groups)
    BY <1>2, <2>1 DEF NamesOf
  <2> QED BY <1>3, <2>2 DEF AllNames
<1>6. NamesOnce(Groups)
  BY <1>3, OnceEverywhere
<1>7. /\ name # "bandwidth"
      /\ \A u \in DOMAIN Groups : \A v \in DOMAIN Groups[u].benches :
           Groups[u].benches[v].name = name => (u = g /\ v = b) \/ name \in Twice
  BY <1>2, <1>6 DEF NamesOnce
<1> HIDE DEF name
<1>8. printed \in Seq(AllNames)
  BY DEF PrintedTyped
<1>9. /\ printed' \in Seq(AllNames)
      /\ DOMAIN printed' = DOMAIN printed \cup {Len(printed) + 1}
      /\ \A i \in DOMAIN printed : i # Len(printed) + 1 /\ printed'[i] = printed[i]
      /\ printed'[Len(printed) + 1] = name
  BY <1>1, <1>5, <1>8
<1>10. PrintedTyped'
  BY <1>1, <1>3, <1>4, <1>9 DEF PrintedTyped
<1>11. Places'
  <2>1. pc' = "throughput" => HasBench(b)' /\ MoreGroups'
    BY <1>1, <1>2, <1>3 DEF HasBench, MoreGroups
  <2> QED BY <1>1, <2>1 DEF Places, Early, Measuring
<1>12. /\ \A u, v \in Nat : Behind(u, v) => Behind(u, v)' /\ ~(u = g /\ v = b)
       /\ g < g' \/ (g = g' /\ b < b')
  <2>1. g' = g + 1 \/ (g' = g /\ b' = b + 1)
    BY <1>1
  <2>2. g < g' \/ (g = g' /\ b < b')
    BY <1>4, <2>1
  <2>3. ASSUME NEW u \in Nat, NEW v \in Nat, Behind(u, v)
        PROVE  Behind(u, v)' /\ ~(u = g /\ v = b)
    <3>1. u < g \/ (u = g /\ v < b)
      BY <2>3 DEF Behind
    <3>2. u < g' \/ (u = g' /\ v < b')
      BY <1>4, <2>1, <3>1
    <3>3. ~(u = g /\ v = b)
      BY <1>4, <3>1
    <3> QED BY <3>2, <3>3 DEF Behind
  <2> QED BY <2>2, <2>3
<1>13. InOrder'
  <2>1. ASSUME NEW i \in DOMAIN printed
        PROVE  \/ printed'[i] = "bandwidth"
               \/ \E u, v \in Nat :
                    /\ u \in DOMAIN Groups /\ v \in DOMAIN Groups[u].benches /\ Behind(u, v)'
                    /\ printed'[i] = Groups[u].benches[v].name
    BY <1>9, <1>12 DEF InOrder
  <2>2. /\ g \in Nat /\ b \in Nat
        /\ g \in DOMAIN Groups /\ b \in DOMAIN Groups[g].benches
        /\ g < g' \/ (g = g' /\ b < b')
        /\ printed'[Len(printed) + 1] = Groups[g].benches[b].name
    BY <1>2, <1>4, <1>9, <1>12 DEF name
  <2>3. \E u, v \in Nat :
          /\ u \in DOMAIN Groups /\ v \in DOMAIN Groups[u].benches /\ Behind(u, v)'
          /\ printed'[Len(printed) + 1] = Groups[u].benches[v].name
    <3>1. \A u, v \in Nat : u = g /\ v = b => Behind(u, v)'
      BY <2>2 DEF Behind
    <3> QED BY <2>2, <3>1
  <2>4. ASSUME NEW i \in DOMAIN printed'
        PROVE  \/ printed'[i] = "bandwidth"
               \/ \E u, v \in Nat :
                    /\ u \in DOMAIN Groups /\ v \in DOMAIN Groups[u].benches /\ Behind(u, v)'
                    /\ printed'[i] = Groups[u].benches[v].name
    <3>1. i \in DOMAIN printed \/ i = Len(printed) + 1
      BY <1>9, <2>4
    <3>2. CASE i \in DOMAIN printed
      BY <2>1, <3>2
    <3>3. CASE i = Len(printed) + 1
      BY <2>3, <3>3
    <3> QED BY <3>1, <3>2, <3>3
  <2> HIDE DEF NamesInv
  <2> QED BY <1>3, <2>4 DEF InOrder
<1>14. \A i \in DOMAIN printed : printed[i] = name => name \in Twice
  <2> SUFFICES ASSUME NEW i \in DOMAIN printed, printed[i] = name PROVE name \in Twice
    OBVIOUS
  <2>1. PICK u, v \in Nat :
          /\ u \in DOMAIN Groups /\ v \in DOMAIN Groups[u].benches /\ Behind(u, v)
          /\ printed[i] = Groups[u].benches[v].name
    BY <1>7 DEF InOrder
  <2> QED BY <1>7, <1>12, <2>1
<1>15. NoRepeat'
  BY <1>9, <1>14 DEF NoRepeat
<1> QED BY <1>10, <1>11, <1>13, <1>15

\* Every step keeps the lines in order and the names apart.
LEMMA NamesStep == NamesInv /\ [Next]_vars => NamesInv'
<1> SUFFICES ASSUME NamesInv, [Next]_vars PROVE NamesInv'
  OBVIOUS
<1> USE DEF NamesInv
<1>1. CASE Detect
  <2>1. /\ build' = build /\ printed' = printed /\ g' = g /\ b' = b
        /\ pc = "static" /\ (pc' = "killed" \/ pc' = "static" \/ pc' = "affinity")
    BY <1>1 DEF Detect, given, measured
  <2>2. Places'
    BY <2>1 DEF Places, Early, Measuring
  <2> QED BY <2>1, <2>2, NothingPrinted
<1>2. CASE Pin \/ PrintCpuInfo \/ WarmCopies
  <2>1. /\ build' = build /\ printed' = printed /\ g' = g /\ b' = b
        /\ pc \in Early /\ pc' \in {"info", "exited", "bandwidth", "crashed", "copy"}
    BY <1>2 DEF Pin, PrintCpuInfo, WarmCopies, given, measured, Early
  <2>2. Places'
    BY <2>1 DEF Places, Early, Measuring
  <2> QED BY <2>1, <2>2, NothingPrinted
<1>3. CASE Copies
  BY <1>3, CopiesPrint
<1>4. CASE SkipGroup
  <2>1. /\ build' = build /\ printed' = printed /\ g' = g + 1 /\ b' = b
        /\ pc = "group" /\ pc' = "group"
    BY <1>4 DEF SkipGroup, given, measured
  <2>2. Places'
    BY <2>1 DEF Places, Early, Measuring
  <2> QED BY <2>1, <2>2, NothingPrinted
<1>5. CASE StartGroup
  <2>1. /\ build' = build /\ printed' = printed /\ b' = 1 /\ pc = "group" /\ MoreGroups
        /\ \/ pc' = "killed" /\ g' = g
           \/ HasBench(1) /\ pc' = "throughput" /\ g' = g
           \/ g' = g + 1 /\ pc' = "group"
    BY <1>5 DEF StartGroup, given
  <2>2. Places'
    BY <2>1 DEF Places, Early, Measuring, MoreGroups, HasBench, Groups
  <2>3. b' = b
    BY <2>1 DEF Places
  <2> QED BY <2>1, <2>2, <2>3, NothingPrinted
<1>6. CASE MeasureThroughput \/ ResetTimer
  <2>1. /\ build' = build /\ printed' = printed /\ g' = g /\ b' = b
        /\ pc \in Measuring /\ pc' \in {"reset", "killed", "latency"}
    BY <1>6 DEF MeasureThroughput, ResetTimer, given, Measuring
  <2>2. Places'
    BY <2>1 DEF Places, Early, Measuring, MoreGroups, HasBench, Groups
  <2> QED BY <2>1, <2>2, NothingPrinted
<1>7. CASE MeasureLatency
  BY <1>7, LatencyPrints
<1>8. CASE Finish
  <2>1. build' = build /\ printed' = printed /\ g' = g /\ b' = b /\ pc' = "done"
    BY <1>8 DEF Finish, given, measured
  <2>2. Places'
    BY <2>1 DEF Places, Early, Measuring
  <2> QED BY <2>1, <2>2, NothingPrinted
<1>9. CASE UNCHANGED vars
  <2>1. build' = build /\ printed' = printed /\ g' = g /\ b' = b /\ pc' = pc
    BY <1>9 DEF vars, given, measured
  <2>2. Places'
    BY <2>1 DEF Places, Early, Measuring, MoreGroups, HasBench, Groups
  <2> QED BY <2>1, <2>2, NothingPrinted
<1> QED BY <1>1, <1>2, <1>3, <1>4, <1>5, <1>6, <1>7, <1>8, <1>9 DEF Next

\* Every line of the CPU backend gives the time of its own functions (the Timer of
\* benchmark() and bandwidth() is started after the warm-up and restarted between
\* the two readings), and its name tells it from every other line.
THEOREM FiguresAreTheirOwn == Spec => []FiguresAreOwn
<1>1. ReadingsInv /\ NamesInv => FiguresAreOwn
  BY DEF ReadingsInv, Readings, NamesInv, NoRepeat, Twice, FiguresAreOwn
<1> QED BY <1>1, ReadingsStart, ReadingsStep, NamesStart, NamesStep, PTL DEF Spec
===============================================================================
