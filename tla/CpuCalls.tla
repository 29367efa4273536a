------------------------------- MODULE CpuCalls -------------------------------
(***************************************************************************)
(* The calls of benchmark() in aarch64(), aarch64_dual_issue(), armv7(),   *)
(* x86_avx(), x86_sse() and loongarch_lasx(), in groups: what the compiler *)
(* must be given for a group to be built, the instruction sets it asks for *)
(* when the program runs, the functions it runs to warm up, and its        *)
(* benchmarks by the names they print.                                     *)
(***************************************************************************)
EXTENDS Sequences

\* A benchmark: the name printed, the features its instructions belong to,
\* and the register state they use.  "base" needs no support of the system.
Bench(name, isa, regs) == [name |-> name, isa |-> isa, regs |-> regs]

Group(built, guard, warmup, benches) ==
  [built |-> built, guard |-> guard, warmup |-> warmup, benches |-> benches]

First(benches) == <<benches[1]>>

------------------------------------------------------------------------------
AvxBenches ==
  <<Bench("vfmadd132ps_avx", {"avx", "fma"}, "ymm"),
    Bench("vfmadd132pd_avx", {"avx", "fma"}, "ymm")>>

Avx2Benches ==
  LET b(name) == Bench(name, {"avx", "avx2"}, "ymm")
  IN  <<b("vpmaddwd_avx2"), b("vpaddd_avx2"), b("vpand_avx2"),
        b("vpmaddwd_vpaddd_avx2"), b("vpackssdw_avx2"), b("vpacksswb_avx2")>>

\* All throughput functions clear their registers with an AVX instruction.
Avx512Benches ==
  <<Bench("vpmaddwd_512", {"avx", "avx512f", "avx512bw"}, "zmm"),
    Bench("vpaddd_512", {"avx", "avx512f"}, "zmm")>>

Avx512FmaBenches == <<Bench("vfmadd132ps_512", {"avx", "avx512f"}, "zmm")>>

VnniBenches == <<Bench("vpdpbusd_vnni", {"avx", "avx512f", "avx512vnni"}, "zmm")>>

\* The last two of these are encoded as AVX instructions.
SseBenches ==
  <<Bench("mulps_sse", {"sse2"}, "base"), Bench("mulpd_sse", {"sse2"}, "base"),
    Bench("vfmadd132ps_sse", {"avx", "fma"}, "ymm"),
    Bench("vpmaddwd_vpaddd_sse", {"avx"}, "ymm")>>

X86AvxGroups ==
  <<Group({}, {"FMA", "AVX"}, First(AvxBenches), AvxBenches),
    Group({}, {"AVX2"}, First(Avx2Benches), Avx2Benches),
    Group({}, {"AVX512"}, First(Avx512Benches), Avx512Benches),
    Group({}, {"AVX512"}, <<>>, Avx512FmaBenches),
    Group({"vnni"}, {"VNNI"}, <<>>, VnniBenches)>>

X86SseGroups == <<Group({}, {"SSE2"}, First(SseBenches), SseBenches)>>

------------------------------------------------------------------------------
\* ARM programs ask nothing when they run.  Every function clears vector
\* registers.
Arm(built, names) ==
  Group(built, {}, <<>>, [j \in DOMAIN names |-> Bench(names[j], {"neon"}, "base")])

ArmFor(feature, built, names) ==
  Group(built, {}, <<>>, [j \in DOMAIN names |-> Bench(names[j], {"neon", feature}, "base")])

ArmWarmup(name) == Group({}, {}, <<Bench(name, {"neon"}, "base")>>, <<>>)

DualIssueGroups ==
  <<Arm({}, <<"ins_ldd">>),
    Arm({"all"}, <<"ldd_ldx_ins", "ldqstq">>),
    Arm({}, <<"ldq_fmlaq">>),
    Arm({"all"}, <<"stq_fmlaq_lane", "ldd_fmlad", "ldq_fmlaq_sep",
          "ldq_fmlaq_lane_sep">>),
    Arm({}, <<"ldd_fmlaq_sep">>),
    Arm({"all"}, <<"lds_fmlaq_lane_sep">>),
    Arm({}, <<"ldd_fmlaq_lane_sep">>),
    Arm({"all"}, <<"ldx_fmlaq_lane_sep">>),
    Arm({}, <<"ldd_ldx_ins_fmlaq_lane_sep">>),
    Arm({"all"}, <<"ldd_nop_ldx_ins_fmlaq_lane_sep">>),
    Arm({}, <<"ins_fmlaq_lane_1_4_sep", "ldd_fmlaq_lane_1_4_sep">>),
    Arm({"all"}, <<"ldq_fmlaq_lane_1_4_sep", "ins_fmlaq_lane_1_3_sep",
          "ldd_fmlaq_lane_1_3_sep", "ldq_fmlaq_lane_1_3_sep",
          "ldq_fmlaq_lane_1_2_sep">>),
    Arm({}, <<"ins_fmlaq_lane_sep">>),
    Arm({"all"}, <<"dupd_fmlaq_lane_sep", "smlal_8b_addp", "smlal_8b_dupd",
          "ldd_smlalq_sep_8b", "ldq_smlalq_sep", "lddx2_smlalq_sep",
          "smlal_sadalp", "smull_smlal_sadalp",
          "smull_smlal_sadalp_sep", "ins_smlalq_sep_1_2",
          "ldx_ins_smlalq_sep">>),
    ArmFor("dotprod", {"all", "dotprod"}, <<"ldrd_sdot_lane", "ldrq_sdot_lane">>),
    Arm({"all"}, <<"dupd_lane_smlal_s8", "ldd_mla_s16_lane_1_4_sep",
          "ldrd_sshll", "sshll_ins_sep">>)>>

SingleIssueGroups ==
  <<ArmWarmup("fmla"),
    Arm({"all"}, <<"nop">>),
    Arm({}, <<"ldd", "ldq", "stq", "ldpq", "lddx2", "ld1q", "eor", "fmla",
          "fmlad", "fmla_x2", "mla", "fmul", "mul", "addp">>),
    ArmFor("dotprod", {"dotprod"}, <<"sdot">>),
    ArmFor("i8mm", {"i8mm"}, <<"smmla">>),
    ArmFor("bf16", {"bf16"}, <<"bfmmla">>),
    Arm({}, <<"sadalp", "add", "fadd", "smull", "smlal_4b", "smlal_8b",
          "dupd_lane_s8", "mlaq_lane_s16", "sshll", "tbl", "ins",
          "sqrdmulh", "usubl", "abs", "fcvtzs", "scvtf", "fcvtns",
          "fcvtms", "fcvtps", "fcvtas", "fcvtn", "fcvtl">>),
    Arm({"all"}, <<"prefetch_very_long">>)>>

\* aarch64() ends with a call of aarch64_dual_issue().
Aarch64Groups == SingleIssueGroups \o DualIssueGroups

Armv7Groups ==
  <<ArmWarmup("mla_s32"), ArmWarmup("mla_f32"),
    Arm({"all"}, <<"nop", "eor_d", "eor_q", "ld1_d", "vld1d_x2", "ld1_q",
          "add_imm", "add_reg", "pld", "st1_d", "ldst1_d">>),
    Arm({}, <<"padal", "padd", "mla_s32">>),
    Arm({"all"}, <<"vmovl_s8", "mla_s16", "mla_s16_lane", "mla_s16_lane_d",
          "ldrd_mla_s16_lane", "ldrd_mla_s16_lane_1_4",
          "ld1d_mlad_s16">>),
    Arm({}, <<"mlal_s8", "mlal_s16", "mlal_s16_lane", "mla_f32">>),
    Arm({"all"}, <<"mla_f32_d", "mla_f32d_lane", "mla_f32q_lane", "ld1d_fmlad",
          "ld1d_fmlaq", "ld1dx2_fmlad_lane", "ld1dx2_fmlaq_lane">>),
    Arm({}, <<"mul_s32", "mul_f32", "cvt", "qrdmulh", "rshl">>)>>

------------------------------------------------------------------------------
\* (xvfadd.s and xvfadd.d are in the list twice.)
LasxBenches ==
  LET names ==
    <<"xvld", "xvst", "xvldx", "xvstx", "xvldrepl.b", "xvldrepl.h",
      "xvldrepl.w", "xvldrepl.d", "xvstelm.b", "xvstelm.h", "xvstelm.w",
      "xvstelm.d", "xvfadd.s", "xvfadd.d", "xvfsub.s", "xvfsub.d",
      "xvfadd.s", "xvfadd.d", "xvfmul.s", "xvfmul.d", "xvfdiv.s",
      "xvfdiv.d", "xvfmadd.s", "xvfmadd.d", "xvfmsub.s", "xvfmsub.d",
      "xvfnmadd.s", "xvfnmadd.d", "xvfnmsub.s", "xvfnmsub.d", "xvfmax.s",
      "xvfmax.d", "xvfmin.s", "xvfmin.d", "xvfmaxa.s", "xvfmaxa.d",
      "xvfmina.s", "xvfmina.d", "xvflogb.s", "xvflogb.d", "xvfclass.s",
      "xvfclass.d", "xvfsqrt.s", "xvfsqrt.d", "xvfrecip.s", "xvfrecip.d",
      "xvfrsqrt.s", "xvfrsqrt.d">>
  IN  [j \in DOMAIN names |-> Bench(names[j], {"lasx"}, "xr")]

LoongarchGroups == <<Group({}, {"LASX"}, <<>>, LasxBenches)>>

------------------------------------------------------------------------------
\* CPUBackend::execute calls the functions of every architecture; those of
\* the others are empty.
GroupsOf ==
  [x86       |-> X86AvxGroups \o X86SseGroups,
   aarch64   |-> Aarch64Groups,
   armv7     |-> Armv7Groups,
   loongarch |-> LoongarchGroups]
===============================================================================
