------------------------------ MODULE MCCpuBackend ----------------------------
(* Every x86 machine whose features come in the order the architectures add  *)
(* them, under every system that enables SSE, then AVX, then AVX512 state;   *)
(* ARM and LoongArch machines with and without each optional feature.        *)
EXTENDS CpuBackend

\* What a feature presupposes.
Presupposes(f) ==
  CASE f = "sse2" -> {}
    [] f = "avx" -> {"sse2"}
    [] f \in {"fma", "avx2"} -> {"avx"}
    [] f = "avx512f" -> {"fma", "avx2"}
    [] OTHER -> {"avx512f"}

\* An x86_64 CPU always has SSE2.
CpuSets ==
  {a \in SUBSET Features.x86 : "sse2" \in a /\ \A f \in a : Presupposes(f) \subseteq a}

Machine(arch, cpu, osxsave, os) == [arch |-> arch, cpu |-> cpu, osxsave |-> osxsave, os |-> os]

X86Machines ==
  {Machine("x86", c, TRUE, s) :
     c \in CpuSets, s \in {{"xmm"}, {"xmm", "ymm"}, {"xmm", "ymm", "zmm"}}}
  \cup {Machine("x86", c, FALSE, {}) : c \in CpuSets}

OtherMachines ==
  {Machine("aarch64", {"neon"} \cup c, FALSE, {}) :
     c \in {{}, {"dotprod"}, {"dotprod", "bf16"}, {"dotprod", "i8mm", "bf16"}}}
  \cup {Machine("armv7", c, FALSE, {}) : c \in SUBSET {"neon"}}
  \cup {Machine("loongarch", c, FALSE, s) :
          c \in {{}, {"lsx"}, {"lsx", "lasx"}}, s \in SUBSET {"xr"}}

MCMachines == X86Machines \cup OtherMachines

\* A core with both names, cores without one of them, and none.
MCCores ==
  {[found |-> TRUE, vendor |-> v, uarch |-> u] :
     v \in {"arm", "fujitsu"}, u \in {"cortex_a76", "cortex_a510"}} \cup {NotAsked}

MCBuilds ==
  {[arch |-> "x86", given |-> w] : w \in SUBSET {"vnni"}}
  \cup {[arch |-> "aarch64", given |-> {}],
        [arch |-> "aarch64", given |-> {"dotprod", "cpuinfo"}],
        [arch |-> "aarch64", given |-> {"all", "i8mm"}],
        [arch |-> "aarch64", given |-> {"all", "dotprod", "i8mm", "bf16"}]}
  \cup {[arch |-> "armv7", given |-> w] : w \in SUBSET {"all"}}
  \cup {[arch |-> "loongarch", given |-> {}]}
===============================================================================
