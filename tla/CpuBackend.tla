------------------------------- MODULE CpuBackend -----------------------------
(***************************************************************************)
(* CPUBackend: the process pins itself to a core, prints what it knows of  *)
(* the core, measures the memory bandwidth, and runs the groups of         *)
(* benchmarks of its architecture (CpuCalls).  An x86 program has detected *)
(* the instruction sets in the static initialisers of x86_utils.cpp; a     *)
(* LoongArch program asks the system; an ARM program asks nothing.  An     *)
(* instruction the machine or its operating system does not provide kills  *)
(* the process.  The figures are durations read from one Timer, restarted  *)
(* between the two functions of a benchmark.                               *)
(***************************************************************************)
EXTENDS CpuCalls, Integers

CONSTANTS
  Builds,       \* build records: architecture and what the compiler is given
  Machines,     \* machine records: architecture, cpu features, osxsave,
                \* enabled OS state
  Cores,        \* what libcpuinfo says of the core, if it finds it
  Durations     \* how long a measured function can take

Features == [x86 |-> {"sse2", "avx", "fma", "avx2", "avx512f", "avx512bw",
                      "avx512dq", "avx512vl", "avx512vnni"},
             aarch64 |-> {"neon", "dotprod", "i8mm", "bf16"},
             armv7 |-> {"neon"},
             loongarch |-> {"lsx", "lasx"}]

Archs == DOMAIN Features

\* FMA, AVX2 and AVX512 extend AVX, and a system that enables the state of YMM
\* registers has set OSXSAVE.
ASSUME CpuAssumption ==
  /\ Builds \subseteq [arch : Archs,
                       given : SUBSET {"vnni", "all", "dotprod", "i8mm", "bf16", "cpuinfo"}]
  /\ \A mc \in Machines :
       /\ mc.arch \in Archs /\ mc.cpu \subseteq Features[mc.arch]
       /\ mc.osxsave \in BOOLEAN /\ mc.os \subseteq {"xmm", "ymm", "zmm", "xr"}
       /\ mc.cpu \cap {"fma", "avx2", "avx512f"} # {} => "avx" \in mc.cpu
       /\ mc.arch = "x86" /\ ~mc.osxsave => "ymm" \notin mc.os
  /\ \A c \in Cores : DOMAIN c = {"found", "vendor", "uarch"} /\ c.found \in BOOLEAN
  /\ Durations \subseteq Nat \ {0}

VARIABLES
  build, machine, core, \* fixed
  pc,
  detected,             \* the is_..._supported flags that are set
  d,                    \* position among the static initialisers
  g, b,                 \* position among the groups and their benchmarks
  pinned,               \* the affinity mask is the one core
  elapsed,              \* time since the Timer was started
  throughput,           \* the first reading of the Timer
  spent,                \* what the functions of the benchmark took
  figures,              \* the last line printed
  printed               \* the names printed so far

given    == <<build, machine, core>>
measured == <<elapsed, throughput, spent, figures, printed>>
vars     == <<given, pc, detected, d, g, b, pinned, measured>>

NotAsked  == [found |-> FALSE, vendor |-> "unknown", uarch |-> "unknown"]
NoSpent   == [throughput |-> 0, latency |-> 0]
NoFigures == [throughput |-> 0, latency |-> 0, spent |-> NoSpent]

Init ==
  /\ build \in Builds /\ machine \in Machines /\ machine.arch = build.arch
  /\ core \in IF "cpuinfo" \in build.given THEN Cores ELSE {NotAsked}
  /\ pc = (IF build.arch = "x86" THEN "static" ELSE "affinity")
  /\ detected = {} /\ d = 1 /\ g = 1 /\ b = 1
  /\ pinned = FALSE /\ elapsed = 0 /\ throughput = 0 /\ spent = NoSpent
  /\ figures = NoFigures /\ printed = <<>>

------------------------------------------------------------------------------
\* The flags in the order of their initialisers.
Flags == <<"AVX", "FMA", "AVX2", "AVX512", "VNNI">>

\* What each initialiser asks cpuid for before it executes xgetbv.  The AVX2
\* test also asks for BMI1 and BMI2, taken to come with AVX2.
AsksCpu(flag) ==
  CASE flag = "AVX"    -> {"avx"}
    [] flag = "FMA"    -> {"fma"}
    [] flag = "AVX2"   -> {"avx2"}
    [] flag = "AVX512" -> {"avx512f"}
    [] flag = "VNNI"   -> {"avx512f", "avx512dq", "avx512bw", "avx512vl", "avx512vnni"}

\* Only the AVX and FMA tests look at OSXSAVE first.
AsksOsxsave(flag) == flag \in {"AVX", "FMA"}

\* A variant that does not look at the state the system enables.
OsUnchecked(flag) == TRUE

\* (eax & 6) == 6, whatever the instruction set.
OsEnables(flag) == {"xmm", "ymm"} \subseteq machine.os

\* Whether the initialiser gets as far as xgetbv.
ReachesXgetbv(flag) ==
  AsksCpu(flag) \subseteq machine.cpu /\ (AsksOsxsave(flag) => machine.osxsave)

MoreFlags == d < Len(Flags)

\* One static initialiser; xgetbv is an illegal instruction without OSXSAVE.
Detect ==
  /\ pc = "static"
  /\ LET flag == Flags[d]
     IN  IF ReachesXgetbv(flag) /\ ~machine.osxsave
         THEN pc' = "killed" /\ UNCHANGED <<detected, d>>
         ELSE /\ detected' = IF ReachesXgetbv(flag) /\ OsEnables(flag)
                             THEN detected \cup {flag} ELSE detected
              /\ IF MoreFlags THEN d' = d + 1 /\ UNCHANGED pc
                 ELSE pc' = "affinity" /\ UNCHANGED d
  /\ UNCHANGED <<given, g, b, pinned, measured>>

\* AT_HWCAP, which the system sets for what it and the processor have.
Hwcap == {"xr"} \subseteq machine.os /\ "lasx" \in machine.cpu

\* is_supported: SSE2 is read from cpuid at each call, LASX from AT_HWCAP at
\* the first.
Supported(type) ==
  CASE type = "SSE2" -> "sse2" \in machine.cpu
    [] type = "LASX" -> Hwcap
    [] OTHER         -> type \in detected

------------------------------------------------------------------------------
\* cpu_set_affinity(dev_id): the core is there or the process exits.
Pin ==
  /\ pc = "affinity"
  /\ \/ pinned' = TRUE /\ pc' = "info"
     \/ pc' = "exited" /\ UNCHANGED pinned
  /\ UNCHANGED <<given, detected, d, g, b, measured>>

\* The enumerators of libcpuinfo that the tables have a name for.
NamedVendors ==
  {"unknown", "intel", "amd", "huawei", "hygon", "arm", "qualcomm", "apple",
   "samsung", "nvidia", "mips", "ibm", "ingenic", "via", "cavium", "broadcom",
   "apm"}

NamedUarchs ==
  {"unknown", "p5", "quark", "p6", "dothan", "yonah", "conroe", "penryn",
   "nehalem", "sandy_bridge", "ivy_bridge", "haswell", "broadwell", "sky_lake",
   "palm_cove", "sunny_cove", "willamette", "prescott", "bonnell", "saltwell",
   "silvermont", "airmont", "goldmont", "goldmont_plus", "knights_ferry",
   "knights_corner", "knights_landing", "knights_hill", "knights_mill", "k5",
   "k6", "k7", "k8", "k10", "bulldozer", "piledriver", "steamroller",
   "excavator", "zen", "zen2", "zen3", "geode", "bobcat", "jaguar", "puma",
   "xscale", "arm7", "arm9", "arm11", "cortex_a5", "cortex_a7", "cortex_a8",
   "cortex_a9", "cortex_a12", "cortex_a15", "cortex_a17", "cortex_a32",
   "cortex_a35", "cortex_a53", "cortex_a55r0", "cortex_a55", "cortex_a57",
   "cortex_a65", "cortex_a72", "cortex_a73", "cortex_a75", "cortex_a76",
   "cortex_a77", "cortex_a78", "neoverse_n1", "neoverse_v1", "neoverse_n2",
   "cortex_x1", "scorpion", "krait", "kryo", "falkor", "saphira", "denver",
   "denver2", "carmel", "exynos_m1", "exynos_m2", "exynos_m3", "exynos_m4",
   "exynos_m5", "swift", "cyclone", "typhoon", "twister", "hurricane",
   "monsoon", "mistral", "vortex", "tempest", "lightning", "thunder",
   "firestorm", "icestorm", "thunderx", "thunderx2", "pj4", "brahma_b15",
   "brahma_b53", "xgene", "dhyana", "taishan_v110"}

NULL == "null"
vendor_to_string(vendor) == IF vendor \in NamedVendors THEN vendor ELSE NULL
uarch_to_string(uarch)   == IF uarch \in NamedUarchs THEN uarch ELSE NULL

\* print_cpu_info, with what libcpuinfo says if it is built in.  Nobody looks
\* at what cpuinfo_initialize returned: without a core a null pointer is read.
\* A null name is passed to printf, which prints (null) or dies of it.
PrintCpuInfo ==
  /\ pc = "info"
  /\ LET asked == "cpuinfo" \in build.given
         names == {vendor_to_string(core.vendor), uarch_to_string(core.uarch)}
     IN  \/ (asked => core.found) /\ pc' = "bandwidth"
         \/ asked /\ (~core.found \/ NULL \in names) /\ pc' = "crashed"
  /\ UNCHANGED <<given, detected, d, g, b, pinned, measured>>

\* bandwidth(): two buffers and copies to warm up, the Timer started after
\* them, and the copies measured.
WarmCopies ==
  /\ pc = "bandwidth"
  /\ \/ elapsed' = 0 /\ pc' = "copy"
     \/ pc' = "crashed" /\ UNCHANGED elapsed       \* std::bad_alloc
  /\ UNCHANGED <<given, detected, d, g, b, pinned, throughput, spent, figures, printed>>

Copies ==
  /\ pc = "copy"
  /\ \E t \in Durations :
       figures' = [NoFigures EXCEPT !.throughput = elapsed + t, !.spent.throughput = t]
  /\ printed' = Append(printed, "bandwidth")
  /\ elapsed' = 0
  /\ pc' = "group"
  /\ UNCHANGED <<given, detected, d, g, b, pinned, throughput, spent>>

------------------------------------------------------------------------------
\* The groups of this program, each under the tests the code makes.
Groups == GroupsOf[build.arch]

MoreGroups == g \in DOMAIN Groups
HasBench(j) == j \in DOMAIN Groups[g].benches

\* The group is compiled in and measured on this machine.
Enabled(group) ==
  group.built \subseteq build.given /\ \A type \in group.guard : Supported(type)

\* The instructions of a benchmark execute on this machine.
Executes(x) ==
  /\ x.isa \subseteq machine.cpu
  /\ x.regs \in {"ymm", "zmm"} => machine.osxsave
  /\ x.regs # "base" => x.regs \in machine.os

SkipGroup ==
  /\ pc = "group" /\ MoreGroups /\ ~Enabled(Groups[g])
  /\ g' = g + 1
  /\ UNCHANGED <<given, pc, detected, d, b, pinned, measured>>

\* The group begins with the function it runs to warm up.
StartGroup ==
  /\ pc = "group" /\ MoreGroups /\ Enabled(Groups[g])
  /\ b' = 1
  /\ \/ /\ \E j \in DOMAIN Groups[g].warmup : ~Executes(Groups[g].warmup[j])
        /\ pc' = "killed" /\ UNCHANGED g
     \/ /\ \A j \in DOMAIN Groups[g].warmup : Executes(Groups[g].warmup[j])
        /\ IF HasBench(1) THEN pc' = "throughput" /\ UNCHANGED g
           ELSE g' = g + 1 /\ UNCHANGED pc
  /\ elapsed' = 0
  /\ UNCHANGED <<given, detected, d, pinned, throughput, spent, figures, printed>>

bench == Groups[g].benches[b]

\* The throughput function and the first reading of the Timer.
MeasureThroughput ==
  /\ pc = "throughput"
  /\ IF Executes(bench)
     THEN \E t \in Durations :
            /\ throughput' = elapsed + t
            /\ elapsed' = elapsed + t
            /\ spent' = [spent EXCEPT !.throughput = t]
            /\ pc' = "reset"
     ELSE pc' = "killed" /\ UNCHANGED <<throughput, elapsed, spent>>
  /\ UNCHANGED <<given, detected, d, g, b, pinned, figures, printed>>

\* A variant that does not restart the Timer.
StillRunning == elapsed

\* timer.reset()
Restarted == 0

ResetTimer ==
  /\ pc = "reset"
  /\ elapsed' = Restarted
  /\ pc' = "latency"
  /\ UNCHANGED <<given, detected, d, g, b, pinned, throughput, spent, figures, printed>>

\* The latency function, the second reading, and the line printed.  The
\* next benchmark constructs a Timer of its own.
MeasureLatency ==
  /\ pc = "latency"
  /\ \E t \in Durations :
       /\ figures' = [throughput |-> throughput, latency |-> elapsed + t,
                      spent |-> [spent EXCEPT !.latency = t]]
  /\ printed' = Append(printed, bench.name)
  /\ spent' = NoSpent /\ elapsed' = 0 /\ throughput' = 0
  /\ IF HasBench(b + 1) THEN b' = b + 1 /\ pc' = "throughput" /\ UNCHANGED g
     ELSE b' = 1 /\ g' = g + 1 /\ pc' = "group"
  /\ UNCHANGED <<given, detected, d, pinned>>

Finish ==
  /\ pc = "group" /\ ~MoreGroups
  /\ pc' = "done"
  /\ UNCHANGED <<given, detected, d, g, b, pinned, measured>>

Next ==
  \/ Detect
  \/ Pin
  \/ PrintCpuInfo
  \/ WarmCopies
  \/ Copies
  \/ SkipGroup
  \/ StartGroup
  \/ MeasureThroughput
  \/ ResetTimer
  \/ MeasureLatency
  \/ Finish

Spec == Init /\ [][Next]_vars

-------------------------------------------------------------------------------
\* Every line printed gives the time of its own copies or its own two
\* functions: no warm-up, no other benchmark, and not the throughput run in
\* the latency figure.  And a reader can tell whose figure a line is by its
\* name, but for xvfadd.s and xvfadd.d, which are measured twice.
FiguresAreOwn ==
  /\ figures.throughput = figures.spent.throughput
  /\ figures.latency = figures.spent.latency
  /\ pc = "done" =>
       \A i, j \in DOMAIN printed :
         printed[i] = printed[j] => i = j \/ printed[i] \in {"xvfadd.s", "xvfadd.d"}

\* The process dies of an illegal instruction only in these ways.  On x86:
\* xgetbv without OSXSAVE, ZMM registers the system does not enable, AVX512BW
\* instructions on a CPU with AVX512F alone, and AVX or FMA instructions among
\* the SSE benchmarks.  On ARM: what it was built for is not there.  On
\* LoongArch: never.
DiesOnlyHere ==
  pc = "killed" =>
    CASE build.arch = "x86" ->
           \/ ~pinned /\ ~machine.osxsave
           \/ g \in {3, 4, 5} /\ "zmm" \notin machine.os
           \/ g = 3 /\ "avx512bw" \notin machine.cpu
           \/ g = 6 /\ \/ ~({"avx", "fma"} \subseteq machine.cpu)
                       \/ "ymm" \notin machine.os
      [] build.arch \in {"aarch64", "armv7"} ->
           ~(({"neon"} \cup (build.given \cap Features[build.arch])) \subseteq machine.cpu)
      [] OTHER -> FALSE

\* The flag of an instruction set is set only if the operating system enables
\* the registers its instructions use.
DetectedIsEnabled ==
  /\ detected \cap {"AVX", "FMA", "AVX2"} # {} => {"xmm", "ymm"} \subseteq machine.os
  /\ detected \cap {"AVX512", "VNNI"} # {} => {"xmm", "ymm", "zmm"} \subseteq machine.os
===============================================================================
