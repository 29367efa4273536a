------------------------------ MODULE OpenCLSession ---------------------------
(***************************************************************************)
(* One run of the OpenCL backend after the device is chosen: the six       *)
(* runners of OpenCLEnv::run in their order (src/opencl/common.cpp), each  *)
(* with its buffers, its program and its kernels of growing vector width.  *)
(* Every checked OpenCL call may fail, and a conforming driver refuses an  *)
(* empty or too large buffer, an empty launch, and a kernel argument of    *)
(* another size than the kernel declares; each of these ends the process.  *)
(* A launch stands for a whole run_kernel (module RunKernel): it returns   *)
(* or ends the process.                                                    *)
(***************************************************************************)
EXTENDS Geometry, Sequences, FiniteSets

CONSTANTS
  Builds,        \* "arm" (aarch64, armv7) or "other": which a is compiled in
  Devices,       \* device records: item, vendor, cus, alloc, half, double
  KernelLimits   \* what CL_KERNEL_WORK_GROUP_SIZE can be

ASSUME SessionAssumption ==
  /\ Builds \subseteq {"arm", "other"}
  /\ KernelLimits \subseteq Nat \ {0}
  /\ Devices \subseteq [item : Nat, vendor : {"qualcomm", "nvidia", "other"},
                        cus : Nat, alloc : Nat, half : BOOLEAN,
                        double : BOOLEAN]

Runners == <<"local", "global", "int", "float", "half", "double">>

\* The vector widths a runner measures, in order.
Widths(x) ==
  IF x = "local" THEN <<1, 2, 4>> ELSE <<1, 2, 4, 8, 16>>

\* The kernels of one width: global addressing is measured in two ways.
Kernels(x) ==
  IF x = "global" THEN <<"global_offset", "local_offset">> ELSE <<"kernel">>

ElemSize(x) ==
  CASE x = "half" -> 2 [] x = "double" -> 8 [] OTHER -> 4

\* The buffers a runner creates.
Buffers(x) ==
  CASE x = "local"  -> {"src"}
    [] x = "global" -> {"src", "dst"}
    [] OTHER             -> {"dst"}

\* Whether the device has the types of the runner.
Supported(x, d) ==
  CASE x = "half"   -> d.half
    [] x = "double" -> d.double
    [] OTHER             -> TRUE

\* A variant with the ARM declaration of a in every build.
AlwaysFloat(x, b) == 4

\* The bytes of the variable a that a compute runner passes: T, except that
\* every type passes a float in the ARM builds.
PassedSize(x, b) == IF b = "arm" THEN 4 ELSE ElemSize(x)

\* The bytes of the scalar parameter in the compute kernels: the type of the
\* kernel, except that the half kernels take a float.
DeclaredSize(x) == IF x = "half" THEN 4 ELSE ElemSize(x)

Compute(x) == x \in {"int", "float", "half", "double"}

VARIABLES
  build, dev,   \* the compiled variant and the device, fixed
  pc,           \* the next call of the runner
  r, w, k,      \* positions in Runners, Widths and Kernels
  elems,        \* nr_elems or global_size of the runner
  block,        \* block_size of the runner
  buffers,      \* device buffers alive: <<runner, name>>
  program,      \* the runner's program is alive
  kernels,      \* kernels alive: name |-> its work group limit
  localArg,     \* bytes of local memory set as argument
  launch,       \* the launch being made or made last
  reports,      \* the lines printed: <<runner, width>>
  why           \* what ended the process early

vars == <<build, dev, pc, r, w, k, elems, block, buffers, program, kernels,
          localArg, launch, reports, why>>

runner == Runners[r]
width  == Widths(runner)[w]
NoLaunch == [local |-> 0]
NoKernels == [x \in {} |-> 0]

\* Before the first runner, whatever the device.
Fresh ==
  /\ pc = "runner" /\ r = 1 /\ w = 1 /\ k = 1
  /\ elems = 0 /\ block = 1
  /\ buffers = {} /\ program = FALSE /\ kernels = NoKernels
  /\ localArg = 0 /\ launch = NoLaunch
  /\ reports = <<>> /\ why = "running"

Init == build \in Builds /\ dev \in Devices /\ Fresh

\* The elements of the buffers of a runner.
Elems(x) ==
  CASE x = "local"  -> {LOCAL_ELEMS}
    [] x = "global" -> GlobalElems(dev.alloc)
    [] OTHER -> CompElems(dev.cus, MaxWgSize(dev.item, dev.vendor),
                          ElemSize(x), dev.alloc)

\* Whether the runner returns at once.
Skipped(x) == ~Supported(x, dev)

\* A runner that the device does not support returns at once ...
SkipRunner ==
  /\ pc = "runner" /\ Skipped(runner)
  /\ IF r < Len(Runners) THEN r' = r + 1 /\ UNCHANGED <<pc, why>>
     ELSE pc' = "done" /\ why' = "finished" /\ UNCHANGED r
  /\ UNCHANGED <<build, dev, w, k, elems, block, buffers, program, kernels,
                 localArg, launch, reports>>

\* ... any other computes its sizes.
StartRunner ==
  /\ pc = "runner" /\ ~Skipped(runner)
  /\ elems' \in Elems(runner)
  /\ block' = MaxWgSize(dev.item, dev.vendor)
  /\ w' = 1 /\ k' = 1
  /\ pc' = "buffers"
  /\ UNCHANGED <<build, dev, r, buffers, program, kernels, localArg, launch,
                 reports, why>>

BufferLegal == elems > 0 /\ elems * ElemSize(runner) <= dev.alloc

\* clCreateBuffer for the buffers of the runner, and the upload of src.
CreateBuffers ==
  /\ pc = "buffers" /\ BufferLegal
  /\ buffers' = buffers \cup ({runner} \X Buffers(runner))
  /\ pc' = "build"
  /\ UNCHANGED <<build, dev, r, w, k, elems, block, program, kernels, localArg,
                 launch, reports, why>>

\* clCreateBuffer refuses the size.
BufferRefused ==
  /\ pc = "buffers" /\ ~BufferLegal
  /\ pc' = "exited" /\ why' = "buffer size"
  /\ UNCHANGED <<build, dev, r, w, k, elems, block, buffers, program, kernels,
                 localArg, launch, reports>>

BuildProgram ==
  /\ pc = "build"
  /\ program' = TRUE
  /\ pc' = "kernel"
  /\ UNCHANGED <<build, dev, r, w, k, elems, block, buffers, kernels, localArg,
                 launch, reports, why>>

\* A variant that takes the limit of the last kernel alone.
LastLimit(limit) == limit

\* block_size after the limit of one more kernel is known.
Shrunk(limit) == Smaller(block, limit)

\* A variant that sizes the local memory before the block size shrinks.
StaleLocalBytes(b) == block * width * 4 * LOCAL_SLOTS

\* The size of the local memory argument: one cl_int vector per slot.
LocalBytes(b) == b * width * 4 * LOCAL_SLOTS

\* A kernel is created, its work group limit queried, and its arguments set.
CreateKernel ==
  /\ pc = "kernel"
  /\ \E limit \in KernelLimits :
       /\ block' = Shrunk(limit)
       /\ kernels' = [x \in DOMAIN kernels \cup {Kernels(runner)[k]} |->
                        IF x = Kernels(runner)[k] THEN limit ELSE kernels[x]]
  /\ localArg' = IF runner = "local" THEN LocalBytes(block') ELSE 0
  /\ IF Compute(runner) /\ PassedSize(runner, build) # DeclaredSize(runner)
     THEN /\ pc' = "exited" /\ why' = "argument size"
          /\ UNCHANGED k
     ELSE /\ IF k < Len(Kernels(runner)) THEN k' = k + 1 /\ pc' = "kernel"
             ELSE k' = 1 /\ pc' = "launch"
          /\ UNCHANGED why
  /\ UNCHANGED <<build, dev, r, w, elems, buffers, program, launch, reports>>

\* A variant that launches one item per element of the buffer.
ItemPerElement == elems

\* The work items run_step asks for.
Items ==
  CASE runner = "local"  -> elems \div width
    [] runner = "global" -> (elems \div width) \div FETCH_PER_WI
    [] OTHER             -> elems

\* The work items run_kernel launches of those.
Launched(g, l) == DivDown(g, l)

\* run_kernel for one kernel of the width: it returns, the report of the
\* runner is printed after the last kernel, and the kernels are released.
Launch ==
  /\ pc = "launch" /\ Launched(Items, block) > 0
  /\ launch' = [local |-> block, items |-> Items,
                global |-> Launched(Items, block),
                limit |-> kernels[Kernels(runner)[k]],
                runner |-> runner, width |-> width, elems |-> elems,
                localArg |-> localArg]
  /\ IF k < Len(Kernels(runner))
     THEN /\ k' = k + 1
          /\ UNCHANGED <<pc, kernels, reports>>
     ELSE /\ k' = 1
          /\ pc' = "next"
          /\ kernels' = NoKernels
          /\ reports' = Append(reports, <<runner, width>>)
  /\ UNCHANGED <<build, dev, r, w, elems, block, buffers, program, localArg,
                 why>>

\* clEnqueueNDRangeKernel refuses a launch of no work items.
LaunchRefused ==
  /\ pc = "launch" /\ Launched(Items, block) = 0
  /\ pc' = "exited" /\ why' = "empty launch"
  /\ UNCHANGED <<build, dev, r, w, k, elems, block, buffers, program, kernels,
                 localArg, launch, reports>>

\* The runner has a wider kernel to measure.
MoreWidths == w < Len(Widths(runner))

\* The next width of the runner.
NextWidth ==
  /\ pc = "next" /\ MoreWidths
  /\ w' = w + 1
  /\ pc' = "kernel"
  /\ UNCHANGED <<build, dev, r, k, elems, block, buffers, program, kernels,
                 localArg, launch, reports, why>>

\* A variant that forgets clReleaseProgram.
ProgramKept == program

\* clReleaseProgram at the end of the runner.
ProgramAfterRunner == FALSE

\* The runner is through: its program is released, its buffers are not.
FinishRunner ==
  /\ pc = "next" /\ ~MoreWidths
  /\ program' = ProgramAfterRunner
  /\ IF r < Len(Runners) THEN r' = r + 1 /\ pc' = "runner" /\ UNCHANGED why
     ELSE pc' = "done" /\ why' = "finished" /\ UNCHANGED r
  /\ UNCHANGED <<build, dev, w, k, elems, block, buffers, kernels, localArg,
                 launch, reports>>

\* Any of the checked calls fails for a reason of its own.
ApiFails ==
  /\ pc \in {"buffers", "build", "kernel", "launch"}
  /\ pc' = "exited" /\ why' = "api"
  /\ UNCHANGED <<build, dev, r, w, k, elems, block, buffers, program, kernels,
                 localArg, launch, reports>>

Next ==
  \/ SkipRunner
  \/ StartRunner
  \/ CreateBuffers
  \/ BufferRefused
  \/ BuildProgram
  \/ CreateKernel
  \/ Launch
  \/ LaunchRefused
  \/ NextWidth
  \/ FinishRunner
  \/ ApiFails

Spec == Init /\ [][Next]_vars

-------------------------------------------------------------------------------

Dead == {"done", "exited"}

\* A launch never asks for a larger group than its own kernel or the device
\* class allows, although one block size is carried over all the kernels of
\* a runner, and it launches whole groups, at least one.
LaunchLegal ==
  launch # NoLaunch =>
    /\ launch.local <= launch.limit
    /\ launch.local <= MaxWgSize(dev.item, dev.vendor)
    /\ launch.global > 0 /\ launch.global % launch.local = 0

\* No launch touches an element past the end of a buffer: a work item of the
\* global runner loads FETCH_PER_WI vectors of src and stores one element of
\* dst, and one of the local runner stores an element of src.  Every work
\* item of a compute runner stores the first element of dst.
TouchesInBounds ==
  launch # NoLaunch =>
    CASE launch.runner = "global" ->
           launch.global * FETCH_PER_WI * launch.width <= launch.elems
      [] launch.runner = "local" -> launch.global <= launch.elems
      [] OTHER -> launch.elems > 0

\* The local memory set as argument is what the launched group needs: six
\* vectors per work item, for the group size launched, not an earlier one.
LocalMemoryMatches ==
  launch # NoLaunch /\ launch.runner = "local" =>
    launch.localArg = launch.local * LOCAL_SLOTS * launch.width * 4

\* The lines a runner prints, one for each width ...
Lines(x, d) ==
  IF Supported(x, d) THEN [j \in 1 .. Len(Widths(x)) |-> <<x, Widths(x)[j]>>]
  ELSE <<>>

\* ... and those of a complete session on a device.
Expected(d) ==
  Lines("local", d) \o Lines("global", d) \o Lines("int", d)
    \o Lines("float", d) \o Lines("half", d) \o Lines("double", d)

\* Between runners no kernel and no program is left, and the buffers alive
\* are exactly those of the runners so far: they are never released.
OnlyBuffersKept ==
  pc \in {"runner", "done"} =>
    /\ ~program /\ DOMAIN kernels = {}
    /\ buffers = UNION {{Runners[n]} \X Buffers(Runners[n]) :
                          n \in {m \in 1 .. r : /\ Supported(Runners[m], dev)
                                                /\ (m < r \/ pc = "done")}}

\* A refused argument size is confined to the half runner of the builds that
\* are not ARM and the double runner of the ARM builds.
ArgumentSizeConfined ==
  why = "argument size" =>
    \/ build = "other" /\ runner = "half"
    \/ build = "arm" /\ runner = "double"

\* No session ends because the driver refused the size of an argument: the
\* type of a is chosen so that it does not.
ArgumentSizesAccepted == why # "argument size"
===============================================================================
