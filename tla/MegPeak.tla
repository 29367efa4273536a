-------------------------------- MODULE MegPeak ------------------------------
(***************************************************************************)
(* The program: main reads its options one by one, the last of each kind   *)
(* counts, and hands over to the CPU backend (module CpuBackend) or to the *)
(* OpenCL backend (module OpenCLEnv).                                      *)
(***************************************************************************)
EXTENDS OpenCLEnv

CONSTANTS
  CommandLines,   \* sequences of options <<letter, argument>>
  SIZES,          \* values of size_t, 2^32 or 2^64
  INTS            \* 2^31, half the values of int

\* An option and its argument.
Options == ({"d", "h"} \X STRING) \cup ({"i"} \X Int)

ASSUME CommandLinesAssumption ==
  SIZES \in Nat \ {0} /\ CommandLines \subseteq Seq(Options)
\* atoi returns an int, and no platform has more GPUs than that.
ASSUME RangeAssumption ==
  /\ INTS \in Nat \ {0} /\ SIZES >= 2 * INTS
  /\ \A c \in CommandLines : \A j \in DOMAIN c :
       c[j][1] = "i" => c[j][2] \in -INTS .. INTS - 1
  /\ \A m \in Machines : \A p \in DOMAIN m : Len(m[p].gpus) <= INTS

VARIABLES
  argv, optind,  \* the command line, and the option to be read next
  device,        \* the backend asked for so far
  withOpenCL     \* MEGPEAK_WITH_OPENCL was defined

mainVars == <<argv, optind, device, withOpenCL>>
progVars == <<mainVars, allVars>>

ProgInit ==
  /\ EnvInit
  /\ argv \in CommandLines /\ optind = 1
  /\ device = "cpu" /\ withOpenCL \in BOOLEAN

MoreOptions == stage = "options" /\ optind <= Len(argv)
OptionsRead == stage = "options" /\ optind > Len(argv)

\* std::atoi into a size_t: a negative number becomes a huge one.
DevId(arg) == arg % SIZES

\* getopt_long returns -d or -i with its argument.
ReadOption ==
  /\ MoreOptions /\ argv[optind][1] # "h"
  /\ optind' = optind + 1
  /\ IF argv[optind][1] = "d"
     THEN device' = argv[optind][2] /\ UNCHANGED devIdx
     ELSE devIdx' = DevId(argv[optind][2]) /\ UNCHANGED device
  /\ UNCHANGED <<argv, withOpenCL, stage, machine, missing, platform, deviceIds,
                 props, ctx, queue, exitStatus, vars>>

\* main is done with the options, for another stage or for good.
Leaves(next, status, reason) ==
  /\ stage' = next /\ exitStatus' = status /\ why' = reason
  /\ UNCHANGED <<mainVars, machine, missing, devIdx, platform, deviceIds, props,
                 ctx, queue, build, dev, pc, r, w, k, elems, block, buffers,
                 program, kernels, localArg, launch, reports>>

\* -h, -? and whatever getopt_long does not know: usage() and exit(-1).
UsageAsked ==
  MoreOptions /\ argv[optind][1] = "h" /\ Leaves("ended", "255", "usage")

StartCpu ==
  OptionsRead /\ device = "cpu" /\ Leaves("cpu", "running", why)

StartOpenCL ==
  /\ OptionsRead /\ device = "opencl" /\ withOpenCL
  /\ Leaves("platforms", "running", why)

\* The backend is not compiled in, or there is no such device.
InvalidDevice ==
  /\ OptionsRead
  /\ \/ device = "opencl" /\ ~withOpenCL
     \/ device \notin {"cpu", "opencl"}
  /\ Leaves("ended", "1", "no backend")

Main ==
  \/ ReadOption
  \/ UsageAsked
  \/ StartCpu
  \/ StartOpenCL
  \/ InvalidDevice

\* The backend runs; the command line is kept until the device is chosen.
Backend ==
  /\ EnvNext
  /\ argv' = IF stage' = "run" THEN <<>> ELSE argv
  /\ optind' = IF stage' = "run" THEN 1 ELSE optind
  /\ UNCHANGED <<device, withOpenCL>>

ProgNext == Main \/ Backend

ProgSpec == ProgInit /\ [][ProgNext]_progVars

-------------------------------------------------------------------------------

\* The argument of the last option of a kind, or what holds without one.
Asked(letter, without) ==
  LET given == {j \in DOMAIN argv : argv[j][1] = letter}
  IN  IF given = {} THEN without
      ELSE argv[CHOOSE j \in given : \A i \in given : i <= j][2]

\* The platforms with a GPU, and the first of them.
WithGpu == {p \in DOMAIN machine : machine[p].gpus # <<>>}
FirstWithGpu == CHOOSE p \in WithGpu : \A q \in WithGpu : p <= q

\* The device chosen is the one the last -i asks for, counted from 0 on the
\* first platform that has a GPU, and the context is made on that same
\* platform, by a list of properties that stays within the array, has no hint
\* without its extension, and ends with 0: the list of devices and the platform
\* are never of two platforms.
ChoosesAskedGpu ==
  [][stage = "choose" /\ stage' = "context" =>
       /\ Asked("d", "cpu") = "opencl"
       /\ WithGpu # {}
       /\ Chosen = machine[FirstWithGpu].gpus[Asked("i", 0) + 1]
       /\ props'[2] = FirstWithGpu /\ props'[Len(props')] = 0
       /\ Len(props') <= MaxProps
       /\ Len(props') > 3 <=> "cl_qcom_perf_hint" \in Chosen.exts]_progVars

\* A device that exists is refused only because a platform before it says, as
\* OpenCL has it, that it has no GPU: the test that would go on to the next
\* platform (common.cpp:450) is not reached.
RefusesOnlyHere ==
  /\ why = "no gpu" =>
       /\ machine[platform].strict
       /\ \A q \in 1 .. platform : machine[q].gpus = <<>>
  /\ why = "device id" =>
       IF WithGpu = {} THEN \A q \in DOMAIN machine : ~machine[q].strict
       ELSE Asked("i", 0) \notin 0 .. Len(machine[FirstWithGpu].gpus) - 1

\* The runners start on a context and a queue, except where the library lacks
\* the function that makes them and the error code was never written; and no
\* kernel is launched even then.
RunsOnLiveHandles ==
  /\ stage = "run" =>
       /\ ctx = "live" \/ "clCreateContext" \in missing
       /\ queue = "live" \/ "clCreateCommandQueue" \in missing
  /\ launch # NoLaunch => ctx \in {"live", "released"} /\ queue \in {"live", "released"}

\* The process ends with status 0 only after the complete report of the device
\* and with its context and queue released; ended early, it releases neither
\* and has printed a part of that report from its beginning, no runner skipped,
\* repeated or in another's place.
ZeroMeansComplete ==
  exitStatus # "running" =>
    IF exitStatus = "0"
    THEN reports = Expected(dev) /\ ctx = "released" /\ queue = "released"
    ELSE /\ ctx # "released" /\ queue # "released" /\ why # "finished"
         /\ reports # <<>> =>
              \E n \in 1 .. Len(Expected(dev)) : reports = SubSeq(Expected(dev), 1, n)
===============================================================================
