------------------------------- MODULE OpenCLEnv -----------------------------
(***************************************************************************)
(* OpenCLBackend::execute: the constructor of OpenCLEnv finds a device and *)
(* makes a context and a queue, the six runners of OpenCLSession run on    *)
(* them, and the destructor lets them go.  Every checked call may fail and *)
(* ends the process by exit(1), which runs no destructor of a local        *)
(* object.                                                                 *)
(*                                                                         *)
(* A machine is a sequence of platforms [gpus, strict].  A strict platform *)
(* answers a query for GPUs it does not have with CL_DEVICE_NOT_FOUND, as  *)
(* OpenCL has it; one that is not strict reports none of them.             *)
(***************************************************************************)
EXTENDS OpenCLSession

CONSTANTS
  Machines,    \* the sequences of platforms
  Missing,     \* sets of functions that the OpenCL library may not export
  MaxProps     \* 32, the length of context_properties

\* What a GPU reports of itself.
Gpus == [item : Nat, vendor : {"qualcomm", "nvidia", "other"}, cus : Nat,
         alloc : Nat, exts : SUBSET STRING]

ASSUME MachinesAssumption ==
  /\ Machines \subseteq Seq([gpus : Seq(Gpus), strict : BOOLEAN])
  /\ MaxProps \in Nat /\ MaxProps >= 7

VARIABLES
  stage,       \* the next call outside the runners
  machine,     \* the platforms; forgotten once the device is chosen
  missing,     \* functions the library lacks
  devIdx,      \* dev_idx, the constructor's argument
  platform,    \* position of the platform being looked at, then m_platform
  deviceIds,   \* device_ids: the GPUs of that platform, once listed
  props,       \* context_properties
  ctx, queue,  \* m_ctx and m_queue
  exitStatus   \* of the process; "running" before its end

envVars == <<stage, machine, missing, devIdx, platform, deviceIds, props, ctx,
             queue, exitStatus>>
allVars == <<envVars, vars>>

NoDevice == [item |-> 0, vendor |-> "other", cus |-> 0, alloc |-> 0,
             half |-> FALSE, double |-> FALSE]

\* The state in which the program starts, before main has read its options.
EnvInit ==
  /\ Fresh /\ build \in Builds /\ dev = NoDevice
  /\ stage = "options"
  /\ machine \in Machines /\ missing \in Missing
  /\ devIdx = 0
  /\ platform = 0 /\ deviceIds = <<>> /\ props = <<>>
  /\ ctx = "none" /\ queue = "none"
  /\ exitStatus = "running"

\* A failed opencl_check or megpeak_assert: exit(1), for a reason of its own.
Exits(reason) ==
  /\ stage' = "ended" /\ exitStatus' = "1" /\ why' = reason
  /\ UNCHANGED <<machine, missing, devIdx, platform, deviceIds, props, ctx,
                 queue, build, dev, pc, r, w, k, elems, block, buffers, program,
                 kernels, localArg, launch, reports>>

\* clGetPlatformIDs, for the number and for the list.
GetPlatforms ==
  /\ stage = "platforms" /\ machine # <<>>
  /\ stage' = "count" /\ platform' = 1
  /\ UNCHANGED <<machine, missing, devIdx, deviceIds, props, ctx, queue,
                 exitStatus, vars>>

\* ... there is none.
NoPlatform ==
  stage = "platforms" /\ machine = <<>> /\ Exits("no platform")

AtPlatform == machine[platform]

\* clGetDeviceIDs for the number of GPUs of the next platform.
CountGpus ==
  /\ stage = "count" /\ AtPlatform.gpus # <<>>
  /\ stage' = "list"
  /\ UNCHANGED <<machine, missing, devIdx, platform, deviceIds, props, ctx,
                 queue, exitStatus, vars>>

\* The platform reports that it has none, and the loop goes on.
NoGpusReported ==
  /\ stage = "count" /\ AtPlatform.gpus = <<>> /\ ~AtPlatform.strict
  /\ IF platform < Len(machine)
     THEN platform' = platform + 1 /\ UNCHANGED stage
     ELSE stage' = "choose" /\ UNCHANGED platform
  /\ UNCHANGED <<machine, missing, devIdx, deviceIds, props, ctx, queue,
                 exitStatus, vars>>

\* CL_DEVICE_NOT_FOUND is an error like any other for opencl_check.
GpuNotFound ==
  stage = "count" /\ AtPlatform.gpus = <<>> /\ AtPlatform.strict /\ Exits("no gpu")

\* A variant that does not leave the loop at the first platform with a GPU.
LoopGoesOn == IF platform < Len(machine) THEN "count" ELSE "choose"

\* The loop ends with the first platform that has a GPU.
AfterList == "choose"

\* clGetDeviceIDs for the list.
ListGpus ==
  /\ stage = "list"
  /\ deviceIds' = AtPlatform.gpus
  /\ stage' = AfterList
  /\ platform' = IF AfterList = "count" THEN platform + 1 ELSE platform
  /\ UNCHANGED <<machine, missing, devIdx, props, ctx, queue, exitStatus, vars>>

\* A variant that numbers the devices from 1.
IdFromOne == devIdx = 0 \/ devIdx > Len(deviceIds)

IdInvalid == devIdx >= Len(deviceIds)

BadDeviceId ==
  stage = "choose" /\ IdInvalid /\ Exits("device id")

\* The properties of the context: the platform, two hints where the device
\* has cl_qcom_perf_hint, and the 0 that ends the list.
ContextProps(d, p) ==
  IF "cl_qcom_perf_hint" \in d.exts
  THEN <<"CL_CONTEXT_PLATFORM", p,
         "CL_CONTEXT_PERF_HINT_QCOM", "CL_PERF_HINT_HIGH_QCOM",
         "CL_CONTEXT_PRIORITY_HINT_QCOM", "CL_PRIORITY_HINT_HIGH_QCOM", 0>>
  ELSE <<"CL_CONTEXT_PLATFORM", p, 0>>

Chosen == deviceIds[devIdx + 1]

\* m_dev_id and the properties, after a query for the extensions.
ChooseDevice ==
  /\ stage = "choose" /\ ~IdInvalid
  /\ props' = ContextProps(Chosen, platform)
  /\ stage' = "context"
  /\ UNCHANGED <<machine, missing, devIdx, platform, deviceIds, ctx, queue,
                 exitStatus, vars>>

\* What a call that makes a handle leaves in the handle and in err_num: a
\* function the library lacks is answered by an error stub, which returns a
\* null handle and leaves err_num as it was, so that an uninitialised err_num
\* is tested; a null argument is refused.
Made(function, argument, before) ==
  CASE function \in missing /\ before = "unset" ->
         {<<"null", "success">>, <<"null", "error">>}
    [] function \in missing /\ before # "unset" -> {<<"null", before>>}
    [] function \notin missing /\ argument = "null" -> {<<"null", "error">>}
    [] OTHER -> {<<"live", "success">>, <<"null", "error">>}

\* A variant without opencl_check(err_num).
Unchecked(code) == TRUE

Passes(code) == code = "success"

CreateContext ==
  /\ stage = "context"
  /\ \E made \in Made("clCreateContext", "live", "unset") :
       \/ /\ Passes(made[2])
          /\ ctx' = made[1] /\ stage' = "queue"
          /\ UNCHANGED <<machine, missing, devIdx, platform, deviceIds, props,
                         queue, exitStatus, vars>>
       \/ ~Passes(made[2]) /\ Exits("api")

ErrNum == IF "clCreateContext" \in missing THEN "unset" ELSE "success"

CreateQueue ==
  /\ stage = "queue"
  /\ \E made \in Made("clCreateCommandQueue", ctx, ErrNum) :
       \/ /\ Passes(made[2])
          /\ queue' = made[1] /\ stage' = "info"
          /\ UNCHANGED <<machine, missing, devIdx, platform, deviceIds, props,
                         ctx, exitStatus, vars>>
       \/ ~Passes(made[2]) /\ Exits("api")

DoubleSupported(d) == d.exts \cap {"cl_khr_fp64", "cl_amd_fp64"} # {}

\* m_dev_info: what the runners know of the device.
DevInfo(d) ==
  [item |-> d.item, vendor |-> d.vendor, cus |-> d.cus, alloc |-> d.alloc,
   half |-> "cl_khr_fp16" \in d.exts, double |-> DoubleSupported(d)]

\* The device info is read and printed, the constructor ends, and its locals
\* and the search are gone.
ReadDeviceInfo ==
  /\ stage = "info"
  /\ dev' = DevInfo(Chosen)
  /\ stage' = "run"
  /\ machine' = <<>> /\ platform' = 0 /\ deviceIds' = <<>> /\ props' = <<>>
  /\ devIdx' = 0
  /\ UNCHANGED <<missing, ctx, queue, exitStatus, build, pc, r, w, k, elems,
                 block, buffers, program, kernels, localArg, launch, reports, why>>

\* Any of the checked calls of the constructor fails for a reason of its own.
EnvApiFails ==
  stage \in {"platforms", "count", "list", "choose", "info"} /\ Exits("api")

\* A context without which no buffer is made.
NoContext == pc = "buffers" /\ ctx # "live"

\* Without a queue the upload of the first runner is refused.
NoQueue == pc = "build" /\ queue # "live"

\* A runner makes its next call ...
RunStep ==
  /\ stage = "run"
  /\ ~NoContext /\ ~NoQueue
  /\ Next
  /\ UNCHANGED envVars

\* ... which is refused for want of a context or a queue.
HandleRefused ==
  stage = "run" /\ (NoContext \/ NoQueue) /\ Exits("handle")

\* A runner has called exit(1).
RunnerExited ==
  /\ stage = "run" /\ pc = "exited"
  /\ stage' = "ended" /\ exitStatus' = "1"
  /\ UNCHANGED <<machine, missing, devIdx, platform, deviceIds, props, ctx,
                 queue, vars>>

\* A variant that lets go of the context only.
QueueKept == queue

QueueAfterDestructor == "released"

\* The destructor; the results of the three releases are ignored.
Destroy ==
  /\ stage = "run" /\ pc = "done"
  /\ queue' = QueueAfterDestructor /\ ctx' = "released"
  /\ stage' = "ended" /\ exitStatus' = "0"
  /\ UNCHANGED <<machine, missing, devIdx, platform, deviceIds, props, vars>>

Construct ==
  \/ GetPlatforms
  \/ NoPlatform
  \/ CountGpus
  \/ NoGpusReported
  \/ GpuNotFound
  \/ ListGpus
  \/ BadDeviceId
  \/ ChooseDevice
  \/ CreateContext
  \/ CreateQueue
  \/ ReadDeviceInfo
  \/ EnvApiFails

EnvNext ==
  \/ Construct
  \/ RunStep
  \/ HandleRefused
  \/ RunnerExited
  \/ Destroy
===============================================================================
