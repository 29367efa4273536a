------------------------------- MODULE RunKernel ------------------------------
(***************************************************************************)
(* Runner::run_kernel (src/opencl/common.cpp) and the device behind it.    *)
(*                                                                         *)
(* The host enqueues one warm-up launch and drains the queue, then ITERS   *)
(* times enqueues a launch with an event, waits for the event and adds the *)
(* difference of its START and END profiling counters.  The queue is the   *)
(* in-order queue made by OpenCLEnv; the device takes commands from it at  *)
(* its own pace and stamps them with its own clock.  Any checked OpenCL    *)
(* call may fail, which ends the process (opencl_check); the result of     *)
(* clFinish is not looked at.                                              *)
(***************************************************************************)
EXTENDS Integers, Sequences

CONSTANTS
  ITERS,        \* the iters parameter: measured launches per call
  MinTime,      \* the shortest and
  MaxTime,      \* the longest execution of a measured launch
  ColdTimes,    \* the times a warm-up launch may take
  MaxOverhead,  \* bound of the device's idle time before a launch starts
  MaxCalls      \* bound on the calls of run_kernel

ASSUME ITERSAssumption == ITERS \in Nat \ {0}
ASSUME TimesAssumption ==
  /\ MinTime \in Nat /\ MaxTime \in Nat /\ MinTime <= MaxTime
  /\ ColdTimes \subseteq Nat /\ ColdTimes # {}
ASSUME BoundsAssumption == MaxOverhead \in Nat /\ MaxCalls \in Nat

VARIABLES
  pc,        \* the next statement of the host
  i,         \* loop counter
  used,      \* the sum of the samples so far
  start,     \* the local variable start
  result,    \* what the last call returned, times ITERS
  calls,     \* finished calls
  live,      \* events created and not released
  queue,     \* the command queue, head first: "warmup" or "measured"
  running,   \* the device executes the head of the queue
  began,     \* the clock when it started the head
  clock,     \* the device's clock
  status,    \* of the event in ev: "none", "submitted", "complete", "error"
  prof,      \* its profiling counters
  busy       \* device time of this call's measured launches (history)

host   == <<pc, i, used, start, result, calls, live>>
device == <<queue, running, began, clock, status, prof, busy>>
vars   == <<host, device>>

Init ==
  /\ pc = "idle"
  /\ i = 0 /\ used = 0 /\ start = 0 /\ result = 0 /\ calls = 0 /\ live = 0
  /\ queue = <<>> /\ running = FALSE /\ began = 0 /\ clock = 0
  /\ status = "none" /\ prof = [start |-> 0, end |-> 0] /\ busy = 0

-------------------------------------------------------------------------------
(* The host.                                                               *)

\* run_kernel is called; used and the loop counter are fresh locals.
Begin ==
  /\ pc = "idle"
  /\ calls < MaxCalls
  /\ pc' = "warmup"
  /\ i' = 0
  /\ used' = 0
  /\ busy' = 0
  /\ UNCHANGED <<start, result, calls, live, queue, running, began, clock,
                 status, prof>>

\* The launch without an event.
EnqueueWarmup ==
  /\ pc = "warmup"
  /\ queue' = Append(queue, "warmup")
  /\ pc' = "finish"
  /\ UNCHANGED <<i, used, start, result, calls, live, running, began, clock,
                 status, prof, busy>>

\* clFinish returns when the queue is drained ...
Finish ==
  /\ pc = "finish"
  /\ queue = <<>>
  /\ pc' = "enqueue"
  /\ UNCHANGED <<i, used, start, result, calls, live, device>>

\* ... or fails at once, and nobody notices.
FinishFails ==
  /\ pc = "finish"
  /\ pc' = "enqueue"
  /\ UNCHANGED <<i, used, start, result, calls, live, device>>

\* A launch that is measured: it creates an event.
EnqueueMeasured ==
  /\ pc = "enqueue"
  /\ queue' = Append(queue, "measured")
  /\ status' = "submitted"
  /\ live' = live + 1
  /\ pc' = "wait"
  /\ UNCHANGED <<i, used, start, result, calls, running, began, clock, prof,
                 busy>>

\* A variant without clWaitForEvents.
NoWait ==
  /\ pc = "wait"
  /\ pc' = "start"
  /\ UNCHANGED <<i, used, start, result, calls, live, device>>

\* clWaitForEvents succeeds.
Wait ==
  /\ pc = "wait"
  /\ status = "complete"
  /\ pc' = "start"
  /\ UNCHANGED <<i, used, start, result, calls, live, device>>

\* A variant that polls for completion and never looks for an error.
IgnoreAbort == FALSE /\ UNCHANGED vars

\* clWaitForEvents reports that the command was aborted: exit(1).
WaitFails ==
  /\ pc = "wait"
  /\ status = "error"
  /\ pc' = "exited"
  /\ UNCHANGED <<i, used, start, result, calls, live, device>>

GetStart ==
  /\ pc = "start"
  /\ start' = prof.start
  /\ pc' = "end"
  /\ UNCHANGED <<i, used, result, calls, live, device>>

\* A variant with = in place of +=.
LastSample(s, e) == e - s

\* used += end - start.
Sample(s, e) == used + (e - s)

\* The loop test for index n.
MoreIterations(n) == n < ITERS

\* The END counter is read, the sample added, and the loop test made.
GetEnd ==
  /\ pc = "end"
  /\ used' = Sample(start, prof.end)
  /\ i' = i + 1
  /\ pc' = IF MoreIterations(i + 1) THEN "enqueue" ELSE "release"
  /\ UNCHANGED <<start, result, calls, live, device>>

\* A variant that forgets clReleaseEvent.
KeepEvents == live

\* clReleaseEvent(ev): the event of the last iteration only.
EventsAfterRelease == live - 1

\* The event in ev is released and the sum returned.
ReleaseEvent ==
  /\ pc = "release"
  /\ live' = EventsAfterRelease
  /\ result' = used
  /\ calls' = calls + 1
  /\ pc' = "idle"
  /\ UNCHANGED <<i, used, start, device>>

\* Any call under opencl_check may fail: exit(1).
ApiFails ==
  /\ pc \in {"warmup", "enqueue", "wait", "start", "end", "release"}
  /\ pc' = "exited"
  /\ UNCHANGED <<i, used, start, result, calls, live, device>>

-------------------------------------------------------------------------------
(* The device, as long as the process lives.                               *)

\* The head of the queue starts after some overhead.
DeviceStart ==
  /\ pc # "exited"
  /\ queue # <<>>
  /\ ~running
  /\ running' = TRUE
  /\ \E o \in 0 .. MaxOverhead : began' = clock + o
  /\ clock' = began'
  /\ UNCHANGED <<host, queue, status, prof, busy>>

\* It ends: the next command may start, and the event gets its counters.
DeviceEnd ==
  /\ pc # "exited"
  /\ running
  /\ running' = FALSE
  /\ queue' = Tail(queue)
  /\ IF Head(queue) = "measured"
     THEN \E d \in MinTime .. MaxTime :
            /\ clock' = began + d
            /\ status' = "complete"
            /\ prof' = [start |-> began, end |-> began + d]
            /\ busy' = busy + d
     ELSE /\ \E d \in ColdTimes : clock' = began + d
          /\ UNCHANGED <<status, prof, busy>>
  /\ UNCHANGED <<host, began>>

\* It is aborted: the event, if it has one, gets a negative status.
DeviceAbort ==
  /\ pc # "exited"
  /\ running
  /\ running' = FALSE
  /\ queue' = Tail(queue)
  /\ status' = IF Head(queue) = "measured" THEN "error" ELSE status
  /\ UNCHANGED <<host, began, clock, prof, busy>>

\* What the host does when no call fails.
Host ==
  \/ EnqueueWarmup
  \/ Finish
  \/ EnqueueMeasured
  \/ Wait
  \/ WaitFails
  \/ GetStart
  \/ GetEnd
  \/ ReleaseEvent

Device == DeviceStart \/ DeviceEnd \/ DeviceAbort

Next == Begin \/ Host \/ FinishFails \/ ApiFails \/ Device

Spec == Init /\ [][Next]_vars

\* The host thread keeps running and the device keeps executing (a driver
\* that hangs is not modelled); nothing is assumed of failures.
FairSpec == Spec /\ WF_vars(Host) /\ WF_vars(Device)

-------------------------------------------------------------------------------

\* The variables keep their types.
TypeOK ==
  /\ pc \in {"idle", "warmup", "finish", "enqueue", "wait", "start", "end",
             "release", "exited"}
  /\ i \in 0 .. ITERS
  /\ used \in Nat /\ start \in Nat /\ result \in Nat
  /\ calls \in 0 .. MaxCalls
  /\ live \in Nat
  /\ queue \in Seq({"warmup", "measured"})
  /\ running \in BOOLEAN
  /\ began \in Nat /\ clock \in Nat /\ busy \in Nat
  /\ status \in {"none", "submitted", "complete", "error"}
  /\ prof \in [start : Nat, end : Nat]

\* A call that returned reports exactly the device time of its ITERS
\* measured launches: nothing of the warm-up, none of the idle time between
\* launches, no launch twice or half, even if clFinish failed unnoticed.
ReturnsDeviceTime ==
  pc = "idle" /\ calls > 0 =>
    /\ result = busy
    /\ result \in ITERS * MinTime .. ITERS * MaxTime

\* When run_kernel has returned nothing of it is left on the device, so its
\* caller may release the kernel, although the drain after the warm-up is
\* not checked.
DrainedOnReturn == pc = "idle" => queue = <<>> /\ ~running

\* Each call leaves ITERS - 1 events behind: the loop overwrites ev and only
\* the last one is released.
EventsLeaked ==
  pc = "idle" => live = calls * (ITERS - 1)

\* Every call returns or ends the process.
CallEnds == (pc = "warmup") ~> (pc \in {"idle", "exited"})

Sampling == {"enqueue", "wait", "start", "end"}

\* The loop index at each statement; a call in progress is not finished.
LoopIndex ==
  /\ pc \notin {"idle", "exited"} => calls < MaxCalls
  /\ pc \in {"warmup", "finish"} => i = 0
  /\ pc \in Sampling => i < ITERS
  /\ pc = "release" => i = ITERS

\* What can be in the queue at each statement: at most the warm-up, whose
\* drain may have failed, and one measured launch behind it.
QueueShape ==
  /\ pc \in {"idle", "warmup", "start", "end", "release"} => queue = <<>>
  /\ pc \in {"finish", "enqueue"} => queue \in {<<>>, <<"warmup">>}
  /\ pc = "wait" =>
       IF status = "submitted"
       THEN queue \in {<<"measured">>, <<"warmup", "measured">>}
       ELSE queue = <<>> /\ status \in {"complete", "error"}
  /\ pc \in {"start", "end"} => status = "complete"
  /\ running /\ pc # "exited" => queue # <<>>

\* The samples taken so far against the device's own account of them.
Account ==
  /\ pc \in {"warmup", "finish", "enqueue", "release"} => busy = used
  /\ pc = "wait" /\ status \in {"submitted", "error"} => busy = used
  /\ (pc = "wait" /\ status = "complete") \/ pc \in {"start", "end"} =>
       /\ prof.end - prof.start \in MinTime .. MaxTime
       /\ busy = used + (prof.end - prof.start)
  /\ pc = "end" => start = prof.start
  /\ pc # "idle" => used \in i * MinTime .. i * MaxTime

\* The events not released so far.
Events ==
  /\ pc \in {"warmup", "finish", "enqueue", "release"} =>
       live = calls * (ITERS - 1) + i
  /\ pc \in {"wait", "start", "end"} => live = calls * (ITERS - 1) + i + 1

\* The inductive invariant behind the three properties above.
IndInv ==
  TypeOK /\ LoopIndex /\ QueueShape /\ Account /\ Events
    /\ ReturnsDeviceTime /\ DrainedOnReturn /\ EventsLeaked
===============================================================================
