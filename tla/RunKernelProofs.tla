---------------------------- MODULE RunKernelProofs ---------------------------
(***************************************************************************)
(* Proofs about RunKernel for every number of iterations, every range of   *)
(* execution times and every number of calls.  The invariant follows the   *)
(* host statement by statement: where the loop index is (LoopIndex), what  *)
(* can be in the queue (QueueShape), what has been added up against what   *)
(* the device did (Account), and which events are alive (Events).          *)
(***************************************************************************)
EXTENDS RunKernel, SequenceTheorems, TLAPS

\* The two products of the bounds grow by one term per iteration.
LEMMA Products ==
  ASSUME NEW n \in Nat, NEW t \in Nat
  PROVE  n * t \in Nat /\ (n + 1) * t = n * t + t /\ 0 * t = 0
  OBVIOUS

\* Adding a sample within bounds keeps the sum within bounds.
LEMMA SumBounds ==
  ASSUME NEW n \in Nat, NEW u \in Nat, NEW d \in MinTime .. MaxTime,
         u \in n * MinTime .. n * MaxTime
  PROVE  u + d \in (n + 1) * MinTime .. (n + 1) * MaxTime
  <1>1. MinTime \in Nat /\ MaxTime \in Nat
    BY TimesAssumption
  <1>2. /\ n * MinTime \in Nat /\ (n + 1) * MinTime = n * MinTime + MinTime
        /\ n * MaxTime \in Nat /\ (n + 1) * MaxTime = n * MaxTime + MaxTime
    BY <1>1, Products
  <1> DEFINE a == n * MinTime
             b == n * MaxTime
             a1 == (n + 1) * MinTime
             b1 == (n + 1) * MaxTime
  <1>3. /\ a \in Nat /\ b \in Nat
        /\ a1 = a + MinTime /\ b1 = b + MaxTime
        /\ u >= a /\ u <= b
    BY <1>2
  <1> HIDE DEF a, b, a1, b1
  <1>4. u + d \in a1 .. b1
    BY <1>1, <1>3
  <1> QED
    BY <1>4 DEF a1, b1

\* The contents the queue can have are sequences of commands.
LEMMA QueueTypes ==
  /\ <<>> \in Seq({"warmup", "measured"})
  /\ <<"warmup">> \in Seq({"warmup", "measured"})
  /\ <<"measured">> \in Seq({"warmup", "measured"})
  /\ <<"warmup", "measured">> \in Seq({"warmup", "measured"})
  /\ Append(<<"warmup">>, "measured") = <<"warmup", "measured">>
  <1> DEFINE C == {"warmup", "measured"}
             s == Append(<<"warmup">>, "measured")
             u == <<"warmup", "measured">>
  <1>1. /\ <<>> \in Seq(C) /\ <<"warmup">> \in Seq(C)
        /\ <<"measured">> \in Seq(C) /\ u \in Seq(C)
    OBVIOUS
  <1>2. s \in Seq(C) /\ Len(s) = 2 /\ s[1] = "warmup" /\ s[2] = "measured"
    BY <1>1
  <1>3. Len(u) = 2 /\ u[1] = "warmup" /\ u[2] = "measured"
    OBVIOUS
  <1>4. \A n \in 1 .. Len(s) : s[n] = u[n]
    BY <1>2, <1>3
  <1>5. s = u
    BY <1>1, <1>2, <1>3, <1>4, SeqEqual
  <1> QED
    BY <1>1, <1>5

\* The variables at the start satisfy the invariant.
LEMMA InitInd == Init => IndInv
  <1> SUFFICES ASSUME Init PROVE IndInv
    OBVIOUS
  <1> USE DEF Init
  <1>1. TypeOK
    <2>1. queue \in Seq({"warmup", "measured"})
      OBVIOUS
    <2>2. i \in 0 .. ITERS /\ calls \in 0 .. MaxCalls
      BY ITERSAssumption, BoundsAssumption
    <2>3. prof \in [start : Nat, end : Nat]
      OBVIOUS
    <2> QED
      BY <2>1, <2>2, <2>3 DEF TypeOK
  <1>2. LoopIndex /\ QueueShape /\ Account
    BY DEF LoopIndex, QueueShape, Account, Sampling
  <1>3. Events /\ ReturnsDeviceTime /\ DrainedOnReturn
    BY DEF Events, ReturnsDeviceTime, DrainedOnReturn
  <1>4. EventsLeaked
    BY ITERSAssumption DEF EventsLeaked
  <1> QED
    BY <1>1, <1>2, <1>3, <1>4 DEF IndInv

\* A call begins with nothing on the device and no sample taken.
LEMMA BeginInd == IndInv /\ Begin => IndInv'
  <1> SUFFICES ASSUME IndInv, Begin PROVE IndInv'
    OBVIOUS
  <1> USE DEF IndInv, Begin
  <1>0. MinTime \in Nat /\ MaxTime \in Nat
    BY TimesAssumption
  <1>1. TypeOK'
    BY ITERSAssumption DEF TypeOK
  <1>2. LoopIndex' /\ QueueShape'
    BY DEF LoopIndex, QueueShape, Sampling, DrainedOnReturn
  <1>3. Account'
    <2>1. 0 \in 0 * MinTime .. 0 * MaxTime
      BY <1>0
    <2> QED
      BY <2>1 DEF Account
  <1>4. Events'
    BY ITERSAssumption DEF Events, EventsLeaked, TypeOK
  <1>5. ReturnsDeviceTime' /\ DrainedOnReturn' /\ EventsLeaked'
    BY DEF ReturnsDeviceTime, DrainedOnReturn, EventsLeaked
  <1> QED
    BY <1>1, <1>2, <1>3, <1>4, <1>5

\* The steps that put a launch into the queue.
LEMMA EnqueueInd == IndInv /\ (EnqueueWarmup \/ EnqueueMeasured) => IndInv'
  <1> SUFFICES ASSUME IndInv, EnqueueWarmup \/ EnqueueMeasured PROVE IndInv'
    OBVIOUS
  <1> USE DEF IndInv
  <1>1. CASE EnqueueWarmup
    <2> USE <1>1 DEF EnqueueWarmup
    <2>0. queue' = <<"warmup">>
      BY DEF QueueShape
    <2>1. TypeOK'
      BY <2>0 DEF TypeOK
    <2>2. LoopIndex' /\ QueueShape' /\ Account' /\ Events'
      BY <2>0 DEF LoopIndex, QueueShape, Account, Events, Sampling
    <2>3. ReturnsDeviceTime' /\ DrainedOnReturn' /\ EventsLeaked'
      BY DEF ReturnsDeviceTime, DrainedOnReturn, EventsLeaked
    <2> QED
      BY <2>1, <2>2, <2>3
  <1>2. CASE EnqueueMeasured
    <2> USE <1>2 DEF EnqueueMeasured
    <2>0. queue' \in {<<"measured">>, <<"warmup", "measured">>}
      <3>1. queue \in {<<>>, <<"warmup">>}
        BY DEF QueueShape
      <3>2. CASE queue = <<>>
        <4>1. Append(<<>>, "measured") = <<"measured">>
          OBVIOUS
        <4> QED
          BY <3>2, <4>1
      <3>3. CASE queue = <<"warmup">>
        <4>1. Append(<<"warmup">>, "measured") = <<"warmup", "measured">>
          BY QueueTypes
        <4> QED
          BY <3>3, <4>1
      <3> QED
        BY <3>1, <3>2, <3>3
    <2>1. TypeOK'
      BY <2>0 DEF TypeOK
    <2>2. LoopIndex' /\ QueueShape' /\ Account'
      BY <2>0 DEF LoopIndex, QueueShape, Account, Sampling
    <2>3. Events'
      BY DEF Events
    <2>4. ReturnsDeviceTime' /\ DrainedOnReturn' /\ EventsLeaked'
      BY DEF ReturnsDeviceTime, DrainedOnReturn, EventsLeaked
    <2> QED
      BY <2>1, <2>2, <2>3, <2>4
  <1> QED
    BY <1>1, <1>2

\* The steps that only wait, read a counter or fail.
LEMMA WaitInd ==
  IndInv /\ (Finish \/ FinishFails \/ Wait \/ WaitFails \/ GetStart \/ ApiFails)
    => IndInv'
  <1> SUFFICES ASSUME IndInv,
                      \/ Finish \/ FinishFails \/ Wait
                      \/ WaitFails \/ GetStart \/ ApiFails
               PROVE  IndInv'
    OBVIOUS
  <1> USE DEF IndInv, Finish, FinishFails, Wait, WaitFails, GetStart, ApiFails,
              host, device
  <1>1. TypeOK'
    BY DEF TypeOK
  <1>2. LoopIndex'
    BY ITERSAssumption DEF LoopIndex, Sampling
  <1>3. QueueShape'
    BY DEF QueueShape
  <1>4. Account'
    BY DEF Account, QueueShape
  <1>5. Events'
    BY DEF Events
  <1>6. ReturnsDeviceTime' /\ DrainedOnReturn' /\ EventsLeaked'
    BY DEF ReturnsDeviceTime, DrainedOnReturn, EventsLeaked
  <1> QED
    BY <1>1, <1>2, <1>3, <1>4, <1>5, <1>6

\* A sample is added: it is the device time of the last launch.
LEMMA GetEndInd == IndInv /\ GetEnd => IndInv'
  <1> SUFFICES ASSUME IndInv, GetEnd PROVE IndInv'
    OBVIOUS
  <1> USE DEF IndInv, GetEnd, MoreIterations, Sample, host, device
  <1> DEFINE d == prof.end - prof.start
  <1>0. /\ i \in Nat /\ i < ITERS /\ ITERS \in Nat
        /\ used \in Nat /\ used \in i * MinTime .. i * MaxTime
        /\ d \in MinTime .. MaxTime /\ d \in Nat
        /\ used' = used + d /\ busy = used'
        /\ pc' \in {"enqueue", "release"}
    BY ITERSAssumption, TimesAssumption
       DEF TypeOK, LoopIndex, Account, Sampling
  <1>1. TypeOK'
    BY <1>0, ITERSAssumption DEF TypeOK
  <1>2. LoopIndex'
    BY <1>0 DEF LoopIndex, Sampling
  <1>3. QueueShape'
    BY <1>0 DEF QueueShape
  <1>4. Account'
    <2>1. used' \in i' * MinTime .. i' * MaxTime
      BY <1>0, SumBounds
    <2> QED
      BY <1>0, <2>1 DEF Account
  <1>5. Events'
    <2> DEFINE c == calls * (ITERS - 1)
    <2>1. c \in Int /\ live = c + i + 1
      BY <1>0, BoundsAssumption DEF Events, TypeOK
    <2>2. c' = c
      OBVIOUS
    <2> HIDE DEF c
    <2>3. live' = c' + i'
      BY <1>0, <2>1, <2>2
    <2> QED
      BY <1>0, <2>3 DEF Events, c
  <1>6. ReturnsDeviceTime' /\ DrainedOnReturn' /\ EventsLeaked'
    BY <1>0 DEF ReturnsDeviceTime, DrainedOnReturn, EventsLeaked
  <1> QED
    BY <1>1, <1>2, <1>3, <1>4, <1>5, <1>6

\* The call returns the sum; of its ITERS events one is released.
LEMMA ReleaseInd == IndInv /\ ReleaseEvent => IndInv'
  <1> SUFFICES ASSUME IndInv, ReleaseEvent PROVE IndInv'
    OBVIOUS
  <1> USE DEF IndInv, ReleaseEvent, EventsAfterRelease, host, device
  <1> DEFINE k == ITERS - 1
             c == calls * k
             c1 == (calls + 1) * k
  <1>0. /\ calls \in Nat /\ calls < MaxCalls /\ MaxCalls \in Nat
        /\ k \in Nat /\ i = k + 1 /\ used = busy
        /\ used \in ITERS * MinTime .. ITERS * MaxTime
    BY ITERSAssumption, BoundsAssumption DEF TypeOK, LoopIndex, Account
  <1>1. c \in Nat /\ c1 = c + k /\ live = c + i
    BY <1>0, Products DEF Events
  <1>2. live' = c1 /\ live' \in Nat /\ c' = c1
    <2>1. c' = c1
      BY DEF Events
    <2> HIDE DEF c, c1, k
    <2> QED
      BY <1>0, <1>1, <2>1
  <1>3. TypeOK'
    BY <1>0, <1>2 DEF TypeOK
  <1>4. LoopIndex' /\ QueueShape' /\ Account' /\ Events'
    BY DEF LoopIndex, QueueShape, Account, Events, Sampling
  <1>5. ReturnsDeviceTime' /\ DrainedOnReturn'
    BY <1>0 DEF ReturnsDeviceTime, DrainedOnReturn, QueueShape
  <1>6. EventsLeaked'
    BY <1>2 DEF EventsLeaked
  <1> QED
    BY <1>3, <1>4, <1>5, <1>6

\* The device starts the head of the queue.
LEMMA DeviceStartInd == IndInv /\ DeviceStart => IndInv'
  <1> SUFFICES ASSUME IndInv, DeviceStart PROVE IndInv'
    OBVIOUS
  <1> USE DEF IndInv, DeviceStart, host
  <1>1. TypeOK'
    BY BoundsAssumption DEF TypeOK
  <1>2. LoopIndex' /\ QueueShape' /\ Account' /\ Events'
    BY DEF LoopIndex, QueueShape, Account, Events, Sampling
  <1>3. ReturnsDeviceTime' /\ DrainedOnReturn' /\ EventsLeaked'
    BY DEF ReturnsDeviceTime, DrainedOnReturn, EventsLeaked
  <1> QED
    BY <1>1, <1>2, <1>3

\* When the device executes, the host is draining, waiting, or about to
\* enqueue behind a warm-up whose drain failed.
LEMMA DeviceBusy ==
  ASSUME IndInv, running, pc # "exited"
  PROVE  \/ /\ queue = <<"warmup">> /\ Head(queue) = "warmup"
            /\ Tail(queue) = <<>>
            /\ pc \in {"finish", "enqueue"}
         \/ /\ queue = <<"measured">> /\ Head(queue) = "measured"
            /\ Tail(queue) = <<>>
            /\ pc = "wait" /\ status = "submitted"
         \/ /\ queue = <<"warmup", "measured">> /\ Head(queue) = "warmup"
            /\ Tail(queue) = <<"measured">>
            /\ pc = "wait" /\ status = "submitted"
  <1>1. queue # <<>>
    BY DEF IndInv, QueueShape
  <1>2. \/ queue = <<"warmup">> /\ pc \in {"finish", "enqueue"}
        \/ /\ queue \in {<<"measured">>, <<"warmup", "measured">>}
           /\ pc = "wait" /\ status = "submitted"
    BY <1>1 DEF IndInv, TypeOK, QueueShape
  <1>3. /\ Head(<<"warmup">>) = "warmup" /\ Tail(<<"warmup">>) = <<>>
        /\ Head(<<"measured">>) = "measured" /\ Tail(<<"measured">>) = <<>>
        /\ Head(<<"warmup", "measured">>) = "warmup"
        /\ Tail(<<"warmup", "measured">>) = <<"measured">>
    OBVIOUS
  <1> QED
    BY <1>2, <1>3

\* A command ends: a measured one fills in the counters of its event.
LEMMA DeviceEndInd == IndInv /\ DeviceEnd => IndInv'
  <1> SUFFICES ASSUME IndInv, DeviceEnd PROVE IndInv'
    OBVIOUS
  <1> USE DEF DeviceEnd, host
  <1>0. running /\ pc # "exited" /\ pc' = pc
    OBVIOUS
  <1>1. CASE Head(queue) = "measured"
    <2>1. /\ queue = <<"measured">> /\ queue' = <<>>
          /\ pc = "wait" /\ status = "submitted"
      BY <1>0, <1>1, DeviceBusy
    <2>2. PICK d \in MinTime .. MaxTime :
            /\ clock' = began + d
            /\ status' = "complete"
            /\ prof' = [start |-> began, end |-> began + d]
            /\ busy' = busy + d
      BY <1>1
    <2>3. /\ began \in Nat /\ d \in Nat /\ busy \in Nat /\ busy = used
          /\ prof'.end - prof'.start = d
      BY <2>1, <2>2, TimesAssumption DEF IndInv, TypeOK, Account
    <2>4. TypeOK'
      <3>1. prof' \in [start : Nat, end : Nat] /\ clock' \in Nat /\ busy' \in Nat
        BY <2>2, <2>3
      <3>2. queue' \in Seq({"warmup", "measured"})
        BY <2>1, QueueTypes
      <3> QED
        BY <2>2, <3>1, <3>2 DEF IndInv, TypeOK
    <2>5. LoopIndex' /\ QueueShape' /\ Events'
      BY <2>1, <2>2 DEF IndInv, LoopIndex, QueueShape, Events, Sampling
    <2>6. Account'
      BY <2>1, <2>2, <2>3 DEF IndInv, Account
    <2>7. ReturnsDeviceTime' /\ DrainedOnReturn' /\ EventsLeaked'
      BY <2>1 DEF IndInv, ReturnsDeviceTime, DrainedOnReturn, EventsLeaked
    <2> QED
      BY <2>4, <2>5, <2>6, <2>7 DEF IndInv
  <1>2. CASE Head(queue) # "measured"
    <2>1. PICK d \in ColdTimes : clock' = began + d
      BY <1>2
    <2>2. /\ UNCHANGED <<status, prof, busy>>
          /\ \/ queue' = <<>> /\ pc \in {"finish", "enqueue"}
             \/ queue' = <<"measured">> /\ pc = "wait" /\ status = "submitted"
      BY <1>0, <1>2, DeviceBusy
    <2>3. TypeOK'
      <3>1. clock' \in Nat
        BY <2>1, TimesAssumption DEF IndInv, TypeOK
      <3>2. queue' \in Seq({"warmup", "measured"})
        BY <2>2, QueueTypes
      <3> QED
        BY <2>2, <3>1, <3>2 DEF IndInv, TypeOK
    <2>4. LoopIndex' /\ QueueShape' /\ Events' /\ Account'
      BY <2>2 DEF IndInv, LoopIndex, QueueShape, Events, Account, Sampling
    <2>5. ReturnsDeviceTime' /\ DrainedOnReturn' /\ EventsLeaked'
      BY <2>2 DEF IndInv, ReturnsDeviceTime, DrainedOnReturn, EventsLeaked
    <2> QED
      BY <2>3, <2>4, <2>5 DEF IndInv
  <1> QED
    BY <1>1, <1>2

\* A command is aborted: the host sees that in the status of its event.
LEMMA DeviceAbortInd == IndInv /\ DeviceAbort => IndInv'
  <1> SUFFICES ASSUME IndInv, DeviceAbort PROVE IndInv'
    OBVIOUS
  <1> USE DEF DeviceAbort, host
  <1>1. /\ UNCHANGED <<pc, busy, prof>>
        /\ \/ queue' = <<>> /\ pc \in {"finish", "enqueue"} /\ status' = status
           \/ queue' = <<>> /\ pc = "wait" /\ status' = "error"
                /\ status = "submitted"
           \/ queue' = <<"measured">> /\ pc = "wait" /\ status = "submitted"
                /\ status' = status
    BY DeviceBusy
  <1>2. TypeOK'
    BY <1>1, QueueTypes DEF IndInv, TypeOK
  <1>3. LoopIndex' /\ QueueShape' /\ Events' /\ Account'
    BY <1>1 DEF IndInv, LoopIndex, QueueShape, Events, Account, Sampling
  <1>4. ReturnsDeviceTime' /\ DrainedOnReturn' /\ EventsLeaked'
    BY <1>1 DEF IndInv, ReturnsDeviceTime, DrainedOnReturn, EventsLeaked
  <1> QED
    BY <1>2, <1>3, <1>4 DEF IndInv

\* Every step of host and device preserves the invariant.
LEMMA NextInd == IndInv /\ [Next]_vars => IndInv'
  <1>1. IndInv /\ UNCHANGED vars => IndInv'
    BY DEF vars, host, device, IndInv, TypeOK, LoopIndex, QueueShape, Account,
       Events, ReturnsDeviceTime, DrainedOnReturn, EventsLeaked, Sampling
  <1> QED
    BY <1>1, BeginInd, EnqueueInd, WaitInd, GetEndInd, ReleaseInd,
       DeviceStartInd, DeviceEndInd, DeviceAbortInd DEF Next, Host, Device

\* The invariant of host, queue and device holds in every reachable state.
THEOREM KernelInvariant == Spec => []IndInv
  BY InitInd, NextInd, PTL DEF Spec

\* A call reports exactly the device time of its measured launches.
THEOREM MeasuresDeviceTime == Spec => []ReturnsDeviceTime
  <1>1. IndInv => ReturnsDeviceTime
    BY DEF IndInv
  <1> QED
    BY <1>1, KernelInvariant, PTL

\* Nothing of a call is left on the device when it has returned, whether or
\* not the drain after the warm-up worked.
THEOREM LeavesNothingQueued == Spec => []DrainedOnReturn
  <1>1. IndInv => DrainedOnReturn
    BY DEF IndInv
  <1> QED
    BY <1>1, KernelInvariant, PTL

\* The number of events a session has leaked is exact.
THEOREM LeaksEvents == Spec => []EventsLeaked
  <1>1. IndInv => EventsLeaked
    BY DEF IndInv
  <1> QED
    BY <1>1, KernelInvariant, PTL
===============================================================================
