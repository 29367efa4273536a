------------------------------ MODULE ClFunctor ------------------------------
(***************************************************************************)
(* The kernel functors of the C++ bindings (cl.hpp): cl::make_kernel and   *)
(* detail::KernelFunctorGlobal.  A call sets the arguments of the          *)
(* cl_kernel one after the other, enqueues it and returns the event.       *)
(*                                                                         *)
(* A functor made from a Kernel shares its cl_kernel with every other copy *)
(* of that Kernel, one made from a Program and a name has its own.  The    *)
(* arguments live in the cl_kernel, so callers that share it meet there.   *)
(* What a failed setArg returns is not looked at: only a build with        *)
(* exceptions ends the call.                                               *)
(***************************************************************************)
EXTENDS Naturals, Sequences, FiniteSets
LOCAL INSTANCE Functions

CONSTANTS Callers,       \* threads, each with a functor
          Kernels,       \* objects of the driver
          MaxTypes,      \* bound on the argument types of a functor (32 in the code)
          MaxFunctorCalls   \* bound on the calls of all threads

ASSUME FunctorAssumption == MaxTypes \in Nat \ {0} /\ MaxFunctorCalls \in Nat

VARIABLES
  raises,       \* built with __CL_ENABLE_EXCEPTIONS
  holds,        \* caller -> the cl_kernel of its functor
  types,        \* caller -> the number of types that are not NullType
  params,       \* kernel -> the number of its parameters
  argument,     \* kernel -> parameter -> the value set last
  stage,        \* caller -> "idle" or "setting" arguments
  number,       \* caller -> the number of its call
  place,        \* caller -> position among its arguments
  queue_,       \* caller -> the queue of its EnqueueArgs is not null
  events_,      \* caller -> the events its call waits for
  event,        \* caller -> the event its last call returned
  launch,       \* what was enqueued last (history)
  launched,     \* the calls that enqueued (history)
  skipped,      \* caller -> the arguments whose setArg failed (history)
  beside        \* caller -> the calls that overlap its own (history)

history     == <<launch, launched>>
functors    == <<raises, holds, types, params>>
callState   == <<stage, number, place, queue_, events_, event, skipped, beside>>
functorVars == <<functors, argument, callState, history>>

NoEvent == <<>>                       \* an Event whose object_ is null
Unset   == <<>>                       \* a parameter nobody has set
NoLaunch == [call |-> <<>>, args |-> <<>>, after |-> {}, skipped |-> {}, beside |-> {}]
Call(c) == <<c, number[c]>>
Value(c, i) == <<c, number[c], i>>    \* what a call passes as its i-th argument

Busy(c) == stage[c] # "idle"

\* The EnqueueArgs of a call that has ended is gone.
Forget(c) ==
  /\ stage' = [stage EXCEPT ![c] = "idle"] /\ place' = [place EXCEPT ![c] = 1]
  /\ queue_' = [queue_ EXCEPT ![c] = TRUE] /\ events_' = [events_ EXCEPT ![c] = {}]
  /\ skipped' = [skipped EXCEPT ![c] = {}] /\ beside' = [beside EXCEPT ![c] = {}]

FunctorIdle ==
  /\ argument = [k \in Kernels |-> [i \in 1 .. params[k] |-> Unset]]
  /\ stage = [c \in Callers |-> "idle"]
  /\ number = [c \in Callers |-> 0] /\ place = [c \in Callers |-> 1]
  /\ queue_ = [c \in Callers |-> TRUE] /\ events_ = [c \in Callers |-> {}]
  /\ event = [c \in Callers |-> NoEvent] /\ launch = NoLaunch /\ launched = {}
  /\ skipped = [c \in Callers |-> {}] /\ beside = [c \in Callers |-> {}]

\* make_kernel(kernel) keeps a shallow copy and so shares the cl_kernel;
\* make_kernel(program, name) has one of its own.
Holdings == [Callers -> Kernels]

\* One specialisation for each number of types before the first NullType.  It
\* passes on its arguments in their order.
Arities == 1 .. MaxTypes

\* The kernel need not have as many parameters as the functor has types.
FunctorInit ==
  /\ raises \in BOOLEAN
  /\ holds \in Holdings
  /\ types \in [Callers -> Arities]
  /\ params \in [Kernels -> 1 .. MaxTypes]
  /\ FunctorIdle

------------------------------------------------------------------------------
\* EnqueueArgs: a queue, or the default queue; without exceptions a default
\* queue that could not be created is a null queue.  Any event some call
\* returned may be waited for, a null event too.
Prepare(c) ==
  /\ stage[c] = "idle" /\ FoldFunction(+, 0, number) < MaxFunctorCalls
  /\ stage' = [stage EXCEPT ![c] = "setting"]
  /\ number' = [number EXCEPT ![c] = @ + 1]
  /\ queue_' \in {[queue_ EXCEPT ![c] = live] : live \in {TRUE, raises}}
  /\ \E d \in Callers : events_' \in {[events_ EXCEPT ![c] = e] : e \in {{}, {event[d]}}}
  /\ beside' = [d \in Callers |->
                  IF d = c THEN {Call(b) : b \in {b \in Callers \ {c} : Busy(b)}}
                  ELSE IF Busy(d) THEN beside[d] \cup {<<c, number'[c]>>} ELSE {}]
  /\ UNCHANGED <<functors, argument, place, skipped, event, history>>

\* Variant: two lines of the list name the same argument.
SameIndexTwice(i) == IF i = 2 THEN 1 ELSE i

\* SetArg<i - 1, T>::set is the i-th line of the list.
ArgIndex(i) == i

\* SetArg<i, NullType>::set does nothing, for all lines that are left.
OnlyNullTypes(c) == place[c] > types[c]

\* Kernel::setArg hands the address of the value to clSetKernelArg, which
\* copies it into the cl_kernel.
setArg(k, i, v) == i <= params[k] /\ argument' = [argument EXCEPT ![k][i] = v]

\* SetArg::set: the kernel is copied, which retains and releases it, and
\* setArg is called; its error is returned to nobody.
SetArg(c) ==
  /\ stage[c] = "setting" /\ ~OnlyNullTypes(c)
  /\ \/ /\ setArg(holds[c], ArgIndex(place[c]), Value(c, place[c]))
        /\ place' = [place EXCEPT ![c] = @ + 1]
        /\ UNCHANGED <<stage, queue_, events_, skipped, beside>>
     \/ /\ raises /\ Forget(c) /\ UNCHANGED argument
     \/ /\ ~raises
        /\ skipped' = [skipped EXCEPT ![c] = @ \cup {place[c]}]
        /\ place' = [place EXCEPT ![c] = @ + 1]
        /\ UNCHANGED <<argument, stage, queue_, events_, beside>>
  /\ UNCHANGED <<functors, number, event, history>>

\* The driver refuses a null queue, a kernel with a parameter that was never
\* set, and a null event; it may refuse anything.
Accepts(c) ==
  /\ queue_[c]
  /\ \A i \in 1 .. params[holds[c]] : argument[holds[c]][i] # Unset
  /\ NoEvent \notin events_[c]

\* enqueueNDRangeKernel, and the event it leaves null if it fails.  An
\* exception leaves the caller with the event it had.
EnqueueKernel(c) ==
  /\ stage[c] = "setting" /\ OnlyNullTypes(c)
  /\ Forget(c)
  /\ \/ /\ Accepts(c)
        /\ launch' = [call |-> Call(c), args |-> argument[holds[c]], after |-> events_[c],
                      skipped |-> skipped[c], beside |-> beside[c]]
        /\ launched' = launched \cup {Call(c)}
        /\ event' = [event EXCEPT ![c] = Call(c)]
     \/ /\ event' = IF raises THEN event ELSE [event EXCEPT ![c] = NoEvent]
        /\ UNCHANGED history
  /\ UNCHANGED <<functors, argument, number>>

FunctorNext == \E c \in Callers : Prepare(c) \/ SetArg(c) \/ EnqueueKernel(c)

FunctorSpec == FunctorInit /\ [][FunctorNext]_functorVars

------------------------------------------------------------------------------
\* A kernel is launched with the arguments of the call that launches it, but
\* for the parameters the functor has no type for, those whose setArg failed
\* in a build without exceptions, and those a call that overlapped it set
\* through the same cl_kernel.  And a launch never waits for one that failed:
\* whatever it follows was launched (KernelFunctorGlobal::operator()).
LaunchesOwnArguments ==
  /\ \A i \in DOMAIN launch.args :
       LET c == launch.call[1]  v == launch.args[i]
       IN \/ v = launch.call \o <<i>>
          \/ i > types[c]
          \/ ~raises /\ i \in launch.skipped
          \/ SubSeq(v, 1, 2) \in launch.beside /\ holds[v[1]] = holds[c]
  /\ launch.after \subseteq launched
=============================================================================
