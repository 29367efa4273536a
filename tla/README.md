# MegPeak in TLA+

MegPeak measures the peak performance of a processor: how long an instruction
takes, how fast memory moves, how many operations per second an OpenCL device
reaches. It runs one measurement after the other and prints a line for each. A
wrong figure looks like a slow or a fast machine and nothing else, and that is
what makes the program hard to test: few of its faults announce themselves.

This directory holds TLA+ modules for the parts of the program that decide
something, TLC configurations that check them on small instances, and TLAPS
proofs for all instances of what matters most. `PROJECT.json` lists the runs,
the mutant of the code that breaks each property, and, for every definition,
the source lines it models.

    tlc -workers 2 -config MCMegPeak.cfg MCMegPeak          # any run
    tlapm MegPeakProofs.tla                                 # any proof module

## 1. Inventory

Paths are relative to `src/` of the repository (the C++ sources lie in
`src/src/`).

| Component | Code | State | Operations | Correct when | Module |
|---|---|---|---|---|---|
| Command line | `src/main.cpp`, `backend.h` | options read so far | option loop, `atoi`, choice of the backend, exit status | the backend and device asked for last are used; status 0 only after everything | `MegPeak` |
| OpenCL environment | `common.cpp`, constructor and destructor of `OpenCLEnv` | platform, device list, context properties, context, queue | platform and device loop, context, queue, device info, release | the device asked for, of the first platform that has any, on a context of that platform | `OpenCLEnv` |
| OpenCL runners | `common.cpp`, `OpenCLEnv::run` and the six `run` methods | buffers, program, kernels, block size, arguments | skip, create, build, launch, report, release | every supported figure printed once, every launch legal and within its buffers | `OpenCLSession` |
| Sizes and addressing | `common.cpp`, `kernels/*.h` | none | `round_to_power2`, `get_global_size_divdown`, buffer sizes, offsets in the kernels | buffers fit the device, launches are whole groups, every element is loaded once | `Geometry` |
| OpenCL compute and memory kernels | `src/opencl/kernels/*.h` | local memory, registers of a work item | multiply-adds per width, swaps in local memory | a figure claims the work done; work items keep apart | `KernelWork` |
| Kernel timing | `common.cpp`, `Runner::run_kernel` | loop counter, sum, events, device queue | enqueue, finish, wait, read counters, release | the figure is the device time of the measured launches | `RunKernel` |
| OpenCL stub loader | `opencl-stub/src/libopencl-wrap.h` | `g_func_table`, `done`, `mtx` | `clX`, `clX_init`, `clX_error`, `load_library` | one library, chosen once, answers every call of every thread | `StubLoader` |
| Library search | `opencl-stub/src/libopencl.cpp` | `handle`, `begin`, the path found | `get_library_handle`, `open_shared_lib` | the first library of the search order is returned, no other stays open | `LibrarySearch` |
| CPU backend, memory bandwidth and CPU names | `src/cpu/backend.cpp`, `x86_utils.cpp`, `x86_avx.cpp`, `x86_sse.cpp`, `aarch64.cpp`, `armv7.cpp`, `aarch64_dual_issue.h`, `loongarch_*.cpp`, `common.h` | feature flags, affinity, `Timer` | detect, pin, print the core, copy, groups of benchmarks, `benchmark()` | what is detected can execute; a figure is the time of its own functions | `CpuBackend`, `CpuCalls` |
| Benchmark loops | `src/cpu/aarch64.h`, `aarch64_dual_issue.h`, `armv7.h`, `loongarch.h`, the macros of the x86 files | registers, one memory cell | prologue, body, count and branch, return | the operations counted are those executed, and are independent (throughput) or a chain (latency) | `BenchLoop`, `CpuBenchmarks`, `CpuLoops` |
| C++ bindings | `opencl-stub/include/cl.hpp` (shipped, and not included by the program) | handles and their references, default context and queue, arguments of a shared kernel, mappings | copy, assign, destroy; `getDefault`; functors; `cl::copy` | references balance, all threads get one default, a launch has its own arguments, success means copied | `ClWrapper`, `ClDefault`, `ClFunctor`, `ClTransfer` |
| OpenCL C headers | `opencl-stub/include/MCL` | | | third-party declarations | none |
| Build scripts | `CMakeLists.txt`, `*.sh` | | | the constant `Builds` stands for their effect | none |

**How they interact.** `main` reads its options and calls `execute` of a
backend (`MegPeak`). The OpenCL backend constructs `OpenCLEnv`, calls
`OpenCLEnv::run`, which runs the six runners one after the other, and destroys
it again; a failed check ends the process from wherever it is. `MegPeak`
extends `OpenCLEnv`, which extends `OpenCLSession`, which uses `Geometry`: the
run `program` checks the whole of them together. Each runner calls
`run_kernel` for each of its kernels (`RunKernel`: one `Launch` of
`OpenCLSession` stands for one call of it). Every OpenCL call goes through the
stub (`StubLoader`), whose first call opens the library (`OpenLibrary`, which
stands for the whole of `LibrarySearch`); what the stub answers for a function
the library lacks returns to `OpenCLEnv` as `Made`. The CPU backend pins itself
to a core and runs the groups of benchmarks of `CpuCalls` that the build and
the machine support (`CpuBackend`); each figure comes from two loops
(`BenchLoop`). Sharing in the program is by call; the only state its threads
share is the stub's table, its mutex and flag. The C++ bindings are for other
users of the stub: there, threads share the state word and value of each
default, and the arguments of a `cl_kernel`.

**What is hard.**
- *Interleaving and stale reads.* The stub's table is read with a plain load
  and written with relaxed stores, and two functions call each other until a
  thread sees the store. The host and the device of `run_kernel` run at their
  own pace, and the drain between warm-up and measurement is not checked. The
  work items of the local memory kernel share memory without a barrier. The
  defaults of the C++ bindings are made under a state word that is a plain int
  or an atomic, and the arguments of a kernel are set one at a time.
- *Failure in the middle.* Any OpenCL call may fail; most failures end the
  process without destructors, one is ignored, and an error stub leaves the
  error code unwritten. Commands may be aborted on the device. A library may
  lack functions, files may exist and not load. A retain or a release may fail
  inside an assignment; a transfer goes on after a step that failed.
- *Numbers at a boundary.* 32-bit products and casts, `log2f` rounding up just
  below a power of two, zero sizes, rounding down twice, a negative option in a
  `size_t`.
- *Stale values.* One block size carried over kernels with different limits, a
  local-memory argument sized from it, one timer for two figures, feature flags
  computed for one register state and used for another.
- *Agreement between a constant and assembly.* Operation counts, clobber lists,
  counter registers and register numbering, on which each CPU figure rests.

`PROJECT.json` lists each of these at its line under "hazards", with the
properties that would notice.

## 2. Modules

### OpenCLSession, OpenCLEnv, MegPeak, MCMegPeak, MegPeakProofs
The program with its OpenCL backend, in three layers.

`MegPeak` is `main`: one step per option (`ReadOption`; the last of each kind
counts, and `-i` puts the int of `atoi` into a `size_t`), then the backend that
`device` names, or an end without one. The CPU backend has a module of its own
and is here only chosen (`StartCpu`).

`OpenCLEnv` is the constructor, call by call: platforms, the number and the
list of the GPUs of each until one has some, the device, the properties of the
context, context, queue, device info. A platform without GPUs either reports
none or, `strict`, answers CL_DEVICE_NOT_FOUND as OpenCL has it, which
`opencl_check` takes for a failure. `Made` is what a call that makes a handle
leaves behind, the error stub of a missing function included: it writes no error
code, so an uninitialised one is tested. `Destroy` is the destructor;
`Exits`, `RunnerExited` and `EnvApiFails` are the ends without it.

`OpenCLSession` has the six runners in order on one device, with what a
conforming driver refuses: empty or too large buffers, empty launches, arguments
of the wrong size.

- `LaunchLegal`, `TouchesInBounds`, `LocalMemoryMatches` speak of each launch;
  `OnlyBuffersKept` of what is released and what is not; `ArgumentSizeConfined`
  says where the argument-size fault of section 5 can happen, and that it can
  happen nowhere else.
- `ChoosesAskedGpu`: the device is the one the last `-i` asks for, of the first
  platform with a GPU, and its context is made on that platform by a list of
  properties that fits its array.
- `RefusesOnlyHere`: when a device that exists can be refused.
- `RunsOnLiveHandles`: the runners start on a live context and queue but for the
  unwritten error code, and nothing is launched even then.
- `ZeroMeansComplete`: exit status 0 exactly with a complete report and a
  released environment; otherwise the report is a prefix of the complete one.

### Geometry, KernelWork, LaunchGeometry, MCGeometry, GeometryProofs
`Geometry` has the size arithmetic as operators. `RoundToPower2` returns the set
of results a conforming `log2f`, `pow` and conversion can produce. The word
width and the round numbers of the code are constants. `KernelWork` has the work
of an item of each kernel, and runs one group of the local memory kernel access
by access: six values stored, sixteen rounds of five swaps of four accesses
each, six values summed. `LaunchGeometry` goes through the sizes and the groups,
one after the other, and states what holds of each; `MCGeometry` gives it the
margin of `log2f` in a small word.

- `BuffersFit`: each buffer of the bandwidth runner is within what the device
  allocates at once, and is empty only where the low word of that is under 8
  bytes. The two together, and the buffer of a compute runner, exceed it only if
  what is wanted lies in the margin of `log2f` below a power of two, as the
  elements do for 2^32 - 1 bytes (511 in the 9-bit word).
- `FiguresMatchWork`: what each figure claims is what the launched items do, up
  to the part of a group that dividing down leaves out; for each kernel and width.
- `ItemsKeepApart`: under every interleaving of the items, a slot holds only
  values of its item, and the item sums the six it wrote.
- `EachElementOnce`: either addressing scheme loads each element of its range
  once, and no other.

### RunKernel, MCRunKernel, RunKernelProofs
`run_kernel` statement by statement, and the device behind the in-order queue
with its own clock: `DeviceStart`, `DeviceEnd`, `DeviceAbort`. `FinishFails` is
the `clFinish` whose result is not looked at; `ApiFails` is any checked call
that fails. `busy` is the device's own account of the measured launches.
`ReturnsDeviceTime` compares the two accounts at the return; `EventsLeaked`
states the leak of `iters - 1` events per call; `DrainedOnReturn` that no command
of a call is left on the device when it returns and its caller releases the
kernel; `CallEnds` that a call returns or ends the process. Samples are kept as integers and the sum is not divided; the code
rounds the sum to `float`.

### LazyDispatch, StubLoader, MCStubLoader, StubLoaderProofs
`StubLoader` is the loader with any number of threads and functions. A thread
calls a function (`Call`), reads its table entry and either finds the init stub
(`DispatchInit`) or a final pointer (`DispatchFinal`); the init stub takes the
mutex (`Lock`), returns when `done` is set, or opens the library
(`OpenLibrary`), fills the table slot by slot (`StoreSlot`), releases the mutex
(`Unlock`) and calls the function again. The read of the table is not
synchronised, so the model keeps for each thread the entries whose new value it
is bound to see: those it wrote or read itself, and those published by an unlock
before its own lock. Every other read returns the old or the new pointer
(`Visible`). `LazyDispatch` is the promise: one library, chosen because of a
call, answers every call of a function it exports, the stub's error answer the
rest.

- `AtMostOneEntry`: no thread enters `load_library` twice, which bounds the
  mutual recursion of `clX` and `clX_init`.
- `AnswersFromHandle`: every finished call was answered by the right provider.
- `ImplementsDispatch`: refinement of `LazyDispatch`.
- `CallsAnswered`: every call is answered.

### LibrarySearch, MCLibrarySearch, StubLoaderProofs (second part)
`get_library_handle`: the entries of `LIBOPENCL_PATH` up to the last colon
(`EntryBeforeColon`), then the entry at `begin` (`EntryAtBegin`, which opens a
hit a second time because the loop leaves `begin` where it is), then the
built-in paths (`DefaultPath`). `HandleAfter` is `open_shared_lib`: it leaves
the handle alone when there is no file and overwrites it, with null if need be,
when there is one. `FirstLibraryWins` says which library is returned;
`OnlyResultOpened` that nothing else is left open and how often the result was
opened. The files do not change during the search. `so_handle` is the `handle`
of the code and `phase` its position; the names differ so that one module can
hold the proofs of this search and of the loader that runs it.

### CpuBackend, CpuCalls, MCCpuBackend, CpuBackendProofs
The CPU backend of the four architectures. On x86 the static initialisers detect
AVX, FMA, AVX2, AVX512 and VNNI (`Detect`); LoongArch asks AT_HWCAP; ARM asks
nothing. Then `Pin`, `PrintCpuInfo` (which uses what libcpuinfo returns without
looking whether it found anything, and two tables of names that end in a null
pointer), the bandwidth measurement (`WarmCopies`, `Copies`), and the groups of
benchmarks of `CpuCalls` under the tests the code makes, each benchmark with the
two readings of its `Timer`. A machine is what `cpuid`, `xgetbv` or AT_HWCAP
report of it; an instruction it lacks, or whose registers the system does not
enable, kills the process. `FiguresAreOwn`: no figure contains another
function's time, and the names tell the lines apart. `DiesOnlyHere`: the
complete list of ways to die (the AVX, FMA and AVX2 groups are not on it).

### BenchLoop, CpuBenchmarks, CpuLoops, MCBenchLoop, BenchLoopProofs
`BenchLoop` is the assembly loop: the prologue zeroes registers and loads the
counter, `Execute` issues one instruction of the body, `CountAndBranch` counts
and branches, `Return` returns the claimed number of operations while the
compiler's epilogue restores what the clobber list names. An instruction is the
set of locations it writes and the set it reads; when it overwrites the counter
or the bound, that register holds any value afterwards. The compiler gives the
operands `RUNS` and `a_ptr` any registers outside the clobber list (from a pool
of caller-saved and callee-saved ones, among them the counters of the other
loops). `flow` is a dataflow history with unit latency: the longest chain of
dependent instructions, and whether one group used what another wrote in the
same iteration. `CpuBenchmarks` has the macros of the four families as operators
and the bodies as tables, one benchmark for all of a file with the same
registers (`fmla` for `mul`, `addp`, `sdot`...). A callback `cb` of the code is a
sequence of instructions, each a function of the register number (`RmwV` is
`op v_i, v_i, v_i`, `Fixed(x)` ignores the number). Bodies written out by hand are
split into groups, one per operation that the function counts. `CpuLoops` names
the entries of all tables (`CpuBench`) and has the properties that speak of them.

- `RunsExactly`: under every choice of registers the loop runs the iterations
  asked for on the address it was given.
- `CallerRegistersKept`: what the function destroys and must preserve is in its
  clobber list.
- `InputOperandsKept`: a register the assembly declares an input still holds the
  input at its end, except in the LoongArch loops, which count down in it.
- `CountsOperationsBut`: the count returned is right for every loop but
  `prefetch_very_long`.
- `ThroughputIndependent`, `LatencyChained`: exactly which throughput loops have
  dependences between their operations, and exactly which latency loops are no
  chain. Both are equivalences: a loop that joins or leaves the exceptions is
  noticed.
- `Terminates`: every loop comes to its end.

Zeroing idioms (`eor v, v, v` breaks a dependence on many cores) and real
latencies are left out: the dependences are those of the registers named.

### ClWrapper, ClFunctor, ClTransfer, MCClWrapper, ClBindingsProofs
Three uses of the C++ bindings, which share no state and are checked in one run,
one per behaviour. All three know builds with and without exceptions.

`ClWrapper`: variables of one wrapper class and the references they hold. Copy,
move, assignment from a variable, a handle or nothing, destruction, getters that
return one handle or several, and enqueueing with an event to fill. A retain or a
release may fail; a `Device` retains only where its platform counts references
(`flag`, set by `Detected` and copied with the handle). `ReferencesAccounted`:
the driver's count of an object is the number of its holders, corrected by the
failures on record. `HandlesLive`: without failures a variable never holds an
object that is gone.

`ClFunctor`: threads call kernel functors, which set the arguments of a
`cl_kernel` one after the other and enqueue it; two functors share the kernel or
do not. `LaunchesOwnArguments` lists what a launch may have in place of its own
arguments: a parameter beyond the types of the functor, one whose `setArg` failed
in a build without exceptions, one set by an overlapping call on the same kernel.

`ClTransfer`: the iterator constructors of `Buffer` and `cl::copy`, each step of
which may fail. The constructors go on after a failed step with a null handle
and overwrite the error stored; `SuccessMeansCopied` says that success is still
never told of data that did not arrive, but for the failed wait that nobody
looks at in a build without exceptions.

### ClDefault, MCClDefault, ClDefaultProofs
`Context::getDefault` and `CommandQueue::getDefault`, which calls the former, by
threads that exchange a state word, create, store and fence. Constants of a
behaviour are the three things the source depends on: whether the state word is
an atomic (which starts as 0 and not as `NotInitialized`), whether exceptions
leave the constructor, and whether loads and stores of plain variables take
effect in their order (`ordered`: the machine's doing and the compiler's).

Where they do not, the writer's state word may be seen before its error
(`FlagMayFollow`), and a thread that waits may load the error and the default
before its last look at the state word, since no fence follows the loop
(`EarlyError`, `EarlyDefault`; a further round of the loop passes a fence and
undoes both, `SpinAgain`). A fence of `cl.hpp` is taken to be one of the machine;
`_ReadWriteBarrier`, which MSVC gets, is that only on x86.

`SameAsFirst`, `HandedOutAlive` and `ErrorTold` say under which of these all
callers get the one default, alive, and its error, and who may get nothing;
`CallsReturn` that a call returns unless an exception has left the state word at
`BeingInitialized`, behind which every later caller spins. A queue that was
given no context by an early load is not created: `CreateFails` and
`CreateThrows` have that, and without exceptions the code then takes element 0
of an empty vector, whose outcome is not modelled.

## 3. Runs

| Run | Bounds | Distinct states | Shows |
|---|---|---|---|
| `stub_loader` | 3 threads, 3 functions, a full and a partial library, or none | 251 398 | the loader's safety, its refinement, and that every call is answered |
| `library_search` | lists of 0 to 3 entries over two paths and the empty one, 2 built-in paths, every state of the files | 6 041 | the search order |
| `run_kernel` | 3 iterations, 2 calls, launches of 1 or 2 ticks, warm-up of 7, overhead 0 or 1 | 22 319 | the figure, the leak, the empty queue at the return; under fairness, that a call ends |
| `geometry` | 9-bit word, sizes to 1100, groups of 1 to 6; groups of 1 and 2 executed | 117 828 | the arithmetic, the work behind each figure, the local memory kernel |
| `program` | 96 single devices, all machines of 0 to 3 platforms out of 6 kinds, 8 command lines, 4 sets of missing functions, 2 builds, 2 kernel limits, 14-bit word | 381 592 | the program from its options to its exit status |
| `session_args` | 8 devices | violation | section 5 |
| `cpu_backend` | every x86 machine whose features come in architectural order, 3 states of the system and OSXSAVE off; ARM and LoongArch machines with and without each feature; 9 builds, 5 cores | 44 088 | who dies and who does not; the figures |
| `cpu_backend_os` | the same | violation | section 5 |
| `bench_loop` | every table of `CpuBenchmarks`, 2 iterations (4 where the code multiplies by 100), 4-bit counter | 40 892 | the loops |
| `bench_counts` | the same | violation | section 5 |
| `cl_wrapper` | 3 variables, 2 objects, 1 raw reference each, 2 failures; 2 callers, 2 kernels, 2 types, 3 calls; 3 transfers; symmetry | 722 070 | references, arguments, transfers |
| `cl_default` | 2 threads, both defaults, 6 combinations of build and machine | 325 615 | who gets the default, and that calls return |

**Why the bounds are enough.** *Stub:* a third thread is needed to see a stale
read after one thread has loaded and another has only passed the mutex; a third
function separates "before", "at" and "after" the loop index. *Search:* three
entries give a first, a middle and a last one, and one built-in path may also be
given by the user. *run_kernel:* a second call meets what the first left behind
(events, queue, counters); the third iteration is the first one with a
predecessor and a successor; the warm-up takes longer than any measured launch,
so a sample that contains it is seen. *Geometry and program:* the words are
narrow enough that products overflow and some allocations have a low word of 0,
as 4 GiB has in 32 bits; the round numbers are scaled with them, keeping their
order. Three platforms give one before and one after the one that is chosen; the
command lines have each option before and after each other kind, repeated, and
with an argument below 0 and beyond the devices. Two items of a group are enough
for a slot to be shared. *CPU backend:* the calls are listed in full, and a
benchmark's time takes two values. *Benchmarks:* the tables are complete;
two iterations show what each loop does to the next one, section 4 proves the
properties of a finished loop for any number of iterations, and the counter's
width matters only when a body overwrites it, in which case it takes every value
of the word. *Bindings:* three variables give a source, a target and
an alias that must survive; two failures can fall on the release and the retain
of one assignment; a third functor call can wait for an event of one that was
overlapped; the third transfer uses a buffer that two others have used. In
`cl_default` a thread may call again as soon as it has dropped what it got, so
that calls before, during and after the creation all occur with two threads.

`CHECK_DEADLOCK FALSE` stands where the process returns or exits, or where a
bound ends the calls; `BenchLoop` stutters at its end by an action of its own and
is checked for deadlock. Symmetry is used in `cl_wrapper` alone, which has no
liveness property.

**Bounds that are not in the code:** `MaxCalls` (calls of `run_kernel`),
`MaxOverhead` (idle time of the device), `MaxRaw`, `MaxLocal` and `MaxGroup`
(sizes and groups enumerated, groups executed), `IterCap` (end of the histories `iter` and
`flow`), `Faults` and `Cap` (failing retains and releases, references of raw
handles), `MaxTypes` (argument types of a functor, 32 in the code),
`MaxFunctorCalls`, `MaxTransfers`; the scaled constants of `Geometry`, `SIZES`
and `INTS` (the values of `size_t` and half those of `int`), `RUNS` and `SCALE`
of the benchmarks. `MaxProps` has the value of the code.

**Fairness.** Each thread, the host, the device and the loops keep running: weak
fairness of their steps, which is what an operating system gives a runnable
thread and a working driver gives a queue. `std::mutex` promises no order, so
`Lock` has weak fairness like any other step; that is enough because each thread
enters at most once. In `ClDefault` a thread that spins can leave the loop
only when the state word has changed, so its fairness gives it nothing that the
creator does not do. Nothing is assumed of failures (`ApiFails`, `FinishFails`), and not that the
program makes calls (`Call`, `Begin`) or drops what it got (`Drop`). `Device` is
fair as a whole: a command ends or is aborted, and a driver that hangs is not
modelled.

## 4. Proofs

All are for every value of the constants that satisfies the named assumptions of
the modules. Most of these say that the constants have their types and that
distinguished values are distinct. Beyond that, `MegPeak` assumes that an int
fits a `size_t` and counts the GPUs of a platform; `ClDefault` that there are
finitely many threads; `CpuBackend` what the architecture says of a processor
(one with FMA, AVX2 or AVX512 has AVX, and a system that does not set OSXSAVE
enables no YMM registers). `CpuLoopsRight` and `CpuLoopsMeasured` of
`BenchLoopProofs` take for `Bench` the benchmarks of the code.

- **MegPeakProofs.** `SessionInv` is the inductive invariant of the runners:
  which kernels exist at each point, that the block size is within every limit
  seen so far and that of the device class (`KernelsMade`, `BlockFits`), that the
  local memory argument is of that block size (`LocalArgSet`), which buffers are
  alive. `LaunchLegal` is not inductive alone because the block size was fixed
  when other kernels were looked at. `EnvInv` is that of the constructor, with
  what is known of the two handles at each stage. Their conjunction `ProgInv` is
  preserved by every action (`Invariance`), and gives `LaunchesAreLegal`,
  `TouchesStayInBounds`, `LocalMemoryIsEnough`, `ArgumentSizesConfined`,
  `BuffersAreKept` and `HandlesAreLive`, for every device, every machine and
  every order of failures. `TouchesStayInBounds` rests on the lemmas of
  `GeometryProofs` about dividing down twice. `ChoiceInv` adds which options have
  been read (`LastRead`: the last of a kind among them), and that no platform
  passed so far has a GPU (`SearchInv`): `RefusalsAreConfined`, and the action
  property `ChoiceIsAsked`, for command lines and machines of any length.
  `StatusTellsTheTruth` needs to know at each point of a session that the lines
  printed so far and the lines still to come are the complete report
  (`ReportsInv`); `EndInv` carries that over the ends of the program.
- **StubLoaderProofs.** `IndInv` joins the type invariant with `MutexHeld`
  (the holder is the one inside), `TableFilled` (untouched, filled below `slot`,
  or final) and `Visibility` (what each thread is bound to see). The safety
  properties are not inductive alone: that a thread does not enter twice needs
  that after its unlock it sees the whole table, which needs that the loop is
  finished when the mutex is free. `LoaderInvariant`, `EntersOnce`,
  `AnswersCorrect`, `TableStable` (a resolved pointer never changes, and only the
  holder of the mutex writes), and `Refinement` of `LazyDispatch`, one step lemma
  per action. The second part is the search: `Progress` says for each phase that
  no entry before the current one is a library and what the handle is;
  `SearchInvariant` gives `FirstLibrary` and `OneLibraryOpen`, for lists of any
  length.
- **RunKernelProofs.** `IndInv` gives for each statement the loop index, the
  possible queues, the balance of `used` against `busy`, and the events. The
  point of it: even when the warm-up is still queued, the measured launch stands
  behind it, so its counters are its own. `MeasuresDeviceTime`,
  `LeavesNothingQueued` (the queue is empty at the return, where the caller
  releases the kernel) and `LeaksEvents`, for any number of iterations and any
  times. The products with `ITERS` are in
  lemmas of their own (`Products`, `SumBounds`).
- **BenchLoopProofs.** The proofs about the loop have one premise:
  `NamesWhatItWrites`, that among the registers an operand may get or the caller
  wants back a loop writes only those of its clobber list, and that its body
  leaves the counter alone. From it, for any body, any number of iterations and
  any registers the compiler picks: `ExecutesAsAsked`, `KeepsCallerRegisters`,
  `InputsKept`, and `CountsWhatItExecutes`, that the count returned is right if
  and only if the constant written in the source is the number of groups in the
  body. The inductive invariant adds what the counter and the bound hold after
  `iter` iterations (`Counted`), that nothing is destroyed that the epilogue does
  not restore (`Restorable`) and what became of the inputs (`InputsTracked`). The
  modulus stays a constant: `UpStep` and `DownStep` say that counting does not
  wrap. The second half of the module proves the premise, `CpuBenchNamed`: every
  loop of every table of the four families names what it writes, and its constant
  is the number of its groups, but for `prefetch_very_long`. Each macro has a
  lemma that needs to know only what the callback writes (`ThroughputSound`,
  `LatencyMemSound`, `V7ThroughputMemSound`, `LASound`, `X86Sound`...), the bodies
  written out by hand are gone through position by position (`ByHandSound`,
  `PackedWithin`), and each table has a lemma that puts its entries together.
  `CpuLoopsRight` draws the conclusion for the code: `RunsExactly`,
  `CallerRegistersKept`, `InputOperandsKept` and `CountsOperationsBut`.

  The dataflow is proved in two steps of the same kind. What a body says is put
  in three predicates of `BenchLoop` that mention no state. `Crosses`: an
  instruction reads what an earlier group wrote and its own has not written
  since. `Threaded`: there is a location before each instruction, the same after
  the last as before the first, such that each instruction passes the value on
  or leaves it alone, and one in each group passes it. `Bounded(b, m)`: each
  location has, before each instruction, a bound on the chain it ends, at most
  `m`, that every group of the loop respects. The inductive invariant `FlowKept`
  relates the history to the instructions executed so far: who the last writer
  of a location is (`WritersKnown`), that a crossing has been seen once it was
  executed (`CrossingsSeen`), that a thread has grown once per finished group
  (`ThreadsDeepen`), and that no chain outgrows a bound (`CeilingsHold`). From
  it, for any body that names what it writes and any number of iterations:
  `CrossedIsOfBody`, `ThreadedIsChained` and `BoundedIsNotChained`. Before
  the proof, TLC checked the first parts on all tables (`ThreadsDeepen` on the
  latency loops) and `CeilingsHold` on the latency loops with few registers; no
  run repeats that, since `Paths` and `Ceilings` are large sets.

  Then every entry of every table is shown to be what the lists say. Absence of
  crossings is the hard part, because a body is built from the number of the
  group: `StaysApart` gives every register, and the memory, a home, the one group
  that has it for itself; a group writes what is at home with it or never read,
  and reads what is at home with it or never written. The macros have a lemma
  each and the bodies written out by hand are gone through by position. For each
  chain a thread is named, and for each loop that is none a bound of at most 3,
  below its number of operations.
  `CpuLoopsMeasured` concludes `ThroughputIndependent` and `LatencyChained` for
  any `RUNS`, `SCALE` and number of iterations.
- **ClBindingsProofs.** *References.* `Balance` is the driver's count of an
  object corrected by the failures on record; a release lowers it by one and a
  retain raises it by one whether they succeed or not, so each action changes it
  by exactly the change in the number of holders. With `FlagsRight` (the flag of
  a variable is right for the handle in it) and `Clean` (nothing on record while
  nothing failed) this is inductive: `WrapperInvariance`,
  `EveryReferenceAccounted`, `HeldHandlesAreLive`, and `NothingIsLeaked`, that
  while nothing failed an object nobody holds is gone, an event overwritten by
  `cl::enqueueMapBuffer` excepted. *Functors.* `OwnArgumentsLaunched` needs that
  two calls under way know of each other (`Overlap`), so that each parameter a
  call has been through holds its value or that of a call it knows of
  (`SoFarSet`); any number of callers, kernels and argument types. *Transfers.*
  `SuccessMeansDone` follows the elements step by step: what a map read, what
  the host and the region hold (`RegionRead`, `HostFilled`, `RegionFilled`), and
  how many mappings are open (`MappingsCounted`), whatever failed before.
- **ClDefaultProofs.** `Lone` says that a default is initialised by one call,
  `Settled` that what that call stored does not change any more once another
  thread can have read it, `Counted` that the references of a default are the
  default's own, its holders' and those of the queues being created in it.
  `HandedOutAlive` needs `Counted` at the level of the driver's count, since a
  thread destroys its copy while others still copy theirs. `ReturnsTheFirst` is
  an action property; it holds on every machine, because a result loaded early
  is the default or nothing (`Known`), and nothing only for a caller that waited
  (`MissedIt`). `HandedOutIsAlive`, `ErrorIsTold`; all for any finite set of
  threads, and `ErrorIsTold` where loads and stores keep their order.
- **GeometryProofs.** Over every word width, margin of `log2f`, size and group:
  `DivDownFacts` (whole groups, less than one lost), `LoadsInBounds` (no load
  beyond `FETCH_PER_WI` times the work items, by either scheme),
  `LocalSlotsDisjoint`, `MaxWgSizePositive`; `BuffersAlwaysFit`,
  `FiguresMatchTheWork` and `LoadsCoverOnce`, from the sets that `RoundToPower2`
  and the launch sizes can be; and `ItemsStayApart` for groups of any size, whose
  inductive invariant `ItemOK` gives what an item's six slots and its registers
  hold at each of its steps.
- **CpuBackendProofs.** `DeathsAreListed` rests on `FlagsSound`: a flag is set
  only where the processor has what the test asks for and the system enables
  XMM and YMM. That is weaker than what the AVX512 groups use, which is why they
  are among the deaths listed. `FiguresAreTheirOwn` has two halves. `Readings`
  follows the timer through the two runs of a benchmark. `InOrder` says that
  what is printed are names of benchmarks that come before the next one in the
  list of the build; the lemmas `Listed` and `NamesOnce` show for the tables of
  each architecture that no name comes twice, but for the two of `Twice`.

**Model-checked only:**

- The liveness properties `CallsAnswered`, `CallEnds`, `CallsReturn` and
  `Terminates`.
- That `RoundToPower2` describes the library's `log2f` and `pow`. It is a set of
  possible results, and the theorems start from it.

## 5. Where the code and its own words differ

- `session_args`: the argument `a` of the compute kernels. The half kernels
  declare a `float`, and outside the ARM builds `CompRunner<cl_half>` passes a
  `cl_half`; the double kernels declare a `double`, and in the ARM builds get a
  `float`. A conforming driver answers CL_INVALID_ARG_SIZE, the error that the
  comment at `src/opencl/common.cpp:391` means to avoid, and the session ends.
- `cpu_backend_os`: `feature_detect_avx512` "checks os support" by the XMM and
  YMM bits of XCR0 alone, and sets the flag where ZMM is not enabled.
- `bench_counts`: `prefetch_very_long_throughput` executes 11 `prfm` per
  iteration and counts 16.

Smaller things seen on the way and not made into runs of their own; most are the
named exceptions of a property.

- `src/opencl/common.cpp:450` goes on to the next platform when one has no GPU,
  and is not reached for a platform that says so with CL_DEVICE_NOT_FOUND: the
  check above it ends the process (`RefusesOnlyHere`).
- The error stubs do not write `errcode_ret`, and `err_num` is uninitialised at
  its first check (`RunsOnLiveHandles`).
- The comment at `src/cpu/common.h:144` starts a loop at register 6 to avoid
  dependences; `mlal_s16_lane` reads d12 to d15, halves of the q6 and q7 that it
  writes (`ThroughputIndependent`). The comment at `src/cpu/common.h:67`
  describes the latency loop as a chain; the loops of `Unchained` are none
  (`LatencyChained`).
- The latency loop of `smlal_8b_dupd` uses `addp` in place of `smlal`; that of
  `ldd_fmlaq_lane_1_4_sep` loads x0 in place of d1; the throughput loop of the
  SSE `vfmadd132ps` uses `vfnmadd132ps`; `xvfadd.s` and `xvfadd.d` are measured
  twice (`FiguresAreOwn`); the LoongArch loops modify a register declared an
  input (`InputOperandsKept`).
- `cl.hpp`: the note at line 2644 says that all calls of `getDefault` return the
  context of the first. Where the state word is an atomic it has no initialiser
  (line 2821), so that overlapping first calls each create one (`Single`); where
  order is not kept a caller that waited may get none, as no fence follows the
  loops at lines 2661 and 5607 (`MissedIt`), and be told of no error; an
  exception out of the creation makes every later call spin (`thrown`);
  `cl::copy` ignores what `endEvent.wait()` returns (`unheard`).

## 6. Not modelled

- *Values and wording:* what the kernels and benchmarks compute, the content of
  copied buffers, the format of the lines, logging.
- *Build scripts.* Their effect on the sources is in the constants `Builds`.
- *libcpuinfo,* an empty submodule: what it may answer is the constant `Cores`.
- *The rest of the headers.* `cl.hpp` has one-line wrappers of single OpenCL
  calls, images, samplers and programs, which keep no state of their own beyond
  the handle that `ClWrapper` models; the files under `MCL` are declarations.
- *Letters and systems.* The option of `-d` is taken as it is after `tolower`
  (`main.cpp:46`), and a machine under macOS, where `cpu_set_affinity` warns and
  pins nothing (`backend.cpp:61`), is left out.
- *A driver or device that hangs,* and files that change during the search.

One thing could still be added: `LibrarySearch` in place of the atomic
`OpenLibrary` of `StubLoader`. No other step of the loader can happen in between,
as the mutex is held, and the search shares no state with the table.
