----------------------------- MODULE MegPeakProofs ----------------------------
(***************************************************************************)
(* The safety of the program with OpenCL for every device, every machine   *)
(* and every command line.  SessionInv is the inductive invariant of the   *)
(* runners, EnvInv that of the constructor around them; ChoiceInv is what  *)
(* is known of the device while it is being chosen, RefusalInv of one that *)
(* is refused, and EndInv of the lines printed and of the end.             *)
(***************************************************************************)
EXTENDS MegPeak, GeometryProofs, SequenceTheorems

DeviceType == [item : Nat, vendor : {"qualcomm", "nvidia", "other"}, cus : Nat,
               alloc : Nat, half : BOOLEAN, double : BOOLEAN]

Busy == {"buffers", "build", "kernel", "launch", "next"}

SessionTyped ==
  /\ build \in Builds /\ dev \in DeviceType
  /\ r \in 1 .. 6
  /\ w \in Nat \ {0} /\ k \in Nat \ {0}
  /\ elems \in Nat /\ block \in Nat \ {0}

Control ==
  /\ pc \in {"runner"} \cup Busy \cup Dead
  /\ why = "argument size" => pc = "exited"

\* The position of a runner at work is within its widths and kernels.
Positions ==
  /\ pc \in Busy => w <= Len(Widths(runner)) /\ k <= Len(Kernels(runner))
  /\ pc \in {"buffers", "build", "next"} => k = 1

\* The kernels alive are those made so far for this width, and the block size
\* is within every limit among them.
KernelsMade ==
  /\ pc \in {"runner", "buffers", "build", "next", "done"} => DOMAIN kernels = {}
  /\ pc = "kernel" => DOMAIN kernels = {Kernels(runner)[j] : j \in 1 .. k - 1}
  /\ pc = "launch" =>
       DOMAIN kernels = {Kernels(runner)[j] : j \in 1 .. Len(Kernels(runner))}
  /\ \A x \in DOMAIN kernels : kernels[x] \in Nat /\ block <= kernels[x]

BlockFits == pc \in Busy => block <= MaxWgSize(dev.item, dev.vendor)

LocalArgSet ==
  pc = "launch" /\ runner = "local" => localArg = LocalBytes(block)

\* The buffers of the first n runners on device d.
Alive(n, d) ==
  UNION {{Runners[j]} \X Buffers(Runners[j]) :
           j \in {i \in 1 .. n : Supported(Runners[i], d)}}

BuffersAlive ==
  /\ pc \in Busy => Supported(runner, dev)
  /\ pc \in {"runner", "buffers"} => buffers = Alive(r - 1, dev)
  /\ pc \in Busy \ {"buffers"} => buffers = Alive(r, dev)
  /\ pc = "done" => buffers = Alive(r, dev) /\ r = 6
  /\ pc \in {"runner", "done"} => program = FALSE

SessionInv ==
  /\ SessionTyped
  /\ Control
  /\ Positions
  /\ KernelsMade
  /\ BlockFits
  /\ LocalArgSet
  /\ BuffersAlive

-------------------------------------------------------------------------------

LEMMA PositiveMultiple ==
  ASSUME NEW n \in Nat, NEW l \in Nat \ {0}
  PROVE  (n * l) % l = 0
  <1>1. n * l \in Nat /\ n * l = l * n
    OBVIOUS
  <1>2. n * l = l * ((n * l) \div l) + ((n * l) % l) /\ (n * l) % l \in 0 .. l - 1
    BY <1>1
  <1> DEFINE q == (n * l) \div l
             m == (n * l) % l
  <1>3. q \in Int /\ m \in 0 .. l - 1 /\ l * n = l * q + m
    BY <1>1, <1>2
  <1> HIDE DEF q, m
  <1>4. l * (n - q) = m
    BY <1>3
  <1>5. n - q >= 1 => l * (n - q) >= l
    BY <1>3
  <1>6. n - q <= -1 => l * (n - q) < 0
    BY <1>3
  <1>7. n - q = 0
    BY <1>3, <1>4, <1>5, <1>6
  <1>8. m = 0
    BY <1>3, <1>4, <1>7
  <1> QED
    BY <1>8 DEF m

\* Whatever sizes a runner computes, they are natural numbers.
LEMMA ElemsNat ==
  ASSUME dev \in DeviceType, NEW x, NEW e \in Elems(x)
  PROVE  e \in Nat
  <1>1. dev.item \in Nat /\ dev.cus \in Nat /\ dev.alloc \in Nat
    BY DEF DeviceType
  <1>2. CASE x = "local"
    BY <1>2, SizesAssumption DEF Elems
  <1>3. CASE x = "global"
    BY <1>1, <1>3, GlobalElemsFit DEF Elems
  <1>4. CASE x # "local" /\ x # "global"
    <2> DEFINE wg == MaxWgSize(dev.item, dev.vendor)
    <2>1. wg \in Nat /\ ElemSize(x) \in {2, 4, 8}
      BY <1>1, MaxWgSizePositive DEF ElemSize
    <2>2. e \in CompElems(dev.cus, wg, ElemSize(x), dev.alloc)
      BY <1>4 DEF Elems
    <2> HIDE DEF wg
    <2> QED
      BY <1>1, <2>1, <2>2, CompElemsFit
  <1> QED
    BY <1>2, <1>3, <1>4

LEMMA RunnersAre ==
  /\ Len(Runners) = 6
  /\ \A j \in 1 .. 6 : Runners[j] \in {"local", "global", "int", "float", "half", "double"}
  BY DEF Runners

LEMMA WidthsAre ==
  ASSUME NEW x
  PROVE  /\ Len(Widths(x)) \in {3, 5}
         /\ \A j \in 1 .. Len(Widths(x)) : Widths(x)[j] \in Nat \ {0}
         /\ Len(Kernels(x)) \in {1, 2}
         /\ x # "global" => Len(Kernels(x)) = 1
  <1>1. CASE x = "local"
    BY <1>1 DEF Widths, Kernels
  <1>2. CASE x = "global"
    BY <1>2 DEF Widths, Kernels
  <1>3. CASE x # "local" /\ x # "global"
    BY <1>3 DEF Widths, Kernels
  <1> QED
    BY <1>1, <1>2, <1>3

\* The buffers alive grow by those of the next runner, or not at all.
LEMMA AliveNext ==
  ASSUME NEW n \in Nat \ {0}, NEW d
  PROVE  /\ Supported(Runners[n], d) =>
              Alive(n, d) = Alive(n - 1, d) \cup ({Runners[n]} \X Buffers(Runners[n]))
         /\ ~Supported(Runners[n], d) => Alive(n, d) = Alive(n - 1, d)
  <1>1. 1 .. n = (1 .. n - 1) \cup {n}
    OBVIOUS
  <1> DEFINE up(m) == {i \in 1 .. m : Supported(Runners[i], d)}
             bufs(j) == {Runners[j]} \X Buffers(Runners[j])
  <1>2. /\ Supported(Runners[n], d) => up(n) = up(n - 1) \cup {n}
        /\ ~Supported(Runners[n], d) => up(n) = up(n - 1)
    BY <1>1
  <1>3. \A m : Alive(m, d) = UNION {bufs(j) : j \in up(m)}
    BY DEF Alive
  <1> HIDE DEF up, bufs
  <1>4. UNION {bufs(j) : j \in up(n - 1) \cup {n}}
          = (UNION {bufs(j) : j \in up(n - 1)}) \cup bufs(n)
    OBVIOUS
  <1>5. bufs(n) = {Runners[n]} \X Buffers(Runners[n])
    BY DEF bufs
  <1>6. CASE Supported(Runners[n], d)
    BY <1>2, <1>3, <1>4, <1>5, <1>6
  <1>7. CASE ~Supported(Runners[n], d)
    BY <1>2, <1>3, <1>7
  <1> QED
    BY <1>6, <1>7

LEMMA AliveNone ==
  ASSUME NEW d
  PROVE  Alive(0, d) = {}
  <1>1. {i \in 1 .. 0 : Supported(Runners[i], d)} = {}
    OBVIOUS
  <1> QED
    BY <1>1 DEF Alive
-------------------------------------------------------------------------------

\* The session starts in SessionInv ...
LEMMA FreshSession ==
  ASSUME Fresh, build \in Builds, dev \in DeviceType
  PROVE  SessionInv
  <1>1. r = 1 /\ Alive(r - 1, dev) = {}
    BY AliveNone DEF Fresh
  <1> QED
    BY <1>1 DEF Fresh, SessionInv, SessionTyped, Control, Positions, KernelsMade, BlockFits,
      LocalArgSet, BuffersAlive, Busy, NoKernels

\* ... and every call of a runner keeps it.
LEMMA SessionStep ==
  ASSUME SessionInv, Next
  PROVE  SessionInv'
  <1>0. /\ runner \in {"local", "global", "int", "float", "half", "double"}
        /\ Len(Widths(runner)) \in Nat /\ Len(Widths(runner)) >= 1
        /\ Len(Kernels(runner)) \in Nat /\ Len(Kernels(runner)) >= 1
        /\ dev \in DeviceType /\ r \in 1 .. 6
        /\ w \in Nat \ {0} /\ k \in Nat \ {0}
    <2>1. dev \in DeviceType /\ r \in 1 .. 6 /\ w \in Nat \ {0} /\ k \in Nat \ {0}
      BY DEF SessionInv, SessionTyped
    <2>2. runner \in {"local", "global", "int", "float", "half", "double"}
      BY <2>1, RunnersAre DEF runner
    <2>3. Len(Widths(runner)) \in {3, 5} /\ Len(Kernels(runner)) \in {1, 2}
      BY WidthsAre
    <2> QED
      BY <2>1, <2>2, <2>3
  <1>inv. /\ SessionTyped /\ Control /\ Positions /\ KernelsMade /\ BlockFits
          /\ LocalArgSet /\ BuffersAlive
    BY DEF SessionInv
  <1>1. CASE SkipRunner
    <2>1. /\ pc = "runner" /\ ~Supported(Runners[r], dev)
          /\ UNCHANGED <<build, dev, w, k, elems, block, buffers, program, kernels>>
          /\ \/ r < 6 /\ r' = r + 1 /\ pc' = "runner" /\ why' = why
             \/ r = 6 /\ r' = r /\ pc' = "done" /\ why' = "finished"
      BY <1>0, <1>1, RunnersAre DEF SkipRunner, Skipped, runner
    <2>2. Alive(r, dev) = Alive(r - 1, dev)
      BY <1>0, <2>1, AliveNext
    <2>3. SessionTyped'
      BY <1>inv, <2>1 DEF SessionTyped
    <2>4. Control'
      BY <1>inv, <2>1 DEF Control, Dead
    <2>5. Positions' /\ BlockFits' /\ LocalArgSet'
      BY <2>1 DEF Positions, BlockFits, LocalArgSet, Busy
    <2>6. KernelsMade'
      BY <1>inv, <2>1 DEF KernelsMade
    <2>7. BuffersAlive'
      <3>1. CASE r < 6
        <4>1. r' - 1 = r
          BY <1>0, <2>1, <3>1
        <4> QED
          BY <1>inv, <2>1, <2>2, <3>1, <4>1 DEF BuffersAlive, Busy
      <3>2. CASE r = 6
        BY <1>inv, <2>1, <2>2, <3>2 DEF BuffersAlive, Busy
      <3> QED
        BY <1>0, <3>1, <3>2
    <2> QED
      BY <2>3, <2>4, <2>5, <2>6, <2>7 DEF SessionInv
  <1>2. CASE StartRunner
    <2>1. elems' \in Nat
      BY <1>0, <1>2, ElemsNat DEF StartRunner
    <2>2. /\ pc = "runner" /\ pc' = "buffers" /\ w' = 1 /\ k' = 1
          /\ block' = MaxWgSize(dev.item, dev.vendor)
          /\ Supported(runner, dev)
          /\ UNCHANGED <<build, dev, r, buffers, program, kernels, why>>
      BY <1>2 DEF StartRunner, Skipped
    <2>3. block' \in Nat \ {0}
      <3>1. dev.item \in Nat
        BY <1>0 DEF DeviceType
      <3> QED
        BY <2>2, <3>1, MaxWgSizePositive
    <2>4. runner' = runner
      BY <2>2 DEF runner
    <2>5. SessionTyped'
      BY <1>inv, <2>1, <2>2, <2>3 DEF SessionTyped
    <2>6. Control'
      BY <1>inv, <2>2 DEF Control, Busy
    <2>7. Positions'
      BY <1>0, <2>2, <2>4 DEF Positions
    <2>8. KernelsMade'
      BY <1>inv, <2>2 DEF KernelsMade
    <2>9. BlockFits' /\ LocalArgSet'
      BY <2>2, <2>3 DEF BlockFits, LocalArgSet
    <2>10. BuffersAlive'
      BY <1>inv, <2>2, <2>4 DEF BuffersAlive, Busy
    <2> QED
      BY <2>5, <2>6, <2>7, <2>8, <2>9, <2>10 DEF SessionInv
  <1>3. CASE CreateBuffers
    <2>1. /\ pc = "buffers" /\ pc' = "build"
          /\ buffers' = buffers \cup ({runner} \X Buffers(runner))
          /\ UNCHANGED <<build, dev, r, w, k, elems, block, program, kernels, why>>
      BY <1>3 DEF CreateBuffers
    <2>2. runner' = runner
      BY <2>1 DEF runner
    <2>3. buffers' = Alive(r, dev)
      BY <1>0, <1>inv, <2>1, AliveNext DEF BuffersAlive, Busy, runner
    <2>4. SessionTyped'
      BY <1>inv, <2>1 DEF SessionTyped
    <2>5. Control'
      BY <1>inv, <2>1 DEF Control, Busy
    <2>6. Positions' /\ BlockFits' /\ LocalArgSet'
      BY <1>inv, <2>1, <2>2 DEF Positions, BlockFits, LocalArgSet, Busy
    <2>7. KernelsMade'
      BY <1>inv, <2>1 DEF KernelsMade
    <2>8. BuffersAlive'
      BY <1>inv, <2>1, <2>2, <2>3 DEF BuffersAlive, Busy
    <2> QED
      BY <2>4, <2>5, <2>6, <2>7, <2>8 DEF SessionInv
  <1>4. CASE pc' = "exited" /\ UNCHANGED <<build, dev, r, w, k, elems, block, kernels>>
    <2>1. SessionTyped'
      BY <1>inv, <1>4 DEF SessionTyped
    <2>2. Control' /\ Positions' /\ BlockFits' /\ LocalArgSet' /\ BuffersAlive'
      BY <1>4 DEF Control, Dead, Positions, BlockFits, LocalArgSet, BuffersAlive, Busy
    <2>3. KernelsMade'
      BY <1>inv, <1>4 DEF KernelsMade
    <2> QED
      BY <2>1, <2>2, <2>3 DEF SessionInv
  <1>5. CASE BuildProgram
    <2>1. /\ pc = "build" /\ pc' = "kernel"
          /\ UNCHANGED <<build, dev, r, w, k, elems, block, buffers, kernels, why>>
      BY <1>5 DEF BuildProgram
    <2>2. runner' = runner
      BY <2>1 DEF runner
    <2>3. SessionTyped'
      BY <1>inv, <2>1 DEF SessionTyped
    <2>4. Control'
      BY <1>inv, <2>1 DEF Control, Busy
    <2>5. Positions' /\ BlockFits' /\ LocalArgSet'
      BY <1>inv, <2>1, <2>2 DEF Positions, BlockFits, LocalArgSet, Busy
    <2>6. KernelsMade'
      <3>1. {Kernels(runner)[j] : j \in 1 .. k - 1} = {}
        BY <1>inv, <2>1 DEF Positions
      <3> QED
        BY <1>inv, <2>1, <2>2, <3>1 DEF KernelsMade
    <2>7. BuffersAlive'
      BY <1>inv, <2>1, <2>2 DEF BuffersAlive, Busy
    <2> QED
      BY <2>3, <2>4, <2>5, <2>6, <2>7 DEF SessionInv
  <1>6. CASE CreateKernel
    <2>1. PICK limit \in KernelLimits :
            /\ block' = Shrunk(limit)
            /\ kernels' = [x \in DOMAIN kernels \cup {Kernels(runner)[k]} |->
                             IF x = Kernels(runner)[k] THEN limit ELSE kernels[x]]
      BY <1>6 DEF CreateKernel
    <2>2. limit \in Nat \ {0} /\ block \in Nat \ {0}
      BY <1>inv, SessionAssumption DEF SessionTyped
    <2>3. block' \in Nat \ {0} /\ block' <= block /\ block' <= limit
      BY <2>1, <2>2 DEF Shrunk, Smaller
    <2>4. \A x \in DOMAIN kernels' : kernels'[x] \in Nat /\ block' <= kernels'[x]
      BY <1>inv, <2>1, <2>2, <2>3 DEF KernelsMade
    <2>5. /\ pc = "kernel" /\ pc' \in {"kernel", "launch", "exited"}
          /\ UNCHANGED <<build, dev, r, w, elems, buffers, program>>
          /\ localArg' = IF runner = "local" THEN LocalBytes(block') ELSE 0
          /\ \/ pc' = "exited" /\ k' = k
             \/ /\ k < Len(Kernels(runner)) /\ k' = k + 1
                /\ pc' = "kernel" /\ why' = why
             \/ /\ ~(k < Len(Kernels(runner))) /\ k' = 1
                /\ pc' = "launch" /\ why' = why
      BY <1>6 DEF CreateKernel
    <2>6. runner' = runner /\ width' = width
      BY <2>5 DEF runner, width
    <2>7. k <= Len(Kernels(runner))
      BY <1>inv, <2>5 DEF Positions, Busy
    <2>8. DOMAIN kernels' = {Kernels(runner)[j] : j \in 1 .. k}
      <3>1. 1 .. k = (1 .. k - 1) \cup {k}
        BY <1>0
      <3>2. DOMAIN kernels = {Kernels(runner)[j] : j \in 1 .. k - 1}
        BY <1>inv, <2>5 DEF KernelsMade
      <3>3. DOMAIN kernels' = DOMAIN kernels \cup {Kernels(runner)[k]}
        BY <2>1
      <3> QED
        BY <3>1, <3>2, <3>3
    <2>9. SessionTyped'
      <3>1. k' \in Nat \ {0}
        BY <1>0, <2>5
      <3> QED
        BY <1>inv, <2>3, <2>5, <3>1 DEF SessionTyped
    <2>10. Control'
      BY <1>inv, <2>5 DEF Control, Busy, Dead
    <2>11. Positions'
      <3>1. pc' # "exited" => k' <= Len(Kernels(runner))
        BY <1>0, <2>5
      <3>2. w <= Len(Widths(runner))
        BY <1>inv, <2>5 DEF Positions, Busy
      <3> QED
        BY <2>5, <2>6, <3>1, <3>2 DEF Positions, Busy
    <2>12. KernelsMade'
      <3>1. pc' = "kernel" => k' - 1 = k
        BY <1>0, <2>5
      <3>2. pc' = "launch" => k = Len(Kernels(runner))
        BY <1>0, <2>5, <2>7
      <3> QED
        BY <2>4, <2>5, <2>6, <2>8, <3>1, <3>2 DEF KernelsMade
    <2>13. BlockFits'
      <3>1. block <= MaxWgSize(dev.item, dev.vendor)
        BY <1>inv, <2>5 DEF BlockFits, Busy
      <3>2. dev.item \in Nat
        BY <1>0 DEF DeviceType
      <3>3. MaxWgSize(dev.item, dev.vendor) \in Nat
        BY <3>2, MaxWgSizePositive
      <3> QED
        BY <2>2, <2>3, <2>5, <3>1, <3>3 DEF BlockFits
    <2>14. LocalArgSet'
      BY <2>5, <2>6 DEF LocalArgSet, LocalBytes
    <2>15. BuffersAlive'
      BY <1>inv, <2>5, <2>6 DEF BuffersAlive, Busy
    <2> QED
      BY <2>9, <2>10, <2>11, <2>12, <2>13, <2>14, <2>15 DEF SessionInv
  <1>7. CASE Launch
    <2>1. /\ pc = "launch"
          /\ UNCHANGED <<build, dev, r, w, elems, block, buffers, program, localArg, why>>
          /\ \/ k < Len(Kernels(runner)) /\ k' = k + 1 /\ pc' = pc /\ kernels' = kernels
             \/ k' = 1 /\ pc' = "next" /\ kernels' = NoKernels
      BY <1>7 DEF Launch
    <2>2. runner' = runner /\ width' = width
      BY <2>1 DEF runner, width
    <2>3. SessionTyped'
      <3>1. k' \in Nat \ {0}
        BY <1>0, <2>1
      <3> QED
        BY <1>inv, <2>1, <3>1 DEF SessionTyped
    <2>4. Control'
      BY <1>inv, <2>1 DEF Control, Busy
    <2>5. Positions'
      <3>1. k' <= Len(Kernels(runner)) /\ (pc' = "next" => k' = 1)
        BY <1>0, <2>1
      <3> QED
        BY <1>inv, <2>1, <2>2, <3>1 DEF Positions, Busy
    <2>6. KernelsMade'
      BY <1>inv, <2>1, <2>2 DEF KernelsMade, NoKernels
    <2>7. BlockFits' /\ LocalArgSet' /\ BuffersAlive'
      BY <1>inv, <2>1, <2>2 DEF BlockFits, LocalArgSet, LocalBytes, BuffersAlive, Busy
    <2> QED
      BY <2>3, <2>4, <2>5, <2>6, <2>7 DEF SessionInv
  <1>8. CASE NextWidth
    <2>1. /\ pc = "next" /\ pc' = "kernel" /\ w' = w + 1 /\ w < Len(Widths(runner))
          /\ UNCHANGED <<build, dev, r, k, elems, block, buffers, program, kernels, why>>
      BY <1>8 DEF NextWidth, MoreWidths
    <2>2. runner' = runner
      BY <2>1 DEF runner
    <2>3. w' \in Nat \ {0} /\ w' <= Len(Widths(runner))
      BY <1>0, <2>1
    <2>4. SessionTyped'
      BY <1>inv, <2>1, <2>3 DEF SessionTyped
    <2>5. Control'
      BY <1>inv, <2>1 DEF Control, Busy
    <2>6. Positions'
      BY <1>inv, <2>1, <2>2, <2>3 DEF Positions, Busy
    <2>7. KernelsMade'
      <3>1. {Kernels(runner)[j] : j \in 1 .. k - 1} = {}
        BY <1>inv, <2>1 DEF Positions
      <3> QED
        BY <1>inv, <2>1, <2>2, <3>1 DEF KernelsMade
    <2>8. BlockFits' /\ LocalArgSet' /\ BuffersAlive'
      BY <1>inv, <2>1, <2>2 DEF BlockFits, LocalArgSet, BuffersAlive, Busy
    <2> QED
      BY <2>4, <2>5, <2>6, <2>7, <2>8 DEF SessionInv
  <1>9. CASE FinishRunner
    <2>1. /\ pc = "next" /\ program' = FALSE
          /\ UNCHANGED <<build, dev, w, k, elems, block, buffers, kernels>>
          /\ \/ r < 6 /\ r' = r + 1 /\ pc' = "runner" /\ why' = why
             \/ r = 6 /\ r' = r /\ pc' = "done" /\ why' = "finished"
      BY <1>0, <1>9, RunnersAre DEF FinishRunner, ProgramAfterRunner
    <2>2. SessionTyped'
      BY <1>inv, <2>1 DEF SessionTyped
    <2>3. Control'
      BY <1>inv, <2>1 DEF Control, Dead
    <2>4. Positions' /\ BlockFits' /\ LocalArgSet'
      BY <2>1 DEF Positions, BlockFits, LocalArgSet, Busy
    <2>5. KernelsMade'
      BY <1>inv, <2>1 DEF KernelsMade
    <2>6. BuffersAlive'
      <3>1. CASE r < 6
        <4>1. r' - 1 = r
          BY <1>0, <2>1, <3>1
        <4> QED
          BY <1>inv, <2>1, <3>1, <4>1 DEF BuffersAlive, Busy
      <3>2. CASE r = 6
        BY <1>inv, <2>1, <3>2 DEF BuffersAlive, Busy
      <3> QED
        BY <1>0, <3>1, <3>2
    <2> QED
      BY <2>2, <2>3, <2>4, <2>5, <2>6 DEF SessionInv
  <1>10. CASE BufferRefused \/ LaunchRefused \/ ApiFails
    BY <1>4, <1>10 DEF BufferRefused, LaunchRefused, ApiFails
  <1> QED
    BY <1>1, <1>2, <1>3, <1>5, <1>6, <1>7, <1>8, <1>9, <1>10 DEF Next
-------------------------------------------------------------------------------

LEMMA SessionKept ==
  ASSUME SessionInv,
         UNCHANGED <<build, dev, pc, r, w, k, elems, block, buffers, program, kernels,
                     localArg>>,
         why' = "argument size" => why = "argument size"
  PROVE  SessionInv'
  <1>1. /\ SessionTyped /\ Control /\ Positions /\ KernelsMade /\ BlockFits
        /\ LocalArgSet /\ BuffersAlive
    BY DEF SessionInv
  <1>2. runner' = runner /\ width' = width
    BY DEF runner, width
  <1>3. SessionTyped' /\ Control'
    BY <1>1 DEF SessionTyped, Control
  <1>4. Positions' /\ KernelsMade'
    BY <1>1, <1>2 DEF Positions, KernelsMade
  <1>5. BlockFits' /\ LocalArgSet' /\ BuffersAlive'
    BY <1>1, <1>2 DEF BlockFits, LocalArgSet, LocalBytes, BuffersAlive
  <1> QED
    BY <1>3, <1>4, <1>5 DEF SessionInv

LaunchSafe == LaunchLegal /\ TouchesInBounds /\ LocalMemoryMatches

LEMMA LaunchKept ==
  ASSUME LaunchSafe, UNCHANGED <<launch, dev>>
  PROVE  LaunchSafe'
  BY DEF LaunchSafe, LaunchLegal, TouchesInBounds, LocalMemoryMatches

\* Loading FETCH_PER_WI vectors per item stays within the elements they were
\* counted from.
LEMMA VectorsFit ==
  ASSUME NEW e \in Nat, NEW v \in Nat \ {0}, NEW g \in Nat,
         g <= (e \div v) \div FETCH_PER_WI
  PROVE  g * FETCH_PER_WI * v <= e
  <1> DEFINE q == e \div v
  <1>1. q \in Nat /\ e = v * q + (e % v) /\ e % v \in 0 .. v - 1
    OBVIOUS
  <1>2. v * q <= e
    BY <1>1
  <1> HIDE DEF q
  <1>3. g * 16 <= q
    BY <1>1 DEF FETCH_PER_WI, q
  <1> DEFINE h == g * 16
  <1>4. h \in Nat /\ h <= q
    BY <1>3
  <1> HIDE DEF h
  <1>5. h * v <= q * v /\ q * v = v * q
    BY <1>1, <1>4
  <1>6. h * v <= e
    BY <1>1, <1>2, <1>4, <1>5
  <1> QED
    BY <1>6 DEF h, FETCH_PER_WI

\* A launch asks for a group that its own kernel and the device allow, stays
\* within the buffers, and has the local memory it needs.
LEMMA LaunchIsSafe ==
  ASSUME SessionInv, Launch
  PROVE  LaunchSafe'
  <1> DEFINE g == DivDown(Items, block)
  <1>1. /\ launch' = [local |-> block, items |-> Items, global |-> g,
                      limit |-> kernels[Kernels(runner)[k]],
                      runner |-> runner, width |-> width, elems |-> elems,
                      localArg |-> localArg]
        /\ dev' = dev /\ g > 0 /\ pc = "launch"
    BY DEF Launch, Launched
  <1>2. /\ SessionTyped /\ Positions /\ KernelsMade /\ BlockFits /\ LocalArgSet
        /\ block \in Nat \ {0} /\ elems \in Nat
        /\ k \in Nat \ {0} /\ w \in Nat \ {0}
    BY DEF SessionInv, SessionTyped
  <1>3. width \in Nat \ {0}
    <2>1. w <= Len(Widths(runner))
      BY <1>1, <1>2 DEF Positions, Busy
    <2>2. Len(Widths(runner)) \in {3, 5}
      BY WidthsAre
    <2>3. w \in 1 .. Len(Widths(runner))
      BY <1>2, <2>1, <2>2
    <2> QED
      BY <2>3, WidthsAre DEF width
  <1>4. Items \in Nat
    <2>1. elems \div width \in Nat
      BY <1>2, <1>3
    <2>2. (elems \div width) \div FETCH_PER_WI \in Nat
      BY <2>1 DEF FETCH_PER_WI
    <2> QED
      BY <1>2, <2>1, <2>2 DEF Items
  <1>5. g \in Nat /\ g <= Items /\ \E n \in Nat : g = n * block
    BY <1>2, <1>4, DivDownFacts
  <1>6. g % block = 0
    BY <1>2, <1>5, PositiveMultiple
  <1>7. block <= kernels[Kernels(runner)[k]]
    <2>1. k <= Len(Kernels(runner))
      BY <1>1, <1>2 DEF Positions, Busy
    <2>2. Len(Kernels(runner)) \in {1, 2}
      BY WidthsAre
    <2>3. k \in 1 .. Len(Kernels(runner))
      BY <1>2, <2>1, <2>2
    <2>4. Kernels(runner)[k] \in DOMAIN kernels
      BY <1>1, <1>2, <2>3 DEF KernelsMade
    <2> QED
      BY <1>2, <2>4 DEF KernelsMade
  <1>8. block <= MaxWgSize(dev.item, dev.vendor)
    BY <1>1, <1>2 DEF BlockFits, Busy
  <1> HIDE DEF g
  <1>9. LaunchLegal'
    BY <1>1, <1>6, <1>7, <1>8 DEF LaunchLegal
  <1>10. TouchesInBounds'
    <2>1. CASE runner = "global"
      <3>1. g <= (elems \div width) \div FETCH_PER_WI
        BY <1>5, <2>1 DEF Items
      <3>2. g * FETCH_PER_WI * width <= elems
        BY <1>2, <1>3, <1>5, <3>1, VectorsFit
      <3> QED
        BY <1>1, <2>1, <3>2 DEF TouchesInBounds
    <2>2. CASE runner = "local"
      <3>1. g <= elems \div width
        BY <1>5, <2>2 DEF Items
      <3>2. elems \div width <= elems
        BY <1>2, <1>3
      <3>3. elems \div width \in Nat
        BY <1>2, <1>3
      <3>4. g <= elems
        BY <1>2, <1>5, <3>1, <3>2, <3>3
      <3> QED
        BY <1>1, <2>2, <3>4 DEF TouchesInBounds
    <2>3. CASE runner # "local" /\ runner # "global"
      <3>1. g <= elems
        BY <1>5, <2>3 DEF Items
      <3>2. elems > 0
        BY <1>1, <1>2, <1>5, <3>1
      <3> QED
        BY <1>1, <2>3, <3>2 DEF TouchesInBounds
    <2> QED
      BY <2>1, <2>2, <2>3
  <1>11. LocalMemoryMatches'
    <2> SUFFICES ASSUME runner = "local"
                 PROVE  localArg = block * LOCAL_SLOTS * width * 4
      BY <1>1 DEF LocalMemoryMatches
    <2>1. localArg = block * width * 4 * LOCAL_SLOTS
      BY <1>1, <1>2 DEF LocalArgSet, LocalBytes
    <2> QED
      BY <1>2, <1>3, <2>1 DEF LOCAL_SLOTS
  <1> QED
    BY <1>9, <1>10, <1>11 DEF LaunchSafe
-------------------------------------------------------------------------------

Searching == {"options", "cpu", "platforms", "count", "list", "choose"}
Making    == {"context", "queue", "info"}

\* Until the device info is read no runner has made a call.
EnvFresh ==
  /\ stage \in Searching \cup Making \cup {"run", "ended"}
  /\ stage \in Searching \cup Making => Fresh

\* The list of GPUs, and the index that has passed the assertion.
EnvTyped ==
  /\ machine \in Seq([gpus : Seq(Gpus), strict : BOOLEAN])
  /\ deviceIds \in Seq(Gpus) /\ devIdx \in Nat
  /\ stage = "count" => platform \in DOMAIN machine
  /\ stage = "list" => platform \in DOMAIN machine
  /\ stage \in Making => devIdx < Len(deviceIds)

CtxMade   == ctx = "live" \/ "clCreateContext" \in missing
QueueMade == queue = "live" \/ "clCreateCommandQueue" \in missing

\* How far the handles are known to be live.
Handles ==
  /\ stage \in {"queue", "info", "run"} => CtxMade
  /\ stage \in {"info", "run"} => QueueMade
  /\ stage = "run" /\ pc \in Busy \ {"buffers"} => ctx = "live"
  /\ stage = "run" /\ pc \in {"kernel", "launch", "next"} => queue = "live"
  /\ launch # NoLaunch => ctx \in {"live", "released"} /\ queue \in {"live", "released"}

EnvInv ==
  /\ EnvFresh
  /\ EnvTyped
  /\ Handles

ProgInv == SessionInv /\ EnvInv /\ LaunchSafe /\ ArgumentSizeConfined

LEMMA DevInfoType ==
  ASSUME NEW d \in Gpus
  PROVE  DevInfo(d) \in DeviceType
  BY DEF Gpus, DevInfo, DoubleSupported, DeviceType

LEMMA ProgInvInit ==
  ASSUME ProgInit
  PROVE  ProgInv
  <1>1. Fresh /\ build \in Builds /\ dev = NoDevice /\ stage = "options" /\ devIdx = 0
        /\ machine \in Machines /\ deviceIds = <<>> /\ launch = NoLaunch /\ why = "running"
    BY DEF ProgInit, EnvInit, Fresh
  <1>2. dev \in DeviceType
    BY <1>1 DEF NoDevice, DeviceType
  <1>3. SessionInv
    BY <1>1, <1>2, FreshSession
  <1>4. EnvFresh
    BY <1>1 DEF EnvFresh, Searching
  <1>5. EnvTyped
    <2>1. machine \in Seq([gpus : Seq(Gpus), strict : BOOLEAN])
      BY <1>1, MachinesAssumption
    <2>2. deviceIds \in Seq(Gpus) /\ devIdx \in Nat
      BY <1>1
    <2> QED
      BY <1>1, <2>1, <2>2 DEF EnvTyped, Making
  <1>6. Handles
    BY <1>1 DEF Handles
  <1>7. LaunchSafe
    BY <1>1 DEF LaunchSafe, LaunchLegal, TouchesInBounds, LocalMemoryMatches
  <1>8. ArgumentSizeConfined
    BY <1>1 DEF ArgumentSizeConfined
  <1> QED
    BY <1>3, <1>4, <1>5, <1>6, <1>7, <1>8 DEF ProgInv, EnvInv

\* A step outside the runners that leaves their variables alone, or gives a
\* reason for the end.
LEMMA OutsideStep ==
  ASSUME ProgInv, EnvTyped', EnvFresh', Handles',
         UNCHANGED <<build, dev, pc, r, w, k, elems, block, buffers, program, kernels,
                     localArg, launch, reports>>,
         why' # "argument size" \/ why' = why
  PROVE  ProgInv'
  <1>1. SessionInv'
    BY SessionKept DEF ProgInv
  <1>2. LaunchSafe'
    BY LaunchKept DEF ProgInv
  <1>3. ArgumentSizeConfined'
    <2>1. runner' = runner
      BY DEF runner
    <2> QED
      BY <2>1 DEF ProgInv, ArgumentSizeConfined
  <1> QED
    BY <1>1, <1>2, <1>3 DEF ProgInv, EnvInv

LEMMA ExitStep ==
  ASSUME ProgInv, NEW reason, Exits(reason), reason # "argument size"
  PROVE  ProgInv'
  <1>1. EnvFresh'
    BY DEF Exits, EnvFresh, Searching, Making
  <1>2. EnvTyped'
    BY DEF Exits, ProgInv, EnvInv, EnvTyped, Making
  <1>3. Handles'
    BY DEF Exits, ProgInv, EnvInv, Handles
  <1> QED
    BY <1>1, <1>2, <1>3, OutsideStep DEF Exits

\* A call of a runner, with the handles it needs.
LEMMA RunStepKeeps ==
  ASSUME ProgInv, RunStep
  PROVE  ProgInv'
  <1>1. /\ SessionInv /\ LaunchSafe /\ ArgumentSizeConfined
        /\ EnvFresh /\ EnvTyped /\ Handles
        /\ stage = "run" /\ Next /\ UNCHANGED envVars
        /\ ~NoContext /\ ~NoQueue
    BY DEF ProgInv, EnvInv, RunStep
  <1>2. SessionInv'
    BY <1>1, SessionStep
  <1>3. UNCHANGED <<stage, machine, missing, devIdx, platform, deviceIds, ctx, queue>>
    BY <1>1 DEF envVars
  <1>4. EnvFresh' /\ EnvTyped'
    BY <1>1, <1>3 DEF EnvFresh, EnvTyped, Searching, Making
  <1>5. LaunchSafe'
    <2>1. CASE Launch
      BY <1>1, <2>1, LaunchIsSafe
    <2>2. CASE ~Launch
      <3>1. UNCHANGED <<launch, dev>>
        BY <1>1, <2>2 DEF Next, SkipRunner, StartRunner, CreateBuffers, BufferRefused,
          BuildProgram, CreateKernel, LaunchRefused, NextWidth, FinishRunner, ApiFails
      <3> QED
        BY <1>1, <3>1, LaunchKept
    <2> QED
      BY <2>1, <2>2
  <1>6. ArgumentSizeConfined'
    <2>1. CASE CreateKernel
      <3>1. build' = build /\ r' = r /\ runner' = runner
        BY <2>1 DEF CreateKernel, runner
      <3>2. build \in {"arm", "other"}
        BY <1>1, SessionAssumption DEF SessionInv, SessionTyped
      <3>3. CASE Compute(runner) /\ PassedSize(runner, build) # DeclaredSize(runner)
        <4>1. build = "arm" => runner = "double"
          BY <3>3 DEF Compute, PassedSize, DeclaredSize, ElemSize
        <4>2. build = "other" => runner = "half"
          BY <3>3 DEF Compute, PassedSize, DeclaredSize, ElemSize
        <4> QED
          BY <3>1, <3>2, <4>1, <4>2 DEF ArgumentSizeConfined
      <3>4. CASE ~(Compute(runner) /\ PassedSize(runner, build) # DeclaredSize(runner))
        BY <1>1, <2>1, <3>1, <3>4 DEF CreateKernel, ArgumentSizeConfined
      <3> QED
        BY <3>3, <3>4
    <2>2. CASE ~CreateKernel
      <3>1. why' # "argument size" \/ why' = why
        BY <1>1, <2>2 DEF Next, SkipRunner, StartRunner, CreateBuffers, BufferRefused,
          BuildProgram, Launch, LaunchRefused, NextWidth, FinishRunner, ApiFails
      <3>2. why = "argument size" => pc = "exited"
        BY <1>1 DEF SessionInv, Control
      <3>3. pc # "exited"
        BY <1>1 DEF Next, SkipRunner, StartRunner, CreateBuffers, BufferRefused,
          BuildProgram, CreateKernel, Launch, LaunchRefused, NextWidth, FinishRunner,
          ApiFails
      <3> QED
        BY <3>1, <3>2, <3>3 DEF ArgumentSizeConfined
    <2> QED
      BY <2>1, <2>2
  <1>7. Handles'
    <2>1. CtxMade' /\ QueueMade'
      BY <1>1, <1>3 DEF Handles, CtxMade, QueueMade
    <2>2. pc' \in Busy \ {"buffers"} => ctx = "live"
      BY <1>1 DEF Handles, Busy, NoContext, Next, SkipRunner, StartRunner,
        CreateBuffers, BufferRefused, BuildProgram, CreateKernel, Launch,
        LaunchRefused, NextWidth, FinishRunner, ApiFails
    <2>3. pc' \in {"kernel", "launch", "next"} => queue = "live"
      BY <1>1 DEF Handles, NoQueue, Next, SkipRunner, StartRunner,
        CreateBuffers, BufferRefused, BuildProgram, CreateKernel, Launch,
        LaunchRefused, NextWidth, FinishRunner, ApiFails
    <2>4. launch' # NoLaunch => ctx \in {"live", "released"} /\ queue \in {"live", "released"}
      <3>1. CASE Launch
        BY <1>1, <3>1 DEF Launch, Handles, Busy
      <3>2. CASE ~Launch
        <4>1. launch' = launch
          BY <1>1, <3>2 DEF Next, SkipRunner, StartRunner, CreateBuffers, BufferRefused,
            BuildProgram, CreateKernel, LaunchRefused, NextWidth, FinishRunner, ApiFails
        <4> QED
          BY <1>1, <4>1 DEF Handles
      <3> QED
        BY <3>1, <3>2
    <2> QED
      BY <1>3, <2>1, <2>2, <2>3, <2>4 DEF Handles
  <1> QED
    BY <1>2, <1>4, <1>5, <1>6, <1>7 DEF ProgInv, EnvInv
LEMMA ElementOf ==
  ASSUME NEW S, NEW s \in Seq(S), NEW i \in DOMAIN s
  PROVE  s[i] \in S
  OBVIOUS

\* The constructor.
LEMMA ConstructKeeps ==
  ASSUME ProgInv, Construct
  PROVE  ProgInv'
  <1>0. SessionInv /\ LaunchSafe /\ ArgumentSizeConfined /\ EnvFresh /\ EnvTyped /\ Handles
    BY DEF ProgInv, EnvInv
  <1>1. CASE GetPlatforms
    <2>1. /\ stage = "platforms" /\ stage' = "count" /\ platform' = 1 /\ machine # <<>>
          /\ UNCHANGED <<machine, missing, devIdx, deviceIds, ctx, queue>>
          /\ UNCHANGED vars
      BY <1>1 DEF GetPlatforms
    <2>2. platform' \in DOMAIN machine'
      BY <1>0, <2>1 DEF EnvTyped
    <2>3. EnvFresh' /\ EnvTyped' /\ Handles'
      BY <1>0, <2>1, <2>2 DEF EnvFresh, EnvTyped, Handles, Searching, Making, Fresh, vars
    <2> QED
      BY <2>1, <2>3, OutsideStep DEF vars
  <1>2. CASE CountGpus
    <2>1. /\ stage = "count" /\ stage' = "list"
          /\ UNCHANGED <<machine, missing, devIdx, platform, deviceIds, ctx, queue>>
          /\ UNCHANGED vars
      BY <1>2 DEF CountGpus
    <2>2. EnvFresh' /\ EnvTyped' /\ Handles'
      BY <1>0, <2>1 DEF EnvFresh, EnvTyped, Handles, Searching, Making, Fresh, vars
    <2> QED
      BY <2>1, <2>2, OutsideStep DEF vars
  <1>3. CASE NoGpusReported
    <2>1. /\ stage = "count"
          /\ \/ platform < Len(machine) /\ platform' = platform + 1 /\ stage' = "count"
             \/ stage' = "choose"
          /\ UNCHANGED <<machine, missing, devIdx, deviceIds, ctx, queue>>
          /\ UNCHANGED vars
      BY <1>3 DEF NoGpusReported
    <2>2. stage' = "count" => platform' \in DOMAIN machine'
      <3>1. platform \in DOMAIN machine /\ machine \in Seq([gpus : Seq(Gpus), strict : BOOLEAN])
        BY <1>0, <2>1 DEF EnvTyped
      <3>2. platform \in Int /\ Len(machine) \in Nat /\ DOMAIN machine = 1 .. Len(machine)
        BY <3>1
      <3> QED
        BY <2>1, <3>1, <3>2
    <2>3. EnvFresh' /\ EnvTyped' /\ Handles'
      BY <1>0, <2>1, <2>2 DEF EnvFresh, EnvTyped, Handles, Searching, Making, Fresh, vars
    <2> QED
      BY <2>1, <2>3, OutsideStep DEF vars
  <1>4. CASE ListGpus
    <2>1. /\ stage = "list" /\ stage' = "choose" /\ deviceIds' = machine[platform].gpus
          /\ UNCHANGED <<machine, missing, devIdx, ctx, queue>>
          /\ UNCHANGED vars
      BY <1>4 DEF ListGpus, AfterList, AtPlatform
    <2>2. deviceIds' \in Seq(Gpus)
      <3>1. platform \in DOMAIN machine /\ machine \in Seq([gpus : Seq(Gpus), strict : BOOLEAN])
        BY <1>0, <2>1 DEF EnvTyped
      <3>2. machine[platform] \in [gpus : Seq(Gpus), strict : BOOLEAN]
        BY <3>1, ElementOf
      <3> QED
        BY <2>1, <3>2
    <2>3. EnvFresh' /\ EnvTyped' /\ Handles'
      BY <1>0, <2>1, <2>2 DEF EnvFresh, EnvTyped, Handles, Searching, Making, Fresh, vars
    <2> QED
      BY <2>1, <2>3, OutsideStep DEF vars
  <1>5. CASE ChooseDevice
    <2>1. /\ stage = "choose" /\ stage' = "context" /\ ~IdInvalid
          /\ UNCHANGED <<machine, missing, devIdx, platform, deviceIds, ctx, queue>>
          /\ UNCHANGED vars
      BY <1>5 DEF ChooseDevice
    <2>2. devIdx < Len(deviceIds)
      <3>1. devIdx \in Nat /\ Len(deviceIds) \in Nat
        BY <1>0 DEF EnvTyped
      <3> QED
        BY <2>1, <3>1 DEF IdInvalid
    <2>3. EnvFresh' /\ EnvTyped' /\ Handles'
      BY <1>0, <2>1, <2>2 DEF EnvFresh, EnvTyped, Handles, Searching, Making, Fresh, vars
    <2> QED
      BY <2>1, <2>3, OutsideStep DEF vars
  <1>6. CASE CreateContext
    <2>1. PICK made \in Made("clCreateContext", "live", "unset") :
            \/ /\ Passes(made[2])
               /\ ctx' = made[1] /\ stage' = "queue"
               /\ UNCHANGED <<machine, missing, devIdx, platform, deviceIds, props, queue,
                              exitStatus, vars>>
            \/ ~Passes(made[2]) /\ Exits("api")
      BY <1>6 DEF CreateContext
    <2>2. CASE Exits("api")
      BY <2>2, ExitStep
    <2>3. CASE ~Exits("api")
      <3>1. /\ stage = "context" /\ stage' = "queue" /\ ctx' = made[1] /\ made[2] = "success"
            /\ UNCHANGED <<machine, missing, devIdx, platform, deviceIds, queue>>
            /\ UNCHANGED vars
        BY <1>6, <2>1, <2>3 DEF CreateContext, Passes
      <3>2. ctx' = "live" \/ "clCreateContext" \in missing
        BY <2>1, <3>1 DEF Made
      <3>3. launch' = NoLaunch
        BY <1>0, <3>1 DEF EnvFresh, Making, Fresh, vars
      <3>4. EnvFresh' /\ EnvTyped' /\ Handles'
        BY <1>0, <3>1, <3>2, <3>3
        DEF EnvFresh, EnvTyped, Handles, CtxMade, Searching, Making, Fresh, vars
      <3> QED
        BY <3>1, <3>4, OutsideStep DEF vars
    <2> QED
      BY <2>2, <2>3
  <1>7. CASE CreateQueue
    <2>1. PICK made \in Made("clCreateCommandQueue", ctx, ErrNum) :
            \/ /\ Passes(made[2])
               /\ queue' = made[1] /\ stage' = "info"
               /\ UNCHANGED <<machine, missing, devIdx, platform, deviceIds, props, ctx,
                              exitStatus, vars>>
            \/ ~Passes(made[2]) /\ Exits("api")
      BY <1>7 DEF CreateQueue
    <2>2. CASE Exits("api")
      BY <2>2, ExitStep
    <2>3. CASE ~Exits("api")
      <3>1. /\ stage = "queue" /\ stage' = "info" /\ queue' = made[1] /\ made[2] = "success"
            /\ UNCHANGED <<machine, missing, devIdx, platform, deviceIds, ctx>>
            /\ UNCHANGED vars
        BY <1>7, <2>1, <2>3 DEF CreateQueue, Passes
      <3>2. queue' = "live" \/ "clCreateCommandQueue" \in missing
        BY <2>1, <3>1 DEF Made
      <3>3. launch' = NoLaunch
        BY <1>0, <3>1 DEF EnvFresh, Making, Fresh, vars
      <3>4. EnvFresh' /\ EnvTyped' /\ Handles'
        BY <1>0, <3>1, <3>2, <3>3
        DEF EnvFresh, EnvTyped, Handles, CtxMade, QueueMade, Searching, Making, Fresh, vars
      <3> QED
        BY <3>1, <3>4, OutsideStep DEF vars
    <2> QED
      BY <2>2, <2>3
  <1>8. CASE ReadDeviceInfo
    <2>1. /\ stage = "info" /\ stage' = "run" /\ dev' = DevInfo(Chosen)
          /\ machine' = <<>> /\ deviceIds' = <<>> /\ devIdx' = 0
          /\ UNCHANGED <<missing, ctx, queue, build, pc, r, w, k, elems, block, buffers,
                         program, kernels, localArg, launch, reports, why>>
      BY <1>8 DEF ReadDeviceInfo
    <2>2. Fresh
      BY <1>0, <2>1 DEF EnvFresh, Making
    <2>3. dev' \in DeviceType
      <3>1. devIdx \in Nat /\ deviceIds \in Seq(Gpus) /\ devIdx < Len(deviceIds)
        BY <1>0, <2>1 DEF EnvTyped, Making
      <3>2. Chosen \in Gpus
        BY <3>1 DEF Chosen
      <3> QED
        BY <2>1, <3>2, DevInfoType
    <2>4. /\ build' \in Builds /\ pc' = "runner" /\ r' = 1 /\ w' = 1 /\ k' = 1
          /\ elems' = 0 /\ block' = 1 /\ buffers' = {} /\ program' = FALSE
          /\ kernels' = NoKernels /\ launch' = NoLaunch /\ why' = "running"
      BY <1>0, <2>1, <2>2 DEF Fresh, SessionInv, SessionTyped
    <2>5. SessionInv'
      <3>1. SessionTyped' /\ Control'
        BY <2>3, <2>4 DEF SessionTyped, Control
      <3>2. Positions' /\ KernelsMade' /\ BlockFits' /\ LocalArgSet'
        BY <2>4 DEF Positions, KernelsMade, BlockFits, LocalArgSet, Busy, NoKernels
      <3>3. Alive(r' - 1, dev') = {}
        BY <2>4, AliveNone
      <3>4. BuffersAlive'
        BY <2>4, <3>3 DEF BuffersAlive, Busy
      <3> QED
        BY <3>1, <3>2, <3>4 DEF SessionInv
    <2>6. LaunchSafe' /\ ArgumentSizeConfined'
      BY <2>4 DEF LaunchSafe, LaunchLegal, TouchesInBounds, LocalMemoryMatches,
        ArgumentSizeConfined
    <2>7. EnvFresh'
      BY <2>1 DEF EnvFresh, Searching, Making
    <2>8. EnvTyped'
      <3>1. <<>> \in Seq([gpus : Seq(Gpus), strict : BOOLEAN]) /\ <<>> \in Seq(Gpus)
        OBVIOUS
      <3> QED
        BY <2>1, <3>1 DEF EnvTyped, Making
    <2>9. Handles'
      BY <1>0, <2>1, <2>4 DEF Handles, CtxMade, QueueMade, Busy
    <2> QED
      BY <2>5, <2>6, <2>7, <2>8, <2>9 DEF ProgInv, EnvInv
  <1>9. CASE NoPlatform \/ GpuNotFound \/ BadDeviceId \/ EnvApiFails
    BY <1>9, ExitStep DEF NoPlatform, GpuNotFound, BadDeviceId, EnvApiFails
  <1> QED
    BY <1>1, <1>2, <1>3, <1>4, <1>5, <1>6, <1>7, <1>8, <1>9 DEF Construct
\* The option being read is one of the command line.
OptionsTyped == argv \in Seq(Options) /\ optind \in Nat \ {0}

LEMMA OptionsStep ==
  ASSUME OptionsTyped, [ProgNext]_progVars
  PROVE  OptionsTyped'
  <1>1. CASE ReadOption
    BY <1>1 DEF ReadOption, OptionsTyped
  <1>2. CASE UsageAsked \/ StartCpu \/ StartOpenCL \/ InvalidDevice
    BY <1>2 DEF UsageAsked, StartCpu, StartOpenCL, InvalidDevice, Leaves, mainVars,
      OptionsTyped
  <1>3. CASE Backend
    <2>1. <<>> \in Seq(Options)
      OBVIOUS
    <2> QED
      BY <1>3, <2>1 DEF Backend, OptionsTyped
  <1>4. CASE UNCHANGED progVars
    BY <1>4 DEF progVars, mainVars, OptionsTyped
  <1> QED
    BY <1>1, <1>2, <1>3, <1>4 DEF ProgNext, Main

LEMMA DevIdNat ==
  ASSUME NEW i \in Int
  PROVE  DevId(i) \in Nat
  BY CommandLinesAssumption DEF DevId

LEMMA ProgStep ==
  ASSUME ProgInv, OptionsTyped, [ProgNext]_progVars
  PROVE  ProgInv'
  <1>0. SessionInv /\ LaunchSafe /\ ArgumentSizeConfined /\ EnvFresh /\ EnvTyped /\ Handles
    BY DEF ProgInv, EnvInv
  <1>1. CASE ReadOption
    <2>1. /\ stage = "options"
          /\ optind <= Len(argv)
          /\ \/ devIdx' = devIdx
             \/ /\ argv[optind][1] \notin {"d", "h"}
                /\ devIdx' = DevId(argv[optind][2])
          /\ UNCHANGED <<stage, machine, missing, platform, deviceIds, ctx, queue>>
          /\ UNCHANGED vars
      BY <1>1 DEF ReadOption, MoreOptions
    <2>2. devIdx' \in Nat
      <3>1. optind \in DOMAIN argv /\ argv \in Seq(Options)
        BY <2>1 DEF OptionsTyped
      <3>2. argv[optind] \in Options
        BY <3>1, ElementOf
      <3>3. argv[optind][1] \notin {"d", "h"} => argv[optind][2] \in Int
        BY <3>2 DEF Options
      <3> QED
        BY <1>0, <2>1, <3>3, DevIdNat DEF EnvTyped
    <2>3. EnvFresh' /\ EnvTyped' /\ Handles'
      BY <1>0, <2>1, <2>2 DEF EnvFresh, EnvTyped, Handles, Searching, Making, Fresh, vars
    <2> QED
      BY <2>1, <2>3, OutsideStep DEF vars
  <1>2. CASE UsageAsked \/ StartCpu \/ StartOpenCL \/ InvalidDevice
    <2>1. /\ stage = "options" /\ stage' \in {"ended", "cpu", "platforms"}
          /\ UNCHANGED <<machine, missing, devIdx, platform, deviceIds, ctx, queue>>
          /\ UNCHANGED <<build, dev, pc, r, w, k, elems, block, buffers, program, kernels,
                         localArg, launch, reports>>
          /\ stage' # "ended" => why' = why
          /\ why' # "argument size" \/ why' = why
      BY <1>2 DEF UsageAsked, StartCpu, StartOpenCL, InvalidDevice, Leaves, MoreOptions,
        OptionsRead
    <2>2. EnvFresh' /\ EnvTyped' /\ Handles'
      BY <1>0, <2>1 DEF EnvFresh, EnvTyped, Handles, Searching, Making, Fresh
    <2> QED
      BY <2>1, <2>2, OutsideStep
  <1>3. CASE Construct
    BY <1>3, ConstructKeeps
  <1>4. CASE RunStep
    BY <1>4, RunStepKeeps
  <1>5. CASE HandleRefused
    BY <1>5, ExitStep DEF HandleRefused
  <1>6. CASE RunnerExited \/ Destroy
    <2>1. /\ stage = "run" /\ stage' = "ended"
          /\ \/ UNCHANGED <<ctx, queue>>
             \/ ctx' = "released" /\ queue' = "released"
          /\ UNCHANGED <<machine, missing, devIdx, platform, deviceIds>>
          /\ UNCHANGED vars
      BY <1>6 DEF RunnerExited, Destroy, QueueAfterDestructor
    <2>2. EnvFresh' /\ EnvTyped' /\ Handles'
      BY <1>0, <2>1 DEF EnvFresh, EnvTyped, Handles, Searching, Making, vars
    <2> QED
      BY <2>1, <2>2, OutsideStep DEF vars
  <1>7. CASE UNCHANGED progVars
    <2>1. /\ UNCHANGED <<stage, machine, missing, devIdx, platform, deviceIds, ctx, queue>>
          /\ UNCHANGED vars
      BY <1>7 DEF progVars, allVars, envVars
    <2>2. EnvFresh' /\ EnvTyped' /\ Handles'
      BY <1>0, <2>1 DEF EnvFresh, EnvTyped, Handles, CtxMade, QueueMade, Fresh, vars
    <2> QED
      BY <2>1, <2>2, OutsideStep DEF vars
  <1> QED
    BY <1>1, <1>2, <1>3, <1>4, <1>5, <1>6, <1>7 DEF ProgNext, Main, Backend, EnvNext

\* The inductive invariant of the program.
THEOREM Invariance == ProgSpec => []ProgInv
  <1>1. ProgInit => ProgInv /\ OptionsTyped
    <2>1. ProgInit => OptionsTyped
      BY CommandLinesAssumption DEF ProgInit, OptionsTyped
    <2> QED
      BY <2>1, ProgInvInit
  <1>2. ProgInv /\ OptionsTyped /\ [ProgNext]_progVars => (ProgInv /\ OptionsTyped)'
    BY ProgStep, OptionsStep
  <1> QED
    BY <1>1, <1>2, PTL DEF ProgSpec

\* A launch never asks for a larger group than its own kernel and the device
\* class allow, and launches whole groups: for every device, every sequence of
\* kernel limits and every order of failures.
THEOREM LaunchesAreLegal == ProgSpec => []LaunchLegal
  <1>1. ProgInv => LaunchLegal
    BY DEF ProgInv, LaunchSafe
  <1> QED
    BY <1>1, Invariance, PTL

\* No launch touches an element past the end of its buffers.
THEOREM TouchesStayInBounds == ProgSpec => []TouchesInBounds
  <1>1. ProgInv => TouchesInBounds
    BY DEF ProgInv, LaunchSafe
  <1> QED
    BY <1>1, Invariance, PTL

\* The local memory of a launch is sized for the group that is launched.
THEOREM LocalMemoryIsEnough == ProgSpec => []LocalMemoryMatches
  <1>1. ProgInv => LocalMemoryMatches
    BY DEF ProgInv, LaunchSafe
  <1> QED
    BY <1>1, Invariance, PTL

\* An argument of the wrong size is passed by the half runner of the builds
\* that are not ARM and the double runner of the ARM builds, and no other.
THEOREM ArgumentSizesConfined == ProgSpec => []ArgumentSizeConfined
  <1>1. ProgInv => ArgumentSizeConfined
    BY DEF ProgInv
  <1> QED
    BY <1>1, Invariance, PTL

\* Between the runners only their buffers are left, all of them.
THEOREM BuffersAreKept == ProgSpec => []OnlyBuffersKept
  <1>1. ProgInv => OnlyBuffersKept
    <2> SUFFICES ASSUME ProgInv, pc \in {"runner", "done"}
                 PROVE  /\ ~program /\ DOMAIN kernels = {}
                        /\ buffers = UNION {{Runners[n]} \X Buffers(Runners[n]) :
                              n \in {m \in 1 .. r : /\ Supported(Runners[m], dev)
                                                    /\ (m < r \/ pc = "done")}}
      BY DEF OnlyBuffersKept
    <2>1. KernelsMade /\ BuffersAlive /\ r \in 1 .. 6
      BY DEF ProgInv, SessionInv, SessionTyped
    <2>2. ~program /\ DOMAIN kernels = {}
      BY <2>1 DEF KernelsMade, BuffersAlive
    <2>3. CASE pc = "runner"
      <3>1. {m \in 1 .. r : Supported(Runners[m], dev) /\ (m < r \/ pc = "done")}
              = {m \in 1 .. r - 1 : Supported(Runners[m], dev)}
        BY <2>1, <2>3
      <3>2. buffers = Alive(r - 1, dev)
        BY <2>1, <2>3 DEF BuffersAlive
      <3> QED
        BY <2>2, <3>1, <3>2 DEF Alive
    <2>4. CASE pc = "done"
      <3>1. {m \in 1 .. r : Supported(Runners[m], dev) /\ (m < r \/ pc = "done")}
              = {m \in 1 .. r : Supported(Runners[m], dev)}
        BY <2>4
      <3>2. buffers = Alive(r, dev)
        BY <2>1, <2>4 DEF BuffersAlive
      <3> QED
        BY <2>2, <3>1, <3>2 DEF Alive
    <2> QED
      BY <2>3, <2>4
  <1> QED
    BY <1>1, Invariance, PTL

\* The runners start with a context and a queue unless the library lacks the
\* function that makes them, and no kernel is launched without either.
THEOREM HandlesAreLive == ProgSpec => []RunsOnLiveHandles
  <1>1. ProgInv => RunsOnLiveHandles
    BY DEF ProgInv, EnvInv, Handles, CtxMade, QueueMade, RunsOnLiveHandles
  <1> QED
    BY <1>1, Invariance, PTL

-------------------------------------------------------------------------------
\* v is the argument of the last option of a kind among those read.
LastRead(letter, without, v) ==
  \/ /\ \A j \in DOMAIN argv : j < optind => argv[j][1] # letter
     /\ v = without
  \/ \E j \in DOMAIN argv :
       /\ j < optind /\ argv[j][1] = letter /\ v = argv[j][2]
       /\ \A i \in DOMAIN argv : i < optind /\ argv[i][1] = letter => i <= j

\* main has read the options as far as optind.
OptionsInv ==
  /\ stage \in Searching => LastRead("d", "cpu", device)
  /\ stage \in Searching =>
       \E v \in -INTS .. INTS - 1 : LastRead("i", 0, v) /\ devIdx = DevId(v)
  /\ stage \in Searching \ {"options"} => optind > Len(argv)
  /\ stage \in Searching \ {"options", "cpu"} => device = "opencl"

\* The arguments of -i are ints, and the lists of GPUs are counted by one.
RangeInv ==
  /\ \A j \in DOMAIN argv : argv[j][1] = "i" => argv[j][2] \in -INTS .. INTS - 1
  /\ \A p \in DOMAIN machine : Len(machine[p].gpus) <= INTS

Empty(q) == machine[q].gpus = <<>> /\ ~machine[q].strict

\* What the search has seen so far.
SearchInv ==
  /\ stage \in {"options", "cpu", "platforms", "count", "list"} => deviceIds = <<>>
  /\ stage = "count" => \A q \in 1 .. platform - 1 : Empty(q)
  /\ stage = "list" =>
       machine[platform].gpus # <<>> /\ \A q \in 1 .. platform - 1 : Empty(q)
  /\ stage = "choose" =>
       \/ deviceIds = <<>> /\ \A q \in DOMAIN machine : Empty(q)
       \/ /\ platform \in DOMAIN machine /\ machine[platform].gpus # <<>>
          /\ deviceIds = machine[platform].gpus
          /\ \A q \in 1 .. platform - 1 : Empty(q)

ChoiceInv == ProgInv /\ OptionsTyped /\ OptionsInv /\ RangeInv /\ SearchInv

-------------------------------------------------------------------------------

\* Once all the options are read, the last one read is the one asked for.
LEMMA AskedIsLast ==
  ASSUME argv \in Seq(Options), optind > Len(argv), optind \in Nat,
         NEW letter, NEW without, NEW v, LastRead(letter, without, v)
  PROVE  Asked(letter, without) = v
  <1> DEFINE given == {j \in DOMAIN argv : argv[j][1] = letter}
             last == CHOOSE j \in given : \A i \in given : i <= j
  <1>1. \A j \in DOMAIN argv : j < optind /\ j \in Nat
    OBVIOUS
  <1>2. CASE given = {}
    BY <1>1, <1>2 DEF LastRead, Asked
  <1>3. CASE given # {}
    <2>1. PICK j \in given : v = argv[j][2] /\ \A i \in given : i <= j
      BY <1>1, <1>3 DEF LastRead
    <2>2. \A x \in given : (\A i \in given : i <= x) => x = j
      BY <1>1, <2>1
    <2>3. last = j
      BY <2>1, <2>2
    <2>4. Asked(letter, without) = argv[last][2]
      BY <1>3 DEF Asked
    <2> QED
      BY <2>1, <2>3, <2>4
  <1> QED
    BY <1>2, <1>3

\* One more option is read.
LEMMA LastReadNext ==
  ASSUME OptionsTyped, optind <= Len(argv), optind' = optind + 1, argv' = argv,
         NEW letter, NEW without, NEW v, LastRead(letter, without, v),
         NEW u, u = argv[optind][2]
  PROVE  /\ argv[optind][1] # letter => LastRead(letter, without, v)'
         /\ argv[optind][1] = letter => LastRead(letter, without, u)'
  <1>1. /\ optind \in DOMAIN argv
        /\ \A i \in DOMAIN argv : i \in Nat /\ (i < optind + 1 <=> i < optind \/ i = optind)
    BY DEF OptionsTyped
  <1>2. CASE argv[optind][1] # letter
    BY <1>1, <1>2 DEF LastRead
  <1>3. CASE argv[optind][1] = letter
    <2>1. \A i \in DOMAIN argv : i < optind + 1 => i <= optind
      BY <1>1
    <2>2. optind < optind + 1
      BY <1>1
    <2> QED
      BY <1>1, <1>3, <2>1, <2>2 DEF LastRead
  <1> QED
    BY <1>2, <1>3

\* The index that a negative or a positive int becomes.
LEMMA DevIdIs ==
  ASSUME NEW v \in -INTS .. INTS - 1
  PROVE  /\ v >= 0 => DevId(v) = v
         /\ v < 0 => DevId(v) >= INTS
  <1>1. INTS \in Nat \ {0} /\ SIZES \in Nat \ {0} /\ SIZES >= 2 * INTS
    BY CommandLinesAssumption, RangeAssumption
  <1>2. CASE v >= 0
    <2>1. v \in 0 .. SIZES - 1
      BY <1>1, <1>2
    <2>2. v % SIZES = v
      BY <1>1, <2>1
    <2> QED
      BY <1>2, <2>2 DEF DevId
  <1>3. CASE v < 0
    <2>1. v + SIZES \in 0 .. SIZES - 1 /\ v \in Int
      BY <1>1, <1>3
    <2>2. v % SIZES = v + SIZES
      BY <1>1, <2>1
    <2> QED
      BY <1>1, <1>3, <2>2 DEF DevId
  <1> QED
    BY <1>2, <1>3
LEMMA ChoiceInit ==
  ASSUME ProgInit
  PROVE  OptionsInv /\ RangeInv /\ SearchInv
  <1>1. /\ stage = "options" /\ optind = 1 /\ argv \in CommandLines /\ device = "cpu"
        /\ devIdx = 0 /\ machine \in Machines /\ deviceIds = <<>>
    BY DEF ProgInit, EnvInit
  <1>2. \A j \in DOMAIN argv : ~(j < optind)
    BY <1>1, CommandLinesAssumption
  <1>3. LastRead("d", "cpu", device) /\ LastRead("i", 0, 0)
    BY <1>1, <1>2 DEF LastRead
  <1>4. 0 \in -INTS .. INTS - 1 /\ DevId(0) = 0
    <2>1. 0 \in -INTS .. INTS - 1
      BY RangeAssumption
    <2> QED
      BY <2>1, DevIdIs
  <1>5. OptionsInv
    BY <1>1, <1>3, <1>4 DEF OptionsInv, Searching
  <1>6. RangeInv
    BY <1>1, RangeAssumption DEF RangeInv
  <1>7. SearchInv
    BY <1>1 DEF SearchInv
  <1> QED
    BY <1>5, <1>6, <1>7

\* The options read stay known while the backend works.
LEMMA OptionsKept ==
  ASSUME OptionsInv, UNCHANGED <<argv, optind, device, devIdx>>,
         stage' \in Searching => stage \in Searching,
         stage' \in Searching \ {"options"} =>
           stage \in Searching \ {"options"} \/ optind > Len(argv),
         stage' \in Searching \ {"options", "cpu"} =>
           stage \in Searching \ {"options", "cpu"} \/ device = "opencl"
  PROVE  OptionsInv'
  <1>1. stage' \in Searching => LastRead("d", "cpu", device)'
    BY DEF OptionsInv, LastRead
  <1>2. stage' \in Searching =>
          \E v \in -INTS .. INTS - 1 : LastRead("i", 0, v)' /\ devIdx' = DevId(v)
    BY DEF OptionsInv, LastRead
  <1> QED
    BY <1>1, <1>2 DEF OptionsInv

LEMMA ReadOptionKeeps ==
  ASSUME ChoiceInv, ReadOption
  PROVE  OptionsInv'
  <1>1. /\ OptionsTyped /\ OptionsInv /\ RangeInv
        /\ stage = "options" /\ stage' = stage /\ argv' = argv
        /\ optind <= Len(argv) /\ optind' = optind + 1
    BY DEF ChoiceInv, ReadOption, MoreOptions
  <1>2. optind \in DOMAIN argv /\ argv[optind] \in Options
    BY <1>1, ElementOf DEF OptionsTyped
  <1> DEFINE u == argv[optind][2]
             c == argv[optind][1]
  <1>3. PICK v \in -INTS .. INTS - 1 : LastRead("i", 0, v) /\ devIdx = DevId(v)
    BY <1>1 DEF OptionsInv, Searching
  <1>4. PICK d : d = device /\ LastRead("d", "cpu", d)
    BY <1>1 DEF OptionsInv, Searching
  <1>5. PICK x : x = argv[optind][2]
    OBVIOUS
  <1>6. /\ c # "i" => LastRead("i", 0, v)'
        /\ c = "i" => LastRead("i", 0, x)'
        /\ c # "d" => LastRead("d", "cpu", d)'
        /\ c = "d" => LastRead("d", "cpu", x)'
    BY <1>1, <1>3, <1>4, <1>5, LastReadNext
  <1>7. CASE c = "d"
    <2>1. device' = x /\ devIdx' = devIdx
      BY <1>5, <1>7 DEF ReadOption
    <2>2. LastRead("d", "cpu", device)'
      BY <1>6, <1>7, <2>1 DEF LastRead
    <2> QED
      BY <1>1, <1>3, <1>6, <1>7, <2>1, <2>2 DEF OptionsInv
  <1>8. CASE c # "d"
    <2>1. c = "i" /\ device' = d /\ devIdx' = DevId(x)
      BY <1>2, <1>4, <1>5, <1>8 DEF ReadOption, Options
    <2>2. LastRead("d", "cpu", device)'
      BY <1>6, <1>8, <2>1 DEF LastRead
    <2>3. x \in -INTS .. INTS - 1
      BY <1>1, <1>2, <1>5, <2>1 DEF RangeInv
    <2> QED
      BY <1>1, <1>6, <2>1, <2>2, <2>3 DEF OptionsInv
  <1> QED
    BY <1>7, <1>8

LEMMA RangeStep ==
  ASSUME RangeInv, [ProgNext]_progVars
  PROVE  RangeInv'
  <1>1. argv' = argv \/ argv' = <<>>
    BY DEF ProgNext, Main, Backend, ReadOption, UsageAsked, StartCpu, StartOpenCL,
      InvalidDevice, Leaves, mainVars, progVars
  <1>2. machine' = machine \/ machine' = <<>>
    BY DEF ProgNext, Main, Backend, EnvNext, Construct, ReadOption, UsageAsked, StartCpu,
      StartOpenCL, InvalidDevice, Leaves, GetPlatforms, NoPlatform, CountGpus,
      NoGpusReported, GpuNotFound, ListGpus, BadDeviceId, ChooseDevice, CreateContext,
      CreateQueue, ReadDeviceInfo, EnvApiFails, Exits, RunStep, HandleRefused,
      RunnerExited, Destroy, progVars, allVars, envVars
  <1> QED
    BY <1>1, <1>2 DEF RangeInv

\* The search goes from the first platform to the first with a GPU.
LEMMA SearchStep ==
  ASSUME ChoiceInv, [ProgNext]_progVars
  PROVE  SearchInv'
  <1>0. SearchInv /\ EnvTyped
    BY DEF ChoiceInv, ProgInv, EnvInv
  <1>1. CASE GetPlatforms
    BY <1>0, <1>1 DEF GetPlatforms, SearchInv, Empty
  <1>2. CASE CountGpus
    BY <1>0, <1>2 DEF CountGpus, AtPlatform, SearchInv, Empty
  <1>3. CASE NoGpusReported
    <2>1. /\ stage = "count" /\ machine[platform].gpus = <<>> /\ ~machine[platform].strict
          /\ \/ /\ platform < Len(machine) /\ platform' = platform + 1 /\ stage' = "count"
             \/ ~(platform < Len(machine)) /\ platform' = platform /\ stage' = "choose"
          /\ UNCHANGED <<machine, deviceIds>>
      BY <1>3 DEF NoGpusReported, AtPlatform
    <2>2. /\ platform \in Int /\ Len(machine) \in Nat /\ platform <= Len(machine)
          /\ DOMAIN machine = 1 .. Len(machine)
      BY <1>0, <2>1 DEF EnvTyped
    <2>3. \A q \in 1 .. platform : Empty(q)
      BY <1>0, <2>1, <2>2 DEF SearchInv, Empty
    <2>4. deviceIds = <<>>
      BY <1>0, <2>1 DEF SearchInv
    <2>5. CASE stage' = "count"
      <3>1. platform' - 1 = platform
        BY <2>1, <2>2, <2>5
      <3> QED
        BY <2>1, <2>3, <2>4, <2>5, <3>1 DEF SearchInv, Empty
    <2>6. CASE stage' = "choose"
      <3>1. DOMAIN machine = 1 .. platform
        BY <2>1, <2>2, <2>6
      <3> QED
        BY <2>1, <2>3, <2>4, <2>6, <3>1 DEF SearchInv, Empty
    <2> QED
      BY <2>1, <2>5, <2>6
  <1>4. CASE ListGpus
    BY <1>0, <1>4 DEF ListGpus, AfterList, AtPlatform, EnvTyped, SearchInv, Empty
  <1>5. CASE stage' \notin {"options", "cpu", "platforms", "count", "list", "choose"}
    BY <1>5 DEF SearchInv
  <1>6. CASE ReadOption
    BY <1>0, <1>6 DEF ReadOption, MoreOptions, SearchInv
  <1>7. CASE UsageAsked \/ StartCpu \/ StartOpenCL \/ InvalidDevice
    BY <1>0, <1>7 DEF UsageAsked, StartCpu, StartOpenCL, InvalidDevice, Leaves,
      MoreOptions, OptionsRead, SearchInv
  <1>8. CASE UNCHANGED progVars
    BY <1>0, <1>8 DEF progVars, allVars, envVars, SearchInv, Empty
  <1>9. CASE \/ NoPlatform \/ GpuNotFound \/ BadDeviceId \/ ChooseDevice \/ CreateContext
             \/ CreateQueue \/ ReadDeviceInfo \/ EnvApiFails \/ HandleRefused
             \/ RunnerExited \/ Destroy
    <2>1. stage' \in {"ended", "context", "queue", "info", "run"}
      BY <1>9 DEF NoPlatform, GpuNotFound, BadDeviceId, ChooseDevice, CreateContext,
        CreateQueue, ReadDeviceInfo, EnvApiFails, HandleRefused, RunnerExited, Destroy,
        Exits
    <2> QED
      BY <1>5, <2>1
  <1>10. CASE RunStep
    BY <1>5, <1>10 DEF RunStep, envVars
  <1> QED
    BY <1>1, <1>2, <1>3, <1>4, <1>6, <1>7, <1>8, <1>9, <1>10
    DEF ProgNext, Main, Backend, EnvNext, Construct
LEMMA OptionsInvStep ==
  ASSUME ChoiceInv, [ProgNext]_progVars
  PROVE  OptionsInv'
  <1>0. OptionsInv
    BY DEF ChoiceInv
  <1>1. CASE ReadOption
    BY <1>1, ReadOptionKeeps
  <1>2. CASE UsageAsked \/ StartCpu \/ StartOpenCL \/ InvalidDevice
    <2>1. /\ stage = "options" /\ UNCHANGED <<argv, optind, device, devIdx>>
          /\ \/ stage' = "ended"
             \/ stage' = "cpu" /\ optind > Len(argv)
             \/ stage' = "platforms" /\ optind > Len(argv) /\ device = "opencl"
      BY <1>2 DEF UsageAsked, StartCpu, StartOpenCL, InvalidDevice, Leaves, MoreOptions,
        OptionsRead, mainVars
    <2> QED
      BY <1>0, <2>1, OptionsKept DEF Searching
  <1>3. CASE Construct /\ stage' \in Searching /\ Backend
    <2>1. /\ stage \in {"platforms", "count", "list"} /\ stage' # "options"
          /\ UNCHANGED <<argv, optind, device, devIdx>>
      BY <1>3 DEF Construct, Backend, GetPlatforms, NoPlatform, CountGpus, NoGpusReported,
        GpuNotFound, ListGpus, AfterList, BadDeviceId, ChooseDevice, CreateContext,
        CreateQueue, ReadDeviceInfo, EnvApiFails, Exits, Searching
    <2> QED
      BY <1>0, <2>1, OptionsKept DEF Searching
  <1>4. CASE stage' \notin Searching
    BY <1>4 DEF OptionsInv
  <1>5. CASE HandleRefused \/ RunnerExited \/ Destroy \/ RunStep
    <2>1. stage' \in {"ended", "run"}
      BY <1>5 DEF HandleRefused, RunnerExited, Destroy, RunStep, Exits, envVars
    <2> QED
      BY <1>4, <2>1 DEF Searching
  <1>6. CASE UNCHANGED progVars
    <2>1. UNCHANGED <<argv, optind, device, devIdx, stage>>
      BY <1>6 DEF progVars, allVars, envVars, mainVars
    <2> QED
      BY <1>0, <2>1, OptionsKept
  <1> QED
    BY <1>1, <1>2, <1>3, <1>4, <1>5, <1>6 DEF ProgNext, Main, Backend, EnvNext

THEOREM ChoiceInvariance == ProgSpec => []ChoiceInv
  <1>1. ProgInit => ChoiceInv
    <2>1. ProgInit => OptionsTyped
      BY CommandLinesAssumption DEF ProgInit, OptionsTyped
    <2> QED
      BY <2>1, ProgInvInit, ChoiceInit DEF ChoiceInv
  <1>2. ChoiceInv /\ [ProgNext]_progVars => ChoiceInv'
    BY ProgStep, OptionsStep, OptionsInvStep, RangeStep, SearchStep DEF ChoiceInv
  <1> QED
    BY <1>1, <1>2, PTL DEF ProgSpec

\* The platform at which the search ends is the first with a GPU.
LEMMA FirstFound ==
  ASSUME ChoiceInv, stage = "choose", deviceIds # <<>>
  PROVE  /\ WithGpu # {} /\ FirstWithGpu = platform
         /\ deviceIds = machine[platform].gpus
  <1>1. /\ platform \in DOMAIN machine /\ machine[platform].gpus # <<>>
        /\ deviceIds = machine[platform].gpus
        /\ \A q \in 1 .. platform - 1 : Empty(q)
    BY DEF ChoiceInv, SearchInv
  <1>2. DOMAIN machine = 1 .. Len(machine) /\ Len(machine) \in Nat
    BY DEF ChoiceInv, ProgInv, EnvInv, EnvTyped
  <1>3. platform \in WithGpu
    BY <1>1 DEF WithGpu
  <1>4. \A q \in WithGpu : platform <= q
    <2> SUFFICES ASSUME NEW q \in WithGpu, q < platform PROVE FALSE
      BY <1>1, <1>2 DEF WithGpu
    <2>1. q \in 1 .. platform - 1 /\ machine[q].gpus # <<>>
      BY <1>1, <1>2 DEF WithGpu
    <2> QED
      BY <1>1, <2>1 DEF Empty
  <1>5. \A p \in WithGpu : (\A q \in WithGpu : p <= q) => p = platform
    BY <1>1, <1>2, <1>3, <1>4 DEF WithGpu
  <1>6. FirstWithGpu = platform
    BY <1>3, <1>4, <1>5 DEF FirstWithGpu
  <1> QED
    BY <1>1, <1>3, <1>6

\* When the device is chosen, devIdx is what the last -i asks for.
LEMMA IndexIsAsked ==
  ASSUME ChoiceInv, stage = "choose"
  PROVE  /\ Asked("d", "cpu") = "opencl"
         /\ Asked("i", 0) \in -INTS .. INTS - 1 /\ devIdx = DevId(Asked("i", 0))
  <1>1. /\ argv \in Seq(Options) /\ optind \in Nat /\ optind > Len(argv)
        /\ device = "opencl" /\ LastRead("d", "cpu", device)
    BY DEF ChoiceInv, OptionsTyped, OptionsInv, Searching
  <1>2. PICK v \in -INTS .. INTS - 1 : LastRead("i", 0, v) /\ devIdx = DevId(v)
    BY DEF ChoiceInv, OptionsInv, Searching
  <1>3. Asked("i", 0) = v
    BY <1>1, <1>2, AskedIsLast
  <1>4. Asked("d", "cpu") = device
    BY <1>1, AskedIsLast
  <1> QED
    BY <1>1, <1>2, <1>3, <1>4
-------------------------------------------------------------------------------

\* A device is refused only where the search says so, and the process ends.
RefusalInv ==
  /\ RefusesOnlyHere
  /\ why \in {"no gpu", "device id"} => stage = "ended"

LEMMA IndexRefused ==
  ASSUME ChoiceInv, BadDeviceId
  PROVE  IF WithGpu = {} THEN \A q \in DOMAIN machine : ~machine[q].strict
         ELSE Asked("i", 0) \notin 0 .. Len(machine[FirstWithGpu].gpus) - 1
  <1>1. /\ stage = "choose" /\ devIdx >= Len(deviceIds)
        /\ deviceIds \in Seq(Gpus) /\ devIdx \in Nat
    BY DEF BadDeviceId, IdInvalid, ChoiceInv, ProgInv, EnvInv, EnvTyped
  <1>2. CASE deviceIds # <<>>
    <2>1. WithGpu # {} /\ machine[FirstWithGpu].gpus = deviceIds
      BY <1>1, <1>2, FirstFound
    <2>2. Asked("i", 0) \in -INTS .. INTS - 1 /\ devIdx = DevId(Asked("i", 0))
      BY <1>1, IndexIsAsked
    <2>3. Asked("i", 0) >= 0 => devIdx = Asked("i", 0)
      BY <2>2, DevIdIs
    <2>4. Len(deviceIds) \in Nat /\ INTS \in Nat
      BY <1>1, RangeAssumption
    <2>5. Asked("i", 0) \notin 0 .. Len(deviceIds) - 1
      BY <1>1, <2>2, <2>3, <2>4
    <2> QED
      BY <2>1, <2>5
  <1>3. CASE deviceIds = <<>>
    <2>1. \A q \in DOMAIN machine : Empty(q)
      BY <1>1, <1>3 DEF ChoiceInv, SearchInv
    <2>2. WithGpu = {}
      BY <2>1 DEF WithGpu, Empty
    <2> QED
      BY <2>1, <2>2 DEF Empty
  <1> QED
    BY <1>2, <1>3

LEMMA RefusalStep ==
  ASSUME ChoiceInv, RefusalInv, [ProgNext]_progVars
  PROVE  RefusalInv'
  <1>0. stage = "ended" =>
          /\ stage' = "ended" /\ UNCHANGED <<machine, platform, argv, why>>
    BY DEF ProgNext, Main, Backend, EnvNext, Construct, ReadOption, UsageAsked, StartCpu,
      StartOpenCL, InvalidDevice, MoreOptions, OptionsRead, GetPlatforms, NoPlatform,
      CountGpus, NoGpusReported, GpuNotFound, ListGpus, BadDeviceId, ChooseDevice,
      CreateContext, CreateQueue, ReadDeviceInfo, EnvApiFails, Exits, RunStep,
      HandleRefused, RunnerExited, Destroy, progVars, allVars, mainVars, envVars, vars
  <1>1. CASE stage = "ended"
    <2>1. WithGpu' = WithGpu /\ FirstWithGpu' = FirstWithGpu
      BY <1>0, <1>1 DEF WithGpu, FirstWithGpu
    <2>2. Asked("i", 0)' = Asked("i", 0)
      BY <1>0, <1>1 DEF Asked
    <2> QED
      BY <1>0, <1>1, <2>1, <2>2 DEF RefusalInv, RefusesOnlyHere
  <1>2. CASE stage # "ended" /\ why' \notin {"no gpu", "device id"}
    BY <1>2 DEF RefusalInv, RefusesOnlyHere
  <1>3. CASE GpuNotFound /\ Backend
    <2>1. /\ stage = "count" /\ machine[platform].strict /\ machine[platform].gpus = <<>>
          /\ UNCHANGED <<machine, platform>> /\ why' = "no gpu" /\ stage' = "ended"
      BY <1>3 DEF GpuNotFound, AtPlatform, Exits
    <2>2. \A q \in 1 .. platform - 1 : machine[q].gpus = <<>>
      BY <2>1 DEF ChoiceInv, SearchInv, Empty
    <2>3. platform \in Int
      <3>1. EnvTyped
        BY DEF ChoiceInv, ProgInv, EnvInv
      <3>2. platform \in DOMAIN machine
        BY <2>1, <3>1 DEF EnvTyped
      <3>3. machine \in Seq([gpus : Seq(Gpus), strict : BOOLEAN])
        BY <3>1 DEF EnvTyped
      <3>4. DOMAIN machine = 1 .. Len(machine) /\ Len(machine) \in Nat
        BY <3>3
      <3> QED
        BY <3>2, <3>4
    <2>4. \A q \in 1 .. platform : machine[q].gpus = <<>>
      <3>1. \A q \in 1 .. platform : q \in 1 .. platform - 1 \/ q = platform
        BY <2>3
      <3> QED
        BY <2>1, <2>2, <3>1
    <2> QED
      BY <2>1, <2>4 DEF RefusalInv, RefusesOnlyHere
  <1>4. CASE BadDeviceId /\ Backend
    <2>1. /\ UNCHANGED <<machine, platform, argv>> /\ why' = "device id" /\ stage' = "ended"
      BY <1>4 DEF BadDeviceId, Backend, Exits
    <2>2. WithGpu' = WithGpu /\ FirstWithGpu' = FirstWithGpu
      BY <2>1 DEF WithGpu, FirstWithGpu
    <2>3. Asked("i", 0)' = Asked("i", 0)
      <3>1. argv' = argv
        BY <2>1
      <3> QED
        BY <3>1 DEF Asked
    <2> QED
      BY <1>4, <2>1, <2>2, <2>3, IndexRefused DEF RefusalInv, RefusesOnlyHere
  <1>5. ASSUME stage # "ended", why' \in {"no gpu", "device id"}
        PROVE  (GpuNotFound \/ BadDeviceId) /\ Backend
    <2>1. why \notin {"no gpu", "device id"}
      BY <1>5 DEF RefusalInv
    <2>2. CASE Main \/ UNCHANGED progVars
      BY <1>5, <2>1, <2>2 DEF Main, ReadOption, UsageAsked, StartCpu, StartOpenCL,
        InvalidDevice, Leaves, progVars, allVars, vars
    <2>3. CASE RunStep
      BY <1>5, <2>1, <2>3 DEF RunStep, Next, SkipRunner, StartRunner, CreateBuffers,
        BufferRefused, BuildProgram, CreateKernel, Launch, LaunchRefused, NextWidth,
        FinishRunner, ApiFails
    <2>4. CASE HandleRefused \/ RunnerExited \/ Destroy
      BY <1>5, <2>1, <2>4 DEF HandleRefused, RunnerExited, Destroy, Exits, vars
    <2>5. CASE Construct /\ ~(GpuNotFound \/ BadDeviceId)
      BY <1>5, <2>1, <2>5 DEF Construct, GetPlatforms, NoPlatform, CountGpus,
        NoGpusReported, ListGpus, ChooseDevice, CreateContext, CreateQueue,
        ReadDeviceInfo, EnvApiFails, Exits, vars
    <2> QED
      BY <2>2, <2>3, <2>4, <2>5 DEF ProgNext, Backend, EnvNext
  <1> QED
    BY <1>1, <1>2, <1>3, <1>4, <1>5

\* A device that exists is refused only because a platform before it says
\* that it has no GPU.
THEOREM RefusalsAreConfined == ProgSpec => []RefusesOnlyHere
  <1>1. ProgInit => RefusalInv
    BY DEF ProgInit, EnvInit, Fresh, RefusalInv, RefusesOnlyHere
  <1>2. ChoiceInv /\ RefusalInv /\ [ProgNext]_progVars => RefusalInv'
    BY RefusalStep
  <1>3. RefusalInv => RefusesOnlyHere
    BY DEF RefusalInv
  <1> QED
    BY <1>1, <1>2, <1>3, ChoiceInvariance, PTL DEF ProgSpec

LEMMA PropsBuilt ==
  ASSUME NEW d, NEW p
  PROVE  LET s == ContextProps(d, p)
         IN  /\ s[2] = p /\ s[Len(s)] = 0 /\ Len(s) <= MaxProps
             /\ Len(s) > 3 <=> "cl_qcom_perf_hint" \in d.exts
  <1>1. CASE "cl_qcom_perf_hint" \in d.exts
    <2> DEFINE s == <<"CL_CONTEXT_PLATFORM", p, "CL_CONTEXT_PERF_HINT_QCOM",
                      "CL_PERF_HINT_HIGH_QCOM", "CL_CONTEXT_PRIORITY_HINT_QCOM",
                      "CL_PRIORITY_HINT_HIGH_QCOM", 0>>
    <2>1. ContextProps(d, p) = s
      BY <1>1 DEF ContextProps
    <2>2. Len(s) = 7 /\ s[2] = p /\ s[7] = 0
      OBVIOUS
    <2> QED
      BY <1>1, <2>1, <2>2, MachinesAssumption
  <1>2. CASE "cl_qcom_perf_hint" \notin d.exts
    <2> DEFINE s == <<"CL_CONTEXT_PLATFORM", p, 0>>
    <2>1. ContextProps(d, p) = s
      BY <1>2 DEF ContextProps
    <2>2. Len(s) = 3 /\ s[2] = p /\ s[3] = 0
      OBVIOUS
    <2> QED
      BY <1>2, <2>1, <2>2, MachinesAssumption
  <1> QED
    BY <1>1, <1>2

\* The device that is chosen is the one the last -i asks for, on the first
\* platform with a GPU, and its context is made on that platform.
THEOREM ChoiceIsAsked == ProgSpec => ChoosesAskedGpu
  <1> DEFINE Right ==
        stage = "choose" /\ stage' = "context" =>
          /\ Asked("d", "cpu") = "opencl"
          /\ WithGpu # {}
          /\ Chosen = machine[FirstWithGpu].gpus[Asked("i", 0) + 1]
          /\ props'[2] = FirstWithGpu /\ props'[Len(props')] = 0
          /\ Len(props') <= MaxProps
          /\ Len(props') > 3 <=> "cl_qcom_perf_hint" \in Chosen.exts
  <1>1. ASSUME ChoiceInv, [ProgNext]_progVars, stage = "choose", stage' = "context"
        PROVE  Right
    <2>1. ChooseDevice
      BY <1>1 DEF ProgNext, Main, Backend, EnvNext, Construct, ReadOption, UsageAsked,
        StartCpu, StartOpenCL, InvalidDevice, MoreOptions, OptionsRead, GetPlatforms,
        NoPlatform, CountGpus, NoGpusReported, GpuNotFound, ListGpus, BadDeviceId,
        CreateContext, CreateQueue, ReadDeviceInfo, EnvApiFails, Exits, RunStep,
        HandleRefused, RunnerExited, Destroy, progVars, allVars, envVars
    <2>2. /\ devIdx < Len(deviceIds) /\ deviceIds # <<>> /\ devIdx \in Nat
          /\ props' = ContextProps(Chosen, platform)
      <3>1. deviceIds \in Seq(Gpus) /\ devIdx \in Nat
        BY <1>1 DEF ChoiceInv, ProgInv, EnvInv, EnvTyped
      <3>2. Len(deviceIds) \in Nat
        BY <3>1
      <3> QED
        BY <2>1, <3>1, <3>2 DEF ChooseDevice, IdInvalid
    <2>3. /\ WithGpu # {} /\ FirstWithGpu = platform
          /\ deviceIds = machine[platform].gpus
      BY <1>1, <2>2, FirstFound
    <2>4. /\ Asked("d", "cpu") = "opencl"
          /\ Asked("i", 0) \in -INTS .. INTS - 1 /\ devIdx = DevId(Asked("i", 0))
      BY <1>1, IndexIsAsked
    <2>5. Len(deviceIds) <= INTS
      <3>1. platform \in DOMAIN machine
        BY <1>1, <2>2 DEF ChoiceInv, SearchInv
      <3> QED
        BY <1>1, <2>3, <3>1 DEF ChoiceInv, RangeInv
    <2>6. devIdx = Asked("i", 0)
      <3>1. Len(deviceIds) \in Nat /\ INTS \in Nat
        BY <1>1, RangeAssumption DEF ChoiceInv, ProgInv, EnvInv, EnvTyped
      <3>2. Asked("i", 0) < 0 => devIdx >= INTS
        BY <2>4, DevIdIs
      <3>3. Asked("i", 0) >= 0 => devIdx = Asked("i", 0)
        BY <2>4, DevIdIs
      <3>4. ~(Asked("i", 0) < 0)
        BY <2>2, <2>5, <3>1, <3>2
      <3> QED
        BY <2>4, <3>1, <3>3, <3>4
    <2>7. Chosen = machine[FirstWithGpu].gpus[Asked("i", 0) + 1]
      BY <2>3, <2>6 DEF Chosen
    <2>8. /\ props'[2] = FirstWithGpu /\ props'[Len(props')] = 0
          /\ Len(props') <= MaxProps
          /\ Len(props') > 3 <=> "cl_qcom_perf_hint" \in Chosen.exts
      BY <2>2, <2>3, PropsBuilt
    <2> QED
      BY <2>3, <2>4, <2>7, <2>8
  <1>2. ChoiceInv /\ [ProgNext]_progVars => [Right]_progVars
    BY <1>1
  <1> QED
    BY <1>2, ChoiceInvariance, PTL DEF ProgSpec, ChoosesAskedGpu

-------------------------------------------------------------------------------
Names == {"local", "global", "int", "float", "half", "double"}
Line  == Names \X Nat

\* The lines of the n-th runner, and of those from the n-th on.
RunnerLines(n, d) == IF n \in 1 .. 6 THEN Lines(Runners[n], d) ELSE <<>>

LinesFrom(n, d) ==
  RunnerLines(n, d) \o (RunnerLines(n + 1, d) \o (RunnerLines(n + 2, d)
    \o (RunnerLines(n + 3, d) \o (RunnerLines(n + 4, d) \o RunnerLines(n + 5, d)))))

\* The lines of the runner at work, from the n-th width on.
FromWidth(n) == SubSeq(Lines(runner, dev), n, Len(Lines(runner, dev)))

\* The lines still to be printed.
Rest ==
  CASE pc = "runner" -> LinesFrom(r, dev)
    [] pc \in Busy \ {"next"} -> FromWidth(w) \o LinesFrom(r + 1, dev)
    [] pc = "next" -> FromWidth(w + 1) \o LinesFrom(r + 1, dev)
    [] OTHER -> <<>>

Started(d) == \E u \in Seq(Line) : reports \o u = Expected(d)

\* A session at work.
ReportsInv ==
  /\ reports \in Seq(Line) /\ Started(dev)
  /\ pc # "exited" => reports \o Rest = Expected(dev)
  /\ why = "finished" => pc = "done"

LEMMA LinesAre ==
  ASSUME NEW x \in Names, NEW d
  PROVE  /\ Lines(x, d) \in Seq(Line)
         /\ Supported(x, d) =>
              /\ Len(Lines(x, d)) = Len(Widths(x))
              /\ \A j \in 1 .. Len(Widths(x)) : Lines(x, d)[j] = <<x, Widths(x)[j]>>
         /\ ~Supported(x, d) => Lines(x, d) = <<>>
  <1>1. Len(Widths(x)) \in Nat /\ \A j \in 1 .. Len(Widths(x)) : Widths(x)[j] \in Nat
    BY WidthsAre
  <1> DEFINE n == Len(Widths(x))
             f == [j \in 1 .. n |-> <<x, Widths(x)[j]>>]
  <1>2. \A j \in 1 .. n : <<x, Widths(x)[j]>> \in Line
    BY <1>1 DEF Line
  <1>3. f \in Seq(Line) /\ Len(f) = n /\ \A j \in 1 .. n : f[j] = <<x, Widths(x)[j]>>
    <2>1. n \in Nat /\ f \in [1 .. n -> Line]
      BY <1>1, <1>2
    <2> HIDE DEF n
    <2>2. \A j \in 1 .. n : f[j] = <<x, Widths(x)[j]>>
      OBVIOUS
    <2> HIDE DEF f
    <2> QED
      BY <2>1, <2>2, SeqDef
  <1> QED
    BY <1>1, <1>3 DEF Lines

LEMMA RunnerLinesAre ==
  ASSUME NEW n, NEW d
  PROVE  RunnerLines(n, d) \in Seq(Line)
  <1>1. n \in 1 .. 6 => Runners[n] \in Names
    BY RunnersAre DEF Names
  <1>2. <<>> \in Seq(Line)
    OBVIOUS
  <1> QED
    BY <1>1, <1>2, LinesAre DEF RunnerLines

LEMMA LinesFromTyped ==
  ASSUME NEW n, NEW d
  PROVE  LinesFrom(n, d) \in Seq(Line)
  BY RunnerLinesAre, ConcatProperties DEF LinesFrom

LEMMA NoLinesLeft ==
  ASSUME NEW d
  PROVE  LinesFrom(7, d) = <<>>
  <1>1. \A n \in 7 .. 12 : RunnerLines(n, d) = <<>>
    BY DEF RunnerLines
  <1>2. <<>> \in Seq(Line)
    OBVIOUS
  <1>3. <<>> \o <<>> = <<>>
    BY <1>2, ConcatEmptySeq
  <1> QED
    BY <1>1, <1>3 DEF LinesFrom

LEMMA LinesFromNext ==
  ASSUME NEW n \in 1 .. 6, NEW d
  PROVE  LinesFrom(n, d) = Lines(Runners[n], d) \o LinesFrom(n + 1, d)
  <1>1. RunnerLines(n + 6, d) = <<>> /\ RunnerLines(n, d) = Lines(Runners[n], d)
    BY DEF RunnerLines
  <1>2. RunnerLines(n + 5, d) \o RunnerLines(n + 6, d) = RunnerLines(n + 5, d)
    BY <1>1, RunnerLinesAre, ConcatEmptySeq
  <1>3. /\ n + 1 + 1 = n + 2 /\ n + 1 + 2 = n + 3 /\ n + 1 + 3 = n + 4
        /\ n + 1 + 4 = n + 5 /\ n + 1 + 5 = n + 6
    OBVIOUS
  <1> QED
    BY <1>1, <1>2, <1>3 DEF LinesFrom

LEMMA JoinRight ==
  ASSUME NEW s \in Seq(Line), NEW t \in Seq(Line), NEW u \in Seq(Line)
  PROVE  (s \o t) \o u = s \o (t \o u)
  BY ConcatAssociative

LEMMA JoinedTyped ==
  ASSUME NEW s \in Seq(Line), NEW t \in Seq(Line)
  PROVE  s \o t \in Seq(Line)
  BY ConcatProperties

\* The lines from the first runner on are all the lines.
LEMMA AllLines ==
  ASSUME NEW d
  PROVE  LinesFrom(1, d) = Expected(d) /\ Expected(d) \in Seq(Line)
  <1> DEFINE s1 == Lines("local", d)
             s2 == s1 \o Lines("global", d)
             s3 == s2 \o Lines("int", d)
             s4 == s3 \o Lines("float", d)
             s5 == s4 \o Lines("half", d)
             s6 == s5 \o Lines("double", d)
  <1>0. s6 = Expected(d)
    BY DEF Expected
  <1>1. s1 \in Seq(Line) /\ LinesFrom(1, d) = s1 \o LinesFrom(2, d)
    BY LinesAre, LinesFromNext DEF Runners, Names
  <1> HIDE DEF s1
  <1>2. s2 \in Seq(Line) /\ s1 \o LinesFrom(2, d) = s2 \o LinesFrom(3, d)
    <2> DEFINE t == Lines("global", d)
    <2>1. LinesFrom(2, d) = t \o LinesFrom(3, d)
      BY LinesFromNext DEF Runners
    <2>2. t \in Seq(Line) /\ LinesFrom(3, d) \in Seq(Line)
      BY LinesAre, LinesFromTyped DEF Names
    <2>3. s2 = s1 \o t
      OBVIOUS
    <2> HIDE DEF t, s2
    <2>4. s1 \o (t \o LinesFrom(3, d)) = (s1 \o t) \o LinesFrom(3, d)
      BY <1>1, <2>2, JoinRight
    <2>5. s1 \o t \in Seq(Line)
      BY <1>1, <2>2, JoinedTyped
    <2> QED
      BY <2>1, <2>3, <2>4, <2>5, Zenon
  <1> HIDE DEF s2
  <1>3. s3 \in Seq(Line) /\ s2 \o LinesFrom(3, d) = s3 \o LinesFrom(4, d)
    <2> DEFINE t == Lines("int", d)
    <2>1. LinesFrom(3, d) = t \o LinesFrom(4, d)
      BY LinesFromNext DEF Runners
    <2>2. t \in Seq(Line) /\ LinesFrom(4, d) \in Seq(Line)
      BY LinesAre, LinesFromTyped DEF Names
    <2>3. s3 = s2 \o t
      OBVIOUS
    <2> HIDE DEF t, s3
    <2>4. s2 \o (t \o LinesFrom(4, d)) = (s2 \o t) \o LinesFrom(4, d)
      BY <1>2, <2>2, JoinRight
    <2>5. s2 \o t \in Seq(Line)
      BY <1>2, <2>2, JoinedTyped
    <2> QED
      BY <2>1, <2>3, <2>4, <2>5, Zenon
  <1> HIDE DEF s3
  <1>4. s4 \in Seq(Line) /\ s3 \o LinesFrom(4, d) = s4 \o LinesFrom(5, d)
    <2> DEFINE t == Lines("float", d)
    <2>1. LinesFrom(4, d) = t \o LinesFrom(5, d)
      BY LinesFromNext DEF Runners
    <2>2. t \in Seq(Line) /\ LinesFrom(5, d) \in Seq(Line)
      BY LinesAre, LinesFromTyped DEF Names
    <2>3. s4 = s3 \o t
      OBVIOUS
    <2> HIDE DEF t, s4
    <2>4. s3 \o (t \o LinesFrom(5, d)) = (s3 \o t) \o LinesFrom(5, d)
      BY <1>3, <2>2, JoinRight
    <2>5. s3 \o t \in Seq(Line)
      BY <1>3, <2>2, JoinedTyped
    <2> QED
      BY <2>1, <2>3, <2>4, <2>5, Zenon
  <1> HIDE DEF s4
  <1>5. s5 \in Seq(Line) /\ s4 \o LinesFrom(5, d) = s5 \o LinesFrom(6, d)
    <2> DEFINE t == Lines("half", d)
    <2>1. LinesFrom(5, d) = t \o LinesFrom(6, d)
      BY LinesFromNext DEF Runners
    <2>2. t \in Seq(Line) /\ LinesFrom(6, d) \in Seq(Line)
      BY LinesAre, LinesFromTyped DEF Names
    <2>3. s5 = s4 \o t
      OBVIOUS
    <2> HIDE DEF t, s5
    <2>4. s4 \o (t \o LinesFrom(6, d)) = (s4 \o t) \o LinesFrom(6, d)
      BY <1>4, <2>2, JoinRight
    <2>5. s4 \o t \in Seq(Line)
      BY <1>4, <2>2, JoinedTyped
    <2> QED
      BY <2>1, <2>3, <2>4, <2>5, Zenon
  <1> HIDE DEF s5
  <1>6. s6 \in Seq(Line) /\ s5 \o LinesFrom(6, d) = s6 \o LinesFrom(7, d)
    <2> DEFINE t == Lines("double", d)
    <2>1. LinesFrom(6, d) = t \o LinesFrom(7, d)
      BY LinesFromNext DEF Runners
    <2>2. t \in Seq(Line) /\ LinesFrom(7, d) \in Seq(Line)
      BY LinesAre, LinesFromTyped DEF Names
    <2>3. s6 = s5 \o t
      OBVIOUS
    <2> HIDE DEF t, s6
    <2>4. s5 \o (t \o LinesFrom(7, d)) = (s5 \o t) \o LinesFrom(7, d)
      BY <1>5, <2>2, JoinRight
    <2>5. s5 \o t \in Seq(Line)
      BY <1>5, <2>2, JoinedTyped
    <2> QED
      BY <2>1, <2>3, <2>4, <2>5, Zenon
  <1> HIDE DEF s6
  <1>7. s6 \o LinesFrom(7, d) = s6
    BY <1>6, NoLinesLeft, ConcatEmptySeq
  <1> QED
    BY <1>0, <1>1, <1>2, <1>3, <1>4, <1>5, <1>6, <1>7, Zenon

\* What has been printed is a beginning of the whole.
LEMMA BeginningIsSubSeq ==
  ASSUME NEW s \in Seq(Line), NEW u \in Seq(Line), s # <<>>
  PROVE  \E n \in 1 .. Len(s \o u) : s = SubSeq(s \o u, 1, n)
  <1>1. Len(s) \in Nat \ {0} /\ Len(u) \in Nat /\ Len(s \o u) = Len(s) + Len(u)
    BY ConcatProperties, EmptySeq
  <1>2. SubSeq(s \o u, 1, Len(s)) = SubSeq(s, 1, Len(s))
    BY <1>1, SubSeqOfConcat1
  <1>3. SubSeq(s, 1, Len(s)) = s
    BY SubSeqFull
  <1>4. Len(s) \in 1 .. Len(s \o u)
    BY <1>1
  <1> QED
    BY <1>2, <1>3, <1>4

LEMMA FromWidthTyped ==
  ASSUME r \in 1 .. 6, NEW n \in Nat \ {0}
  PROVE  FromWidth(n) \in Seq(Line)
  <1>1. Lines(runner, dev) \in Seq(Line)
    BY RunnersAre, LinesAre DEF runner, Names
  <1> DEFINE s == Lines(runner, dev)
  <1>2. Len(s) \in Nat /\ \A i \in n .. Len(s) : s[i] \in Line
    BY <1>1
  <1> HIDE DEF s
  <1> QED
    BY <1>2, SubSeqProperties DEF FromWidth, s

LEMMA RestTyped ==
  ASSUME r \in 1 .. 6, w \in Nat \ {0}
  PROVE  Rest \in Seq(Line)
  <1>1. <<>> \in Seq(Line) /\ w + 1 \in Nat \ {0}
    OBVIOUS
  <1>2. LinesFrom(r, dev) \in Seq(Line) /\ LinesFrom(r + 1, dev) \in Seq(Line)
    BY LinesFromTyped
  <1>3. FromWidth(w) \in Seq(Line) /\ FromWidth(w + 1) \in Seq(Line)
    BY <1>1, FromWidthTyped
  <1> QED
    BY <1>1, <1>2, <1>3, ConcatProperties DEF Rest

\* One line less is left when a line is printed.
LEMMA PrintOne ==
  ASSUME r \in 1 .. 6, w \in 1 .. Len(Widths(runner)), Supported(runner, dev),
         reports \in Seq(Line)
  PROVE  LET l == <<runner, width>>
         IN  /\ l \in Line /\ Append(reports, l) \in Seq(Line)
             /\ Append(reports, l) \o (FromWidth(w + 1) \o LinesFrom(r + 1, dev))
                  = reports \o (FromWidth(w) \o LinesFrom(r + 1, dev))
  <1> DEFINE l == <<runner, width>>
             s == Lines(runner, dev)
             t == FromWidth(w + 1)
             u == LinesFrom(r + 1, dev)
             n == Len(Widths(runner))
  <1>1. runner \in Names
    BY RunnersAre DEF runner, Names
  <1>2. /\ s \in Seq(Line) /\ Len(s) = n /\ n \in Nat
        /\ \A j \in 1 .. n : s[j] = <<runner, Widths(runner)[j]>>
    BY <1>1, LinesAre, WidthsAre
  <1>3. l = s[w] /\ l \in Line
    BY <1>1, <1>2, WidthsAre DEF width, Line
  <1>4. FromWidth(w) = <<l>> \o t
    <2>1. w \in 1 .. Len(s) /\ Len(s) \in w .. Len(s)
      BY <1>2
    <2>2. SubSeq(s, w, Len(s)) = <<s[w]>> \o SubSeq(s, w + 1, Len(s))
      <3> HIDE DEF s
      <3> QED
        BY <1>2, <2>1, SubSeqRecursiveFirst
    <2> QED
      BY <1>3, <2>2 DEF FromWidth
  <1>5. t \in Seq(Line) /\ u \in Seq(Line)
    BY <1>2, FromWidthTyped, LinesFromTyped
  <1>6. <<l>> \in Seq(Line)
    BY <1>3
  <1> HIDE DEF l, t, u
  <1>7. t \o u \in Seq(Line)
    BY <1>5, ConcatProperties
  <1>8. Append(reports, l) = reports \o <<l>> /\ Append(reports, l) \in Seq(Line)
    BY <1>3, AppendIsConcat, AppendProperties
  <1>9. (<<l>> \o t) \o u = <<l>> \o (t \o u)
    BY <1>5, <1>6, JoinRight
  <1>10. (reports \o <<l>>) \o (t \o u) = reports \o (<<l>> \o (t \o u))
    BY <1>6, <1>7, JoinRight
  <1> QED
    BY <1>3, <1>4, <1>8, <1>9, <1>10 DEF l, t, u

LEMMA WholeRunner ==
  ASSUME r \in 1 .. 6
  PROVE  /\ FromWidth(1) = Lines(runner, dev)
         /\ Supported(runner, dev) => FromWidth(Len(Widths(runner)) + 1) = <<>>
         /\ LinesFrom(r, dev) = Lines(runner, dev) \o LinesFrom(r + 1, dev)
         /\ <<>> \o LinesFrom(r + 1, dev) = LinesFrom(r + 1, dev)
         /\ r = 6 => LinesFrom(r + 1, dev) = <<>>
  <1>1. runner \in Names
    BY RunnersAre DEF runner, Names
  <1> DEFINE s == Lines(runner, dev)
  <1>2. s \in Seq(Line) /\ (Supported(runner, dev) => Len(s) = Len(Widths(runner)))
    BY <1>1, LinesAre
  <1>3. FromWidth(1) = s
    BY <1>2, SubSeqFull DEF FromWidth
  <1>4. Supported(runner, dev) => FromWidth(Len(Widths(runner)) + 1) = <<>>
    <2>1. SubSeq(s, Len(s) + 1, Len(s)) = <<>>
      BY <1>2, SubSeqEmpty
    <2> QED
      BY <1>2, <2>1 DEF FromWidth
  <1>5. LinesFrom(r, dev) = s \o LinesFrom(r + 1, dev)
    BY LinesFromNext DEF runner
  <1>6. <<>> \o LinesFrom(r + 1, dev) = LinesFrom(r + 1, dev)
    BY LinesFromTyped, ConcatEmptySeq
  <1>7. r = 6 => LinesFrom(r + 1, dev) = <<>>
    <2>1. r = 6 => r + 1 = 7
      OBVIOUS
    <2> QED
      BY <2>1, NoLinesLeft
  <1> QED
    BY <1>3, <1>4, <1>5, <1>6, <1>7

\* A step that prints nothing and leaves as much to print.
LEMMA NothingPrinted ==
  ASSUME ReportsInv, reports' = reports, dev' = dev,
         pc' # "exited" => pc # "exited" /\ Rest' = Rest,
         why' = "finished" => pc' = "done"
  PROVE  ReportsInv'
  <1>1. Started(dev)' /\ reports' \in Seq(Line) /\ Expected(dev') = Expected(dev)
    BY DEF ReportsInv, Started, Line, Names
  <1>2. pc' # "exited" => reports' \o Rest' = Expected(dev')
    BY <1>1 DEF ReportsInv
  <1> QED
    BY <1>1, <1>2 DEF ReportsInv, Line, Names

LEMMA ReportsStep ==
  ASSUME SessionInv, ReportsInv, Next
  PROVE  ReportsInv'
  <1>0. /\ r \in 1 .. 6 /\ w \in Nat \ {0} /\ runner \in Names /\ Len(Runners) = 6
        /\ Len(Widths(runner)) \in Nat
        /\ why = "finished" => pc = "done"
    BY RunnersAre, WidthsAre DEF SessionInv, SessionTyped, ReportsInv, runner, Names
  <1>1. CASE SkipRunner
    <2>1. /\ pc = "runner" /\ ~Supported(runner, dev) /\ reports' = reports /\ dev' = dev
          /\ \/ r < 6 /\ r' = r + 1 /\ pc' = "runner" /\ why' = why
             \/ r = 6 /\ pc' = "done"
      BY <1>0, <1>1 DEF SkipRunner, Skipped
    <2>2. Rest = LinesFrom(r + 1, dev)
      BY <1>0, <2>1, WholeRunner, LinesAre DEF Rest, Busy
    <2>3. CASE r < 6
      <3>1. Rest' = LinesFrom(r + 1, dev)
        BY <2>1, <2>3 DEF Rest, Busy
      <3> QED
        BY <1>0, <2>1, <2>2, <2>3, <3>1, NothingPrinted
    <2>4. CASE r = 6
      <3>1. Rest' = <<>> /\ pc' = "done"
        BY <2>1, <2>4 DEF Rest, Busy
      <3> QED
        BY <1>0, <2>1, <2>2, <2>4, <3>1, WholeRunner, NothingPrinted
    <2> QED
      BY <2>1, <2>3, <2>4
  <1>2. CASE StartRunner
    <2>1. /\ pc = "runner" /\ pc' = "buffers" /\ w' = 1
          /\ UNCHANGED <<dev, r, reports, why>>
      BY <1>2 DEF StartRunner
    <2>2. Rest = Lines(runner, dev) \o LinesFrom(r + 1, dev)
      BY <1>0, <2>1, WholeRunner DEF Rest, Busy
    <2>3. Rest' = FromWidth(1) \o LinesFrom(r + 1, dev)
      BY <2>1 DEF Rest, Busy, FromWidth, runner
    <2> QED
      BY <1>0, <2>1, <2>2, <2>3, WholeRunner, NothingPrinted
  <1>3. CASE CreateBuffers \/ BuildProgram
    <2>1. /\ pc \in Busy \ {"next"} /\ pc' \in Busy \ {"next"}
          /\ UNCHANGED <<dev, r, w, reports, why>>
      BY <1>3 DEF CreateBuffers, BuildProgram, Busy
    <2>2. Rest' = Rest
      BY <2>1 DEF Rest, Busy, FromWidth, runner
    <2> QED
      BY <1>0, <2>1, <2>2, NothingPrinted DEF Busy
  <1>4. CASE CreateKernel
    <2>1. /\ pc = "kernel" /\ UNCHANGED <<dev, r, w, reports>>
          /\ \/ pc' = "exited" /\ why' = "argument size"
             \/ pc' \in Busy \ {"next"} /\ why' = why
      BY <1>4 DEF CreateKernel, Busy
    <2>2. pc' # "exited" => Rest' = Rest
      BY <2>1 DEF Rest, Busy, FromWidth, runner
    <2> QED
      BY <1>0, <2>1, <2>2, NothingPrinted DEF Busy
  <1>5. CASE Launch
    <2>1. /\ pc = "launch" /\ UNCHANGED <<dev, r, w, why>>
          /\ \/ pc' = pc /\ reports' = reports
             \/ pc' = "next" /\ reports' = Append(reports, <<runner, width>>)
      BY <1>5 DEF Launch
    <2>2. CASE pc' = pc /\ reports' = reports
      <3>1. Rest' = Rest
        BY <2>1, <2>2 DEF Rest, Busy, FromWidth, runner
      <3> QED
        BY <1>0, <2>1, <2>2, <3>1, NothingPrinted
    <2>3. CASE pc' = "next" /\ reports' = Append(reports, <<runner, width>>)
      <3>1. w \in 1 .. Len(Widths(runner)) /\ Supported(runner, dev) /\ reports \in Seq(Line)
        BY <1>0, <2>1 DEF SessionInv, Positions, BuffersAlive, ReportsInv, Busy
      <3>2. Rest = FromWidth(w) \o LinesFrom(r + 1, dev)
        BY <2>1 DEF Rest, Busy
      <3>3. Rest' = FromWidth(w + 1) \o LinesFrom(r + 1, dev)
        BY <2>1, <2>3 DEF Rest, Busy, FromWidth, runner
      <3>4. reports' \in Seq(Line) /\ reports' \o Rest' = reports \o Rest
        BY <1>0, <2>3, <3>1, <3>2, <3>3, PrintOne
      <3>5. reports \o Rest = Expected(dev)
        BY <2>1 DEF ReportsInv
      <3>6. Rest' \in Seq(Line)
        <4>1. w + 1 \in Nat \ {0}
          BY <1>0
        <4> QED
          BY <1>0, <3>3, <4>1, FromWidthTyped, LinesFromTyped, JoinedTyped
      <3> QED
        BY <1>0, <2>1, <2>3, <3>4, <3>5, <3>6 DEF ReportsInv, Started, Line, Names
    <2> QED
      BY <2>1, <2>2, <2>3
  <1>6. CASE NextWidth
    <2>1. /\ pc = "next" /\ pc' = "kernel" /\ w' = w + 1
          /\ UNCHANGED <<dev, r, reports, why>>
      BY <1>6 DEF NextWidth
    <2>2. Rest' = Rest
      BY <2>1 DEF Rest, Busy, FromWidth, runner
    <2> QED
      BY <1>0, <2>1, <2>2, NothingPrinted
  <1>7. CASE FinishRunner
    <2>1. /\ pc = "next" /\ ~(w < Len(Widths(runner))) /\ UNCHANGED <<dev, w, reports>>
          /\ \/ r < 6 /\ r' = r + 1 /\ pc' = "runner" /\ why' = why
             \/ r = 6 /\ pc' = "done"
      BY <1>0, <1>7 DEF FinishRunner, MoreWidths
    <2>2. w = Len(Widths(runner)) /\ Supported(runner, dev)
      BY <1>0, <2>1 DEF SessionInv, Positions, BuffersAlive, Busy
    <2>3. Rest = LinesFrom(r + 1, dev)
      BY <1>0, <2>1, <2>2, WholeRunner DEF Rest, Busy
    <2>4. CASE r < 6
      <3>1. Rest' = LinesFrom(r + 1, dev)
        BY <2>1, <2>4 DEF Rest, Busy
      <3> QED
        BY <1>0, <2>1, <2>3, <2>4, <3>1, NothingPrinted
    <2>5. CASE r = 6
      <3>1. Rest' = <<>> /\ pc' = "done"
        BY <2>1, <2>5 DEF Rest, Busy
      <3> QED
        BY <1>0, <2>1, <2>3, <2>5, <3>1, WholeRunner, NothingPrinted
    <2> QED
      BY <2>1, <2>4, <2>5
  <1>8. CASE BufferRefused \/ LaunchRefused \/ ApiFails
    <2>1. pc' = "exited" /\ why' # "finished" /\ UNCHANGED <<dev, reports>>
      BY <1>8 DEF BufferRefused, LaunchRefused, ApiFails
    <2> QED
      BY <2>1, NothingPrinted
  <1> QED
    BY <1>1, <1>2, <1>3, <1>4, <1>5, <1>6, <1>7, <1>8 DEF Next

-------------------------------------------------------------------------------
\* The reports of the whole program, and how it ends.
EndInv ==
  /\ reports \in Seq(Line) /\ Started(dev)
  /\ stage \in Searching \cup Making => reports = <<>>
  /\ stage = "run" => ReportsInv
  /\ stage # "ended" => ctx # "released" /\ queue # "released" /\ exitStatus = "running"
  /\ exitStatus \notin {"running", "0"} =>
       ctx # "released" /\ queue # "released" /\ why # "finished"
  /\ exitStatus = "0" =>
       reports = Expected(dev) /\ ctx = "released" /\ queue = "released"

LEMMA NothingYet ==
  ASSUME NEW d
  PROVE  <<>> \in Seq(Line) /\ <<>> \o Expected(d) = Expected(d)
  BY AllLines, ConcatEmptySeq, EmptySeq

\* The process ends early.
LEMMA EndedEarly ==
  ASSUME EndInv, stage # "ended", stage' = "ended", exitStatus' \notin {"running", "0"},
         why' # "finished", UNCHANGED <<ctx, queue, reports, dev>>
  PROVE  EndInv'
  <1>1. Started(dev)' /\ reports' \in Seq(Line)
    BY DEF EndInv, Started, Line, Names
  <1> QED
    BY <1>1 DEF EndInv, Searching, Making, Line, Names

\* The constructor or main goes on.
LEMMA StillBefore ==
  ASSUME EndInv, stage \in Searching \cup Making, stage' \in Searching \cup Making,
         ctx' # "released", queue' # "released", UNCHANGED <<reports, dev, exitStatus>>
  PROVE  EndInv'
  <1>1. Started(dev)' /\ reports' \in Seq(Line)
    BY DEF EndInv, Started, Line, Names
  <1> QED
    BY <1>1 DEF EndInv, Searching, Making, Line, Names

LEMMA EndStep ==
  ASSUME ProgInv, EndInv, [ProgNext]_progVars
  PROVE  EndInv'
  <1>0. /\ stage \in Searching \cup Making \cup {"run", "ended"}
        /\ stage \in Searching \cup Making => Fresh
    BY DEF ProgInv, EnvInv, EnvFresh
  <1>1. CASE ReadOption \/ StartCpu \/ StartOpenCL
    <2>1. /\ stage = "options" /\ stage' \in {"options", "cpu", "platforms"}
          /\ UNCHANGED <<ctx, queue, reports, dev>> /\ exitStatus' \in {"running", exitStatus}
      BY <1>1 DEF ReadOption, StartCpu, StartOpenCL, Leaves, MoreOptions, OptionsRead, vars
    <2> QED
      BY <2>1, StillBefore DEF EndInv, Searching, Making
  <1>2. CASE UsageAsked \/ InvalidDevice
    BY <1>2, EndedEarly
    DEF UsageAsked, InvalidDevice, Leaves, MoreOptions, OptionsRead
  <1>3. CASE GetPlatforms \/ CountGpus \/ NoGpusReported \/ ListGpus \/ ChooseDevice
    <2>1. /\ stage \in Searching /\ stage' \in Searching \cup Making
          /\ UNCHANGED <<ctx, queue, reports, dev, exitStatus>>
      BY <1>3 DEF GetPlatforms, CountGpus, NoGpusReported, ListGpus, AfterList, ChooseDevice,
        Searching, Making, vars
    <2> QED
      BY <2>1, StillBefore DEF EndInv, Searching
  <1>4. CASE Exits("api") /\ stage # "ended"
    BY <1>4, EndedEarly DEF Exits
  <1>5. CASE NoPlatform \/ GpuNotFound \/ BadDeviceId \/ EnvApiFails \/ HandleRefused
    BY <1>5, EndedEarly
    DEF NoPlatform, GpuNotFound, BadDeviceId, EnvApiFails, HandleRefused, Exits
  <1>6. CASE CreateContext /\ ~Exits("api")
    <2>1. PICK made \in Made("clCreateContext", "live", "unset") :
            ctx' = made[1] /\ stage' = "queue" /\ UNCHANGED <<queue, exitStatus, vars>>
      BY <1>6 DEF CreateContext
    <2>2. made[1] \in {"null", "live"}
      BY <2>1 DEF Made
    <2> QED
      BY <1>6, <2>1, <2>2, StillBefore DEF CreateContext, EndInv, Searching, Making, vars
  <1>7. CASE CreateQueue /\ ~Exits("api")
    <2>1. PICK made \in Made("clCreateCommandQueue", ctx, ErrNum) :
            queue' = made[1] /\ stage' = "info" /\ UNCHANGED <<ctx, exitStatus, vars>>
      BY <1>7 DEF CreateQueue
    <2>2. made[1] \in {"null", "live"}
      BY <2>1 DEF Made
    <2> QED
      BY <1>7, <2>1, <2>2, StillBefore DEF CreateQueue, EndInv, Searching, Making, vars
  <1>8. CASE ReadDeviceInfo
    <2>1. /\ stage = "info" /\ stage' = "run"
          /\ UNCHANGED <<ctx, queue, exitStatus, pc, r, w, reports, why>>
      BY <1>8 DEF ReadDeviceInfo
    <2>2. pc = "runner" /\ r = 1 /\ reports = <<>> /\ why = "running"
      BY <1>0, <2>1 DEF Making, Fresh
    <2>3. Rest' = Expected(dev')
      BY <2>1, <2>2, AllLines DEF Rest, Busy
    <2>4. <<>> \o Expected(dev') = Expected(dev') /\ Expected(dev') \in Seq(Line)
      BY NothingYet, AllLines
    <2>5. reports' = <<>> /\ <<>> \in Seq(Line)
      BY <2>1, <2>2, NothingYet
    <2>6. Started(dev)' /\ reports' \in Seq(Line) /\ reports' \o Rest' = Expected(dev')
      BY <2>3, <2>4, <2>5 DEF Started, Line, Names
    <2>7. ReportsInv'
      BY <2>1, <2>2, <2>6 DEF ReportsInv, Line, Names
    <2> QED
      BY <2>1, <2>6, <2>7 DEF EndInv, Searching, Making, Line, Names
  <1>9. CASE RunStep
    <2>1. /\ stage = "run" /\ UNCHANGED <<stage, ctx, queue, exitStatus>> /\ ReportsInv /\ Next
      BY <1>9 DEF RunStep, envVars, EndInv
    <2>2. ReportsInv'
      BY <2>1, ReportsStep DEF ProgInv
    <2> QED
      BY <2>1, <2>2 DEF EndInv, ReportsInv, Searching, Making
  <1>10. CASE RunnerExited
    <2>1. /\ stage = "run" /\ pc = "exited" /\ stage' = "ended" /\ exitStatus' = "1"
          /\ UNCHANGED <<ctx, queue, reports, dev, why>>
      BY <1>10 DEF RunnerExited, vars
    <2>2. why # "finished"
      BY <2>1 DEF EndInv, ReportsInv
    <2> QED
      BY <2>1, <2>2, EndedEarly
  <1>11. CASE Destroy
    <2>1. /\ stage = "run" /\ pc = "done" /\ stage' = "ended" /\ exitStatus' = "0"
          /\ ctx' = "released" /\ queue' = "released" /\ UNCHANGED <<reports, dev>>
      BY <1>11 DEF Destroy, QueueAfterDestructor, vars
    <2>2. reports \in Seq(Line) /\ reports \o <<>> = Expected(dev) /\ Started(dev)
      BY <2>1 DEF EndInv, ReportsInv, Rest, Busy
    <2>3. reports = Expected(dev)
      BY <2>2, ConcatEmptySeq
    <2>4. Started(dev)' /\ Expected(dev)' = Expected(dev)
      BY <2>1, <2>2 DEF Started, Line, Names
    <2> QED
      BY <2>1, <2>2, <2>3, <2>4 DEF EndInv, Searching, Making, Line, Names
  <1>12. CASE UNCHANGED progVars
    <2>1. UNCHANGED <<stage, ctx, queue, exitStatus, reports, dev, pc, r, w, why>>
      BY <1>12 DEF progVars, allVars, envVars, vars
    <2>2. Started(dev)' /\ reports' \in Seq(Line)
      BY <2>1 DEF EndInv, Started, Line, Names
    <2>3. stage = "run" => ReportsInv'
      BY <2>1, NothingPrinted DEF EndInv, ReportsInv, Rest, FromWidth, runner, Busy
    <2> QED
      BY <2>1, <2>2, <2>3 DEF EndInv, Searching, Making, Line, Names
  <1>13. CreateContext \/ CreateQueue => stage # "ended"
    BY DEF CreateContext, CreateQueue
  <1> QED
    BY <1>1, <1>2, <1>3, <1>4, <1>5, <1>6, <1>7, <1>8, <1>9, <1>10, <1>11, <1>12, <1>13
    DEF ProgNext, Main, Backend, EnvNext, Construct

LEMMA EndInit ==
  ASSUME ProgInit
  PROVE  EndInv
  <1>1. /\ stage = "options" /\ reports = <<>> /\ ctx = "none" /\ queue = "none"
        /\ exitStatus = "running"
    BY DEF ProgInit, EnvInit, Fresh
  <1>2. Started(dev) /\ reports \in Seq(Line)
    BY <1>1, NothingYet, AllLines DEF Started
  <1> QED
    BY <1>1, <1>2 DEF EndInv, Searching, Making

\* Status 0 means the complete report and everything released; any other end
\* leaves a beginning of the report and releases nothing: on every device, on
\* every machine, and wherever a call fails.
THEOREM StatusTellsTheTruth == ProgSpec => []ZeroMeansComplete
  <1>1. ProgInit => EndInv
    BY EndInit
  <1>2. ProgInv /\ EndInv /\ [ProgNext]_progVars => EndInv'
    BY EndStep
  <1>3. EndInv => ZeroMeansComplete
    <2> SUFFICES ASSUME EndInv, exitStatus \notin {"running", "0"}, reports # <<>>
                 PROVE  \E n \in 1 .. Len(Expected(dev)) :
                          reports = SubSeq(Expected(dev), 1, n)
      BY DEF EndInv, ZeroMeansComplete
    <2>1. PICK u \in Seq(Line) : reports \o u = Expected(dev)
      BY DEF EndInv, Started
    <2>2. \E n \in 1 .. Len(reports \o u) : reports = SubSeq(reports \o u, 1, n)
      BY BeginningIsSubSeq DEF EndInv
    <2> QED
      BY <2>1, <2>2
  <1> QED
    BY <1>1, <1>2, <1>3, Invariance, PTL DEF ProgSpec
===============================================================================
