--------------------------- MODULE BenchLoopProofs ---------------------------
(***************************************************************************)
(* A benchmark that names what it writes runs its body as often as it was  *)
(* asked to, on the address it was given, and comes back with its caller's *)
(* registers intact: for any body, any number of iterations and any choice *)
(* of operand registers.  All benchmarks of the four processor families    *)
(* name what they write, and all but one count what they execute.          *)
(*                                                                         *)
(* What its dataflow comes to is read off one iteration of the body: some  *)
(* operation uses another's result if the body says so; a thread through   *)
(* the groups makes the chain as long as the run, a ceiling keeps it       *)
(* short, however often the body is repeated.  Every loop of the tables is *)
(* shown to be of the kind that CpuLoops lists it as.                      *)
(***************************************************************************)
EXTENDS CpuLoops, WellFoundedInduction, TLAPS

\* A counter below the modulus steps without wrapping around.
LEMMA UpStep == ASSUME NEW c \in Nat, c + 1 < MODULUS
                PROVE  (c + 1) % MODULUS = c + 1
BY MODULUSAssumption

LEMMA DownStep == ASSUME NEW c \in Nat \ {0}, c < MODULUS
                  PROVE  (c + MODULUS - 1) % MODULUS = c - 1
BY MODULUSAssumption

\* The parts of a benchmark have the types the assumption gives them.
LEMMA BenchTypes ==
  ASSUME NEW b \in Bench
  PROVE  /\ b.loops \in Nat \ {0} /\ b.loops < IterCap /\ 2 * b.loops < MODULUS
         /\ b.counts \in {"up", "down"}
         /\ b.per \in Nat
         /\ Len(b.body) \in Nat \ {0} /\ DOMAIN b.body = 1..Len(b.body)
         /\ \A g \in 1..Len(b.body) :
              /\ Len(b.body[g]) \in Nat \ {0}
              /\ DOMAIN b.body[g] = 1..Len(b.body[g])
BY BenchAssumption, MODULUSAssumption

\* An instruction the loop issues belongs to its body.
LEMMA IssuedInBody ==
  ASSUME bench \in Bench, group \in 1..Len(bench.body),
         at \in 1..Len(bench.body[group])
  PROVE  /\ Instr \in InstrsOf(bench)
         /\ Instr.dst \subseteq Written(bench)
         /\ Instr.dst \subseteq Locations(bench)
<1>1. bench.body[group] \in Range(bench.body)
  BY BenchTypes DEF Range
<1>2. Instr \in Range(bench.body[group])
  BY BenchTypes DEF Range, Instr
<1>3. Instr \in InstrsOf(bench)
  BY <1>1, <1>2 DEF InstrsOf
<1> QED
  BY <1>3 DEF Written, Locations

\* Where the compiler puts the operands.
LEMMA OperandPlaces ==
  ASSUME operand \in Operands(bench)
  PROVE  /\ operand.runs \in bench.pool
         /\ operand.runs \subseteq UNION bench.pool
         /\ operand.ptr \subseteq UNION bench.pool
         /\ operand.runs \cap operand.ptr = {}
         /\ (operand.runs \cup operand.ptr) \cap bench.clobbers = {}
<1>1. operand.runs \in bench.pool
  BY DEF Operands
<1>2. operand.ptr \in IF bench.memory THEN bench.pool ELSE {{}}
  BY DEF Operands
<1> QED
  BY <1>1, <1>2 DEF Operands

\* No instruction touches the counter, the bound or the address.
LEMMA OperandsSpared ==
  ASSUME NamesWhatItWrites(bench), operand \in Operands(bench)
  PROVE  /\ \A i \in InstrsOf(bench) :
              /\ i.dst \cap CounterRegister = {}
              /\ i.dst \cap operand.runs = {}
              /\ i.dst \cap operand.ptr = {}
         /\ (bench.zeroed \cup CounterRegister) \cap operand.ptr = {}
<1>1. /\ Written(bench) \cap operand.runs = {}
      /\ Written(bench) \cap operand.ptr = {}
  BY OperandPlaces DEF NamesWhatItWrites
<1>2. \A i \in InstrsOf(bench) : i.dst \subseteq Written(bench)
  BY DEF Written
<1>3. bench.zeroed \subseteq Written(bench) /\ bench.counter \subseteq Written(bench)
  BY DEF Written
<1>4. \A i \in InstrsOf(bench) : i.dst \cap bench.counter = {}
  BY DEF NamesWhatItWrites
<1> QED
  BY <1>1, <1>2, <1>3, <1>4, OperandPlaces DEF CounterRegister

------------------------------------------------------------------------------
LoopInv == bench \in Bench /\ IndInv

LEMMA InitInv ==
  ASSUME \A b \in Bench : NamesWhatItWrites(b), Init
  PROVE  LoopInv
<1> USE DEF Init
<1>1. TypeOK
  <2>1. 1 \in 1..Len(bench.body) /\ 1 \in 1..Len(bench.body[1])
    BY BenchTypes
  <2>2. bound \in 0..(MODULUS - 1) /\ counter \in 0..(MODULUS - 1)
    BY BenchTypes, MODULUSAssumption
  <2>3. iter \in 0..IterCap
    BY MODULUSAssumption
  <2> QED
    BY <2>1, <2>2, <2>3 DEF TypeOK
<1>2. Counted
  BY BenchTypes DEF Counted
<1>3. Restorable
  BY DEF Restorable
<1>4. InputsTracked
  BY DEF InputsTracked
<1> QED
  BY <1>1, <1>2, <1>3, <1>4 DEF LoopInv, IndInv

LEMMA PrologueInv == ASSUME LoopInv, Prologue PROVE LoopInv'
<1> USE DEF LoopInv, IndInv
<1>1. UNCHANGED <<bench, operand, group, at, bound, flow, iter, returned>>
  BY DEF Prologue
<1>2. CounterRegister' = CounterRegister
  BY <1>1 DEF CounterRegister
<1>3. bound = bench.loops /\ iter = 0 /\ group = 1 /\ at = 1
  BY DEF Prologue, Counted
<1>4. counter' = IF bench.counts = "up" THEN iter ELSE bench.loops - iter
  BY <1>3, BenchTypes DEF Prologue, StartValue
<1>5. TypeOK'
  <2>1. counter' \in 0..(MODULUS - 1)
    BY <1>3, <1>4, BenchTypes, MODULUSAssumption
  <2> QED
    BY <1>1, <1>2, <2>1 DEF TypeOK, Prologue
<1>6. Counted'
  BY <1>1, <1>3, <1>4, BenchTypes DEF Prologue, Counted
<1>7. Restorable'
  <2>1. operand.ptr \cap written' = {}
    BY OperandsSpared DEF Prologue, TypeOK
  <2>2. written' \cap bench.saved \subseteq bench.clobbers \cup operand.runs
    BY DEF Prologue, NamesWhatItWrites, Written, CounterRegister
  <2>3. bench' = bench /\ operand' = operand /\ pc' = "body"
    BY <1>1 DEF Prologue
  <2> QED
    BY <2>1, <2>2, <2>3, Zenon DEF Restorable
<1>8. InputsTracked'
  <2>1. CounterRegister' \subseteq written'
    BY <1>2 DEF Prologue
  <2>2. bench.counter # {} => operand.runs \cap written' = {}
    BY OperandPlaces DEF Prologue, NamesWhatItWrites, Written, CounterRegister, TypeOK
  <2> QED
    BY <1>1, <2>1, <2>2 DEF Prologue, InputsTracked
<1> QED
  BY <1>1, <1>3, <1>5, <1>6, <1>7, <1>8 DEF Prologue

LEMMA IssueKeepsDomain ==
  ASSUME NEW f, NEW i, NEW g
  PROVE  DOMAIN Issue(f, i, g).ready = DOMAIN f.ready
BY DEF Issue

LEMMA AdvancePlaces ==
  ASSUME bench \in Bench, group \in 1..Len(bench.body),
         at \in 1..Len(bench.body[group]), pc = "body", Advance
  PROVE  /\ group' \in 1..Len(bench.body)
         /\ at' \in 1..Len(bench.body[group'])
         /\ pc' \in {"body", "count"}
         /\ pc' = "count" => group' = 1 /\ at' = 1
<1>1. CASE at < Len(bench.body[group])
  BY <1>1, BenchTypes DEF Advance
<1>2. CASE ~(at < Len(bench.body[group])) /\ group < Len(bench.body)
  <2>1. group' = group + 1 /\ at' = 1 /\ pc' = pc
    BY <1>2 DEF Advance
  <2>2. group + 1 \in 1..Len(bench.body)
    BY <1>2, BenchTypes
  <2>3. Len(bench.body[group + 1]) \in Nat \ {0}
    BY <2>2, BenchTypes
  <2>4. 1 \in 1..Len(bench.body[group + 1])
    BY <2>3
  <2> QED
    BY <2>1, <2>2, <2>4
<1>3. CASE ~(at < Len(bench.body[group])) /\ ~(group < Len(bench.body))
  <2>1. group' = 1 /\ at' = 1 /\ pc' = "count"
    BY <1>3 DEF Advance
  <2>2. 1 \in 1..Len(bench.body) /\ 1 \in 1..Len(bench.body[1])
    BY BenchTypes
  <2> QED
    BY <2>1, <2>2
<1> QED
  BY <1>1, <1>2, <1>3

LEMMA ExecuteInv == ASSUME LoopInv, Execute PROVE LoopInv'
<1> USE DEF LoopInv, IndInv
<1>1. /\ UNCHANGED <<bench, operand, iter, returned>>
      /\ pc = "body"
      /\ written' = written \cup Instr.dst
  BY DEF Execute
<1>2. CounterRegister' = CounterRegister
  BY <1>1 DEF CounterRegister
<1>3. /\ Instr \in InstrsOf(bench)
      /\ Instr.dst \subseteq Written(bench)
      /\ Instr.dst \subseteq Locations(bench)
  BY IssuedInBody DEF TypeOK
<1>4. /\ Instr.dst \cap CounterRegister = {}
      /\ Instr.dst \cap operand.runs = {}
      /\ Instr.dst \cap operand.ptr = {}
  BY <1>3, OperandsSpared DEF TypeOK
<1>5. counter' = counter /\ bound' = bound
  BY <1>4 DEF Execute, After
<1>6. /\ group' \in 1..Len(bench.body)
      /\ at' \in 1..Len(bench.body[group'])
      /\ pc' \in {"body", "count"}
      /\ pc' = "count" => group' = 1 /\ at' = 1
  BY AdvancePlaces DEF Execute, TypeOK
<1>7. DOMAIN flow'.ready = Locations(bench)
  BY IssueKeepsDomain DEF Execute
<1>8. TypeOK'
  BY <1>1, <1>2, <1>3, <1>5, <1>6, <1>7 DEF TypeOK
<1>9. Counted'
  BY <1>1, <1>5, <1>6 DEF Counted
<1>10. Restorable'
  <2>1. operand.ptr \cap written' = {}
    BY <1>1, <1>4 DEF Restorable
  <2>2. Instr.dst \cap bench.saved \subseteq bench.clobbers
    BY <1>3 DEF NamesWhatItWrites
  <2>3. written' \cap bench.saved \subseteq bench.clobbers \cup operand.runs
    BY <1>1, <2>2 DEF Restorable
  <2>4. bench' = bench /\ operand' = operand /\ pc' # "done"
    BY <1>1, <1>6
  <2> QED
    BY <2>1, <2>3, <2>4, Zenon DEF Restorable
<1>11. InputsTracked'
  BY <1>1, <1>2, <1>4, <1>6 DEF InputsTracked
<1> QED
  BY <1>1, <1>6, <1>7, <1>8, <1>9, <1>10, <1>11

\* The branch is taken until the iterations asked for are done.
LEMMA BranchTaken ==
  ASSUME LoopInv, pc = "count"
  PROVE  /\ Stepped = IF bench.counts = "up" THEN iter + 1
                      ELSE bench.loops - (iter + 1)
         /\ Stepped \in 0..(MODULUS - 1)
         /\ Repeats(Stepped) <=> iter + 1 < bench.loops
<1> DEFINE n == bench.loops
<1>1. /\ iter \in Nat /\ iter < n /\ bound = n
      /\ counter = IF bench.counts = "up" THEN iter ELSE n - iter
  BY BenchTypes DEF LoopInv, IndInv, Counted
<1>2. n \in Nat \ {0} /\ 2 * n < MODULUS /\ bench.counts \in {"up", "down"}
  BY BenchTypes DEF LoopInv
<1> HIDE DEF n
<1>3. CASE bench.counts = "up"
  <2>1. Stepped = iter + 1
    BY <1>1, <1>2, <1>3, UpStep, MODULUSAssumption DEF Stepped
  <2>2. Signed(iter + 1) = iter + 1 /\ Signed(bound) = n
    BY <1>1, <1>2, MODULUSAssumption DEF Signed
  <2> QED
    BY <1>1, <1>2, <1>3, <2>1, <2>2, MODULUSAssumption DEF Repeats, n
<1>4. CASE bench.counts = "down"
  <2>1. counter \in Nat \ {0} /\ counter < MODULUS /\ counter = n - iter
    BY <1>1, <1>2, <1>4, MODULUSAssumption
  <2>2. Stepped = n - (iter + 1)
    BY <1>1, <1>2, <1>4, <2>1, DownStep DEF Stepped
  <2> QED
    BY <1>1, <1>2, <1>4, <2>2, MODULUSAssumption DEF Repeats, n
<1> QED
  BY <1>2, <1>3, <1>4

LEMMA CountInv == ASSUME LoopInv, CountAndBranch PROVE LoopInv'
<1> USE DEF LoopInv, IndInv
<1>1. /\ UNCHANGED <<bench, operand, group, at, bound, written, returned>>
      /\ pc = "count" /\ counter' = Stepped /\ group = 1 /\ at = 1
      /\ pc' = IF Repeats(Stepped) THEN "body" ELSE "return"
  BY DEF CountAndBranch
<1>2. /\ iter \in Nat /\ iter < bench.loops /\ bound = bench.loops
      /\ iter < IterCap
  BY <1>1, BenchTypes, MODULUSAssumption DEF Counted
<1>3. iter' = iter + 1
  BY <1>2 DEF CountAndBranch
<1>4. /\ counter' = IF bench.counts = "up" THEN iter' ELSE bench.loops - iter'
      /\ counter' \in 0..(MODULUS - 1)
      /\ pc' = IF iter' < bench.loops THEN "body" ELSE "return"
  BY <1>1, <1>3, BranchTaken
<1>5. DOMAIN flow'.ready = DOMAIN flow.ready
  BY DEF CountAndBranch, NewIteration
<1>6. CounterRegister' = CounterRegister
  BY <1>1 DEF CounterRegister
<1>7. TypeOK'
  <2>1. iter' \in 0..IterCap
    BY <1>2, <1>3, MODULUSAssumption
  <2> QED
    BY <1>1, <1>4, <1>5, <1>6, <2>1 DEF TypeOK
<1>8. Counted'
  BY <1>1, <1>2, <1>3, <1>4, BenchTypes DEF Counted
<1>9. Restorable'
  BY <1>1, <1>4 DEF Restorable
<1>10. InputsTracked'
  BY <1>1, <1>4, <1>6 DEF InputsTracked
<1> QED
  BY <1>1, <1>4, <1>5, <1>7, <1>8, <1>9, <1>10

LEMMA ReturnInv == ASSUME LoopInv, Return PROVE LoopInv'
<1> USE DEF LoopInv, IndInv
<1>1. /\ UNCHANGED <<bench, operand, group, at, counter, bound, flow, iter>>
      /\ pc = "return" /\ pc' = "done" /\ group = 1 /\ at = 1
      /\ iter = bench.loops
  BY DEF Return, Counted
<1>2. CounterRegister' = CounterRegister
  BY <1>1 DEF CounterRegister
<1>3. returned' = iter * bench.per /\ returned' \in Nat
  BY <1>1, BenchTypes DEF Return
<1>4. TypeOK'
  BY <1>1, <1>2, <1>3 DEF TypeOK, Return
<1>5. Counted'
  BY <1>1 DEF Counted
<1>6. written' \cap bench.saved = {}
  BY <1>1 DEF Return, Restorable
<1>7. Restorable'
  BY <1>1, <1>3, <1>6 DEF Restorable
<1>8. InputsTracked'
  BY <1>1 DEF InputsTracked
<1> QED
  BY <1>1, <1>4, <1>5, <1>7, <1>8

LEMMA StutterInv == ASSUME LoopInv, UNCHANGED vars PROVE LoopInv'
BY DEF LoopInv, IndInv, vars, TypeOK, Counted, Restorable, InputsTracked, CounterRegister

LEMMA LoopInvAlways ==
  ASSUME \A b \in Bench : NamesWhatItWrites(b)
  PROVE  Spec => []LoopInv
<1>1. Init => LoopInv
  BY InitInv
<1>2. LoopInv /\ [Next]_vars => LoopInv'
  BY PrologueInv, ExecuteInv, CountInv, ReturnInv, StutterInv DEF Next, Done
<1> QED
  BY <1>1, <1>2, PTL DEF Spec

\* The state of the loop is, at every step, what the iterations finished make
\* it, if every benchmark names the registers that it writes.
THEOREM LoopInvariant ==
  ASSUME \A b \in Bench : NamesWhatItWrites(b)
  PROVE  Spec => []IndInv
<1>1. LoopInv => IndInv
  BY DEF LoopInv
<1> QED
  BY <1>1, LoopInvAlways, PTL

\* A benchmark that names what it writes executes its body as often as
\* RUNS says and never loses a_ptr, wherever the compiler puts the operands.
THEOREM ExecutesAsAsked ==
  ASSUME \A b \in Bench : NamesWhatItWrites(b)
  PROVE  Spec => []RunsExactly
<1>1. LoopInv => RunsExactly
  BY DEF LoopInv, IndInv, Counted, Restorable, RunsExactly
<1> QED
  BY <1>1, LoopInvAlways, PTL

\* It comes back with the registers of its caller intact.
THEOREM KeepsCallerRegisters ==
  ASSUME \A b \in Bench : NamesWhatItWrites(b)
  PROVE  Spec => []CallerRegistersKept
<1>1. LoopInv => CallerRegistersKept
  BY DEF LoopInv, IndInv, Restorable, CallerRegistersKept
<1> QED
  BY <1>1, LoopInvAlways, PTL

\* Its input operands are intact when the assembly ends, if and only if it
\* counts in a register of its own.
THEOREM InputsKept ==
  ASSUME \A b \in Bench : NamesWhatItWrites(b)
  PROVE  Spec => []InputOperandsKept
<1>1. LoopInv => InputOperandsKept
  <2> SUFFICES ASSUME LoopInv, pc = "return" PROVE InputOperandsKept
    BY DEF InputOperandsKept
  <2>1. operand.runs # {}
    BY OperandPlaces, BenchAssumption DEF LoopInv, IndInv, TypeOK
  <2>2. operand.ptr \cap written = {} /\ CounterRegister \subseteq written
    BY DEF LoopInv, IndInv, Restorable, InputsTracked
  <2>3. CASE bench.counter = {}
    BY <2>1, <2>2, <2>3 DEF CounterRegister, InputOperandsKept
  <2>4. CASE bench.counter # {}
    BY <2>2, <2>4 DEF LoopInv, IndInv, InputsTracked, InputOperandsKept
  <2> QED
    BY <2>3, <2>4
<1> QED
  BY <1>1, LoopInvAlways, PTL

\* The operations it returns are those it has executed exactly if its constant
\* is the number of groups in its body.
THEOREM CountsWhatItExecutes ==
  ASSUME \A b \in Bench : NamesWhatItWrites(b)
  PROVE  Spec => [](pc = "done" => (CountsOperations <=> bench.per = Len(bench.body)))
<1>1. LoopInv => (pc = "done" => (CountsOperations <=> bench.per = Len(bench.body)))
  <2> SUFFICES ASSUME LoopInv, pc = "done"
               PROVE  CountsOperations <=> bench.per = Len(bench.body)
    OBVIOUS
  <2> DEFINE n == bench.loops
             p == bench.per
             l == Len(bench.body)
  <2>1. iter = n /\ returned = n * p
    BY DEF LoopInv, IndInv, Counted, Restorable
  <2>2. n \in Nat \ {0} /\ p \in Nat /\ l \in Nat
    BY BenchTypes DEF LoopInv
  <2>3. CountsOperations <=> n * p = n * l
    BY <2>1 DEF CountsOperations
  <2> HIDE DEF n, p, l
  <2>4. n * p = n * l <=> p = l
    BY <2>2
  <2> QED
    BY <2>3, <2>4 DEF p, l
<1> QED
  BY <1>1, LoopInvAlways, PTL

------------------------------------------------------------------------------
\* The benchmarks of CpuLoops name what they write.  The instructions of a
\* group, and of a body, write only into S.
Within(gp, S) == \A j \in DOMAIN gp : gp[j].dst \subseteq S
BodyWithin(body, S) == \A g \in DOMAIN body : Within(body[g], S)

\* The assembly does what its clobber list and its constant say.
Sound(b) == NamesWhatItWrites(b) /\ b.per \in Nat /\ DOMAIN b.body = 1..b.per

\* A body that writes only into S does what NamesWhatItWrites asks, if S does.
LEMMA WithinNamed ==
  ASSUME NEW b, NEW S, BodyWithin(b.body, S),
         (b.zeroed \cup S) \cap ((UNION b.pool) \cup b.saved) \subseteq b.clobbers,
         b.counter \subseteq b.clobbers,
         (b.zeroed \cup S) \cap b.counter = {}
  PROVE  NamesWhatItWrites(b)
<1>1. ASSUME NEW i \in InstrsOf(b) PROVE i.dst \subseteq S
  BY DEF InstrsOf, Range, BodyWithin, Within
<1>2. Written(b) \subseteq b.zeroed \cup b.counter \cup S
  BY <1>1 DEF Written
<1> QED
  BY <1>1, <1>2 DEF NamesWhatItWrites

\* What a callback writes for the register numbers I.
Writing(f, I, S) == \A i \in I : f[i].dst \subseteq S
Calling(cb, I, S) == \A j \in DOMAIN cb : Writing(cb[j], I, S)

\* Groups and callbacks of one, two or three instructions.
LEMMA Groups ==
  ASSUME NEW S
  PROVE  /\ \A x : Within(<<x>>, S) <=> x.dst \subseteq S
         /\ \A x, y : Within(<<x, y>>, S) <=> x.dst \subseteq S /\ y.dst \subseteq S
         /\ \A x, y, z : Within(<<x, y, z>>, S)
                           <=> x.dst \subseteq S /\ y.dst \subseteq S /\ z.dst \subseteq S
BY DEF Within

LEMMA Callbacks ==
  ASSUME NEW S, NEW I
  PROVE  /\ \A f : Calling(<<f>>, I, S) <=> Writing(f, I, S)
         /\ \A f, g : Calling(<<f, g>>, I, S) <=> Writing(f, I, S) /\ Writing(g, I, S)
         /\ \A f, g, h : Calling(<<f, g, h>>, I, S)
                           <=> Writing(f, I, S) /\ Writing(g, I, S) /\ Writing(h, I, S)
BY DEF Calling

\* What each instruction writes.
LEMMA Writes ==
  /\ \A r : Ldr(r).dst = r
  /\ \A r : Rmw(r).dst = r
  /\ \A r : Str(r).dst = Mem
  /\ \A r, s : Acc(r, s).dst = r
  /\ \A r, s : Move(r, s).dst = r
  /\ \A r, s : Ins(r, s).dst = r
  /\ Nop.dst = {}
BY DEF Ldr, Rmw, Str, Acc, Move, Ins, Nop, Op

\* Blocks of registers.
LEMMA Blocks ==
  ASSUME NEW a \in Int, NEW b \in Int, NEW x
  PROVE  /\ x \in Vs(a, b) <=> \E i \in a..b : x = <<"v", i>>
         /\ x \in Xs(a, b) <=> \E i \in a..b : x = <<"x", i>>
         /\ x \in Rs(a, b) <=> \E i \in a..b : x = <<"r", i>>
         /\ x \in Qs(a, b) <=> \E i \in a..b : x = <<"d", 2 * i>> \/ x = <<"d", 2 * i + 1>>
BY DEF Vs, Xs, Rs, Qs, V, X, R, Q, D

\* A register by itself.
LEMMA Single ==
  ASSUME NEW i
  PROVE  V(i) = {<<"v", i>>} /\ X(i) = {<<"x", i>>} /\ R(i) = {<<"r", i>>}
         /\ D(i) = {<<"d", i>>} /\ Q(i) = {<<"d", 2 * i>>, <<"d", 2 * i + 1>>}
         /\ Mem = {<<"mem", 0>>}
BY DEF V, X, R, D, Q, Mem

\* The bodies that the macros unroll.
LEMMA Unrolled ==
  ASSUME NEW n \in Nat, NEW cb, NEW S
  PROVE  /\ DOMAIN Unroll(n, cb) = 1..n
         /\ Calling(cb, 0..(n - 1), S) => BodyWithin(Unroll(n, cb), S)
BY DEF Unroll, BodyWithin, Within, Calling, Writing

LEMMA UnrolledStart6 ==
  ASSUME NEW n \in Nat, NEW cb, NEW S
  PROVE  /\ DOMAIN UnrollStart6(n, cb) = 1..n
         /\ Calling(cb, 6..(n + 5), S) => BodyWithin(UnrollStart6(n, cb), S)
BY DEF UnrollStart6, BodyWithin, Within, Calling, Writing

LEMMA Repeated ==
  ASSUME NEW n \in Nat, NEW gp, NEW S
  PROVE  /\ DOMAIN Same(n, gp) = 1..n
         /\ Within(gp, S) => BodyWithin(Same(n, gp), S)
BY DEF Same, BodyWithin

------------------------------------------------------------------------------
\* AArch64: the function of every macro, from what its body writes.  The pool
\* of operand registers and the registers to save lie in v8 to v15, x0 to x28.
LEMMA A64Named ==
  ASSUME NEW body, NEW cnt, NEW counts, NEW zeroed, NEW clobbers, NEW per,
         NEW memory, NEW S, BodyWithin(body, S),
         (zeroed \cup S) \cap (Vs(8, 15) \cup Xs(19, 28) \cup Xs(0, 28)) \subseteq clobbers,
         cnt \subseteq clobbers, (zeroed \cup S) \cap cnt = {}
  PROVE  NamesWhatItWrites(A64(body, cnt, counts, zeroed, clobbers, per, memory))
<1> DEFINE b == A64(body, cnt, counts, zeroed, clobbers, per, memory)
<1>1. /\ b.body = body /\ b.counter = cnt /\ b.zeroed = zeroed
      /\ b.clobbers = clobbers /\ b.per = per
      /\ b.pool = A64Pool /\ b.saved = A64Saved
  BY DEF A64
<1> HIDE DEF b
<1>2. UNION A64Pool \subseteq Xs(0, 28)
  BY Single, Blocks DEF A64Pool
<1>3. NamesWhatItWrites(b)
  BY <1>1, <1>2, WithinNamed DEF A64Saved
<1> QED
  BY <1>3 DEF b

LEMMA A64Sound ==
  ASSUME NEW body, NEW cnt, NEW counts, NEW zeroed, NEW clobbers, NEW per \in Nat,
         NEW memory, NEW S, BodyWithin(body, S), DOMAIN body = 1..per,
         (zeroed \cup S) \cap (Vs(8, 15) \cup Xs(19, 28) \cup Xs(0, 28)) \subseteq clobbers,
         cnt \subseteq clobbers, (zeroed \cup S) \cap cnt = {}
  PROVE  Sound(A64(body, cnt, counts, zeroed, clobbers, per, memory))
<1> DEFINE b == A64(body, cnt, counts, zeroed, clobbers, per, memory)
<1>1. NamesWhatItWrites(b)
  BY A64Named
<1> QED
  BY <1>1 DEF A64, Sound

\* The four macros, and the functions written out by hand.
LEMMA ThroughputSound ==
  ASSUME NEW cb, Calling(cb, 0..19, Vs(0, 22))
  PROVE  Sound(THROUGHPUT(cb))
<1>1. BodyWithin(Unroll(20, cb), Vs(0, 22)) /\ DOMAIN Unroll(20, cb) = 1..20
  BY Unrolled, 20 - 1 = 19
<1>2. Vs(0, 19) \cup Vs(0, 22) \subseteq Vs(0, 22) \cup X(0)
  BY Blocks
<1>3. (Vs(0, 19) \cup Vs(0, 22)) \cap X(0) = {}
  BY Blocks, Single
<1> QED
  BY <1>1, <1>2, <1>3, A64Sound DEF THROUGHPUT

LEMMA LatencySound ==
  ASSUME NEW cb, Within(cb, V(0))
  PROVE  Sound(LATENCY(cb))
<1>1. BodyWithin(Same(20, cb), V(0)) /\ DOMAIN Same(20, cb) = 1..20
  BY Repeated
<1>2. V(0) \cap X(0) = {}
  BY Single
<1> QED
  BY <1>1, <1>2, A64Sound DEF LATENCY

MemWrites == Vs(0, 22) \cup Xs(0, 20) \cup Mem

LEMMA ThroughputMemSound ==
  ASSUME NEW n \in 1..20, NEW cb, Calling(cb, 0..(n - 1), MemWrites)
  PROVE  Sound(THROUGHPUT_MEM_ITER(cb, n))
<1>1. BodyWithin(Unroll(n, cb), MemWrites) /\ DOMAIN Unroll(n, cb) = 1..n
  BY Unrolled
<1>2. Vs(0, n - 1) \subseteq Vs(0, 22)
  BY Blocks
<1>3. Vs(0, 22) \cap X(28) = {} /\ Xs(0, 20) \cap X(28) = {} /\ Mem \cap X(28) = {}
  BY Blocks, Single
<1>4. Mem \cap (Vs(8, 15) \cup Xs(19, 28) \cup Xs(0, 28)) = {}
  BY Blocks, Single
<1>5. (Vs(0, n - 1) \cup MemWrites) \cap X(28) = {}
  BY <1>2, <1>3 DEF MemWrites
<1>6. (Vs(0, n - 1) \cup MemWrites) \cap (Vs(8, 15) \cup Xs(19, 28) \cup Xs(0, 28))
        \subseteq Vs(0, 22) \cup Xs(0, 20) \cup X(28)
  BY <1>2, <1>4 DEF MemWrites
<1>7. n \in Nat
  OBVIOUS
<1>8. X(28) \subseteq Vs(0, 22) \cup Xs(0, 20) \cup X(28)
  OBVIOUS
<1> QED
  BY <1>1, <1>5, <1>6, <1>7, <1>8, A64Sound DEF THROUGHPUT_MEM_ITER

LatencyWrites == Vs(0, 1) \cup Xs(0, 1) \cup Mem

LEMMA LatencyMemSound ==
  ASSUME NEW cb, Within(cb, LatencyWrites)
  PROVE  Sound(LATENCY_MEM(cb))
<1>1. BodyWithin(Same(20, cb), LatencyWrites) /\ DOMAIN Same(20, cb) = 1..20
  BY Repeated
<1>2. V(0) \subseteq Vs(0, 1)
  BY Blocks, Single
<1>3. Vs(0, 1) \cap X(28) = {} /\ Xs(0, 1) \cap X(28) = {} /\ Mem \cap X(28) = {}
  BY Blocks, Single
<1>4. Mem \cap (Vs(8, 15) \cup Xs(19, 28) \cup Xs(0, 28)) = {}
  BY Blocks, Single
<1> QED
  BY <1>1, <1>2, <1>3, <1>4, A64Sound DEF LATENCY_MEM, LatencyWrites

HandWrites(xs) == Vs(0, 31) \cup xs \cup Mem

LEMMA ByHandNamed ==
  ASSUME NEW body, NEW cnt, NEW xs, NEW per,
         BodyWithin(body, HandWrites(xs)), cnt \cap HandWrites(xs) = {}
  PROVE  NamesWhatItWrites(ByHand(body, cnt, xs, per))
<1>1. Vs(0, 19) \subseteq Vs(0, 31)
  BY Blocks
<1>2. Mem \cap (Vs(8, 15) \cup Xs(19, 28) \cup Xs(0, 28)) = {}
  BY Blocks, Single
<1>3. (Vs(0, 19) \cup HandWrites(xs)) \cap (Vs(8, 15) \cup Xs(19, 28) \cup Xs(0, 28))
        \subseteq Vs(0, 31) \cup cnt \cup xs
  BY <1>1, <1>2 DEF HandWrites
<1>4. (Vs(0, 19) \cup HandWrites(xs)) \cap cnt = {}
  BY <1>1 DEF HandWrites
<1>5. cnt \subseteq Vs(0, 31) \cup cnt \cup xs
  OBVIOUS
<1> QED
  BY <1>3, <1>4, <1>5, A64Named DEF ByHand

LEMMA ByHandSound ==
  ASSUME NEW body, NEW cnt, NEW xs, NEW per \in Nat, DOMAIN body = 1..per,
         BodyWithin(body, HandWrites(xs)), cnt \cap HandWrites(xs) = {}
  PROVE  Sound(ByHand(body, cnt, xs, per))
BY ByHandNamed DEF Sound, ByHand, A64

\* Places the loops written by hand write to, and the counters they spare.
LEMMA HandPlaces ==
  ASSUME NEW xs
  PROVE  /\ \A i \in 0..31 : V(i) \subseteq HandWrites(xs)
         /\ Vs(0, 31) \subseteq HandWrites(xs)
         /\ xs \subseteq HandWrites(xs) /\ Mem \subseteq HandWrites(xs)
              /\ {} \subseteq HandWrites(xs)
         /\ \A f \in {RmwV, AccV(V(1))} : Writing(f, 16..31, HandWrites(xs))
<1>1. \A i \in 0..31 : V(i) \subseteq Vs(0, 31)
  BY Blocks, Single
<1>2. /\ \A i \in 0..31 : V(i) \subseteq HandWrites(xs)
      /\ Vs(0, 31) \subseteq HandWrites(xs)
      /\ xs \subseteq HandWrites(xs) /\ Mem \subseteq HandWrites(xs)
  BY <1>1 DEF HandWrites
<1>3. \A f \in {RmwV, AccV(V(1))} : Writing(f, 16..31, HandWrites(xs))
  BY <1>2, Writes DEF Writing, RmwV, AccV, Reg
<1> QED
  BY <1>2, <1>3

LEMMA HandCounters ==
  /\ X(0) \cap HandWrites({}) = {}
  /\ X(0) \cap HandWrites(Xs(1, 20)) = {}
  /\ X(20) \cap HandWrites(Xs(0, 19)) = {}
  /\ X(20) \cap HandWrites(Xs(0, 19) \cup X(22)) = {}
  /\ X(28) \cap HandWrites(Xs(0, 20)) = {}
<1>1. \A i \in Int : X(i) \cap Vs(0, 31) = {} /\ X(i) \cap Mem = {}
  BY Blocks, Single
<1>2. /\ X(0) \cap Xs(1, 20) = {} /\ X(20) \cap Xs(0, 19) = {}
      /\ X(20) \cap X(22) = {} /\ X(28) \cap Xs(0, 20) = {}
  BY Blocks, Single
<1> QED
  BY <1>1, <1>2 DEF HandWrites

\* Multiply-adds with an instruction before every m-th of them.
LEMMA PackedWithin ==
  ASSUME NEW n \in 1..16, NEW m \in 1..16, NEW c \in Nat, NEW pre, NEW op, NEW S,
         \A k \in 1..n : 1 + (k - 1) \div m \in 1..c,
         \A j \in 1..c : pre[j].dst \subseteq S, Writing(op, 16..31, S)
  PROVE  DOMAIN Packed(n, m, pre, op) = 1..n /\ BodyWithin(Packed(n, m, pre, op), S)
<1>1. ASSUME NEW k \in 1..n PROVE Within(Packed(n, m, pre, op)[k], S)
  <2>1. 15 + k \in 16..31
    OBVIOUS
  <2>2. op[15 + k].dst \subseteq S
    BY <2>1 DEF Writing
  <2>3. pre[1 + (k - 1) \div m].dst \subseteq S
    OBVIOUS
  <2>4. CASE (k - 1) % m = 0
    <3>1. Packed(n, m, pre, op)[k] = <<pre[1 + (k - 1) \div m], op[15 + k]>>
      BY <2>4 DEF Packed
    <3> QED
      BY <3>1, <2>2, <2>3, Groups
  <2>5. CASE (k - 1) % m # 0
    <3>1. Packed(n, m, pre, op)[k] = <<op[15 + k]>>
      BY <2>5 DEF Packed
    <3> QED
      BY <3>1, <2>2, Groups
  <2> QED
    BY <2>4, <2>5
<1>2. DOMAIN Packed(n, m, pre, op) = 1..n
  BY DEF Packed
<1> QED
  BY <1>1, <1>2 DEF BodyWithin

\* The three ways in which the instructions are spread.
LEMMA Spread ==
  /\ \A k \in 1..15 : 1 + (k - 1) \div 3 \in 1..5
  /\ \A k \in 1..16 : 1 + (k - 1) \div 4 \in 1..4
  /\ \A k \in 1..16 : 1 + (k - 1) \div 2 \in 1..8
  /\ \A k \in 1..16 : 1 + (k - 1) \div 1 \in 1..16
OBVIOUS

\* What a loop of these is, with the instructions pre among the operations op.
LEMMA HandPacked ==
  ASSUME NEW pre, NEW xs, NEW op, Writing(op, 16..31, HandWrites(xs))
  PROVE  /\ (\A j \in 1..5 : pre[j].dst \subseteq HandWrites(xs))
              => /\ DOMAIN Packed(15, 3, pre, op) = 1..15
                 /\ BodyWithin(Packed(15, 3, pre, op), HandWrites(xs))
         /\ (\A j \in 1..4 : pre[j].dst \subseteq HandWrites(xs))
              => /\ DOMAIN Packed(16, 4, pre, op) = 1..16
                 /\ BodyWithin(Packed(16, 4, pre, op), HandWrites(xs))
         /\ (\A j \in 1..8 : pre[j].dst \subseteq HandWrites(xs))
              => /\ DOMAIN Packed(16, 2, pre, op) = 1..16
                 /\ BodyWithin(Packed(16, 2, pre, op), HandWrites(xs))
         /\ (\A j \in 1..16 : pre[j].dst \subseteq HandWrites(xs))
              => /\ DOMAIN Packed(16, 1, pre, op) = 1..16
                 /\ BodyWithin(Packed(16, 1, pre, op), HandWrites(xs))
<1>1. 15 \in 1..16 /\ 16 \in 1..16 /\ 1 \in 1..16 /\ 2 \in 1..16 /\ 3 \in 1..16 /\ 4 \in 1..16
      /\ 4 \in Nat /\ 5 \in Nat /\ 8 \in Nat /\ 16 \in Nat
  OBVIOUS
<1>2. (\A j \in 1..5 : pre[j].dst \subseteq HandWrites(xs))
              => /\ DOMAIN Packed(15, 3, pre, op) = 1..15
                 /\ BodyWithin(Packed(15, 3, pre, op), HandWrites(xs))
  BY <1>1, PackedWithin, Spread
<1>3. (\A j \in 1..4 : pre[j].dst \subseteq HandWrites(xs))
              => /\ DOMAIN Packed(16, 4, pre, op) = 1..16
                 /\ BodyWithin(Packed(16, 4, pre, op), HandWrites(xs))
  BY <1>1, PackedWithin, Spread
<1>4. (\A j \in 1..8 : pre[j].dst \subseteq HandWrites(xs))
              => /\ DOMAIN Packed(16, 2, pre, op) = 1..16
                 /\ BodyWithin(Packed(16, 2, pre, op), HandWrites(xs))
  BY <1>1, PackedWithin, Spread
<1>5. (\A j \in 1..16 : pre[j].dst \subseteq HandWrites(xs))
              => /\ DOMAIN Packed(16, 1, pre, op) = 1..16
                 /\ BodyWithin(Packed(16, 1, pre, op), HandWrites(xs))
  BY <1>1, PackedWithin, Spread
<1> QED
  BY <1>2, <1>3, <1>4, <1>5

------------------------------------------------------------------------------
\* The entries of a table, and the table.
Sounds(e) == \A k \in Kinds : Sound(e[k])
TableSound(T) == \A n \in DOMAIN T : Sounds(T[n])

LEMMA BothSound ==
  ASSUME NEW t, NEW l, Sound(t), Sound(l) PROVE Sounds(Both(t, l))
BY DEF Sounds, Both, Kinds

LEMMA ThroughputMem20Sound ==
  ASSUME NEW cb, Calling(cb, 0..19, MemWrites)
  PROVE  Sound(THROUGHPUT_MEM(cb))
BY ThroughputMemSound, 20 - 1 = 19 DEF THROUGHPUT_MEM

\* Callbacks that ignore the number of the register.
LEMMA Fixes ==
  ASSUME NEW I \in SUBSET Reg, NEW S, NEW x, x.dst \subseteq S
  PROVE  Writing(Fixed(x), I, S)
BY DEF Fixed, Writing

LEMMA A64Fixes ==
  \A x : /\ x.dst \subseteq Vs(0, 22) => Writing(Fixed(x), 0..19, Vs(0, 22))
         /\ x.dst \subseteq MemWrites => Writing(Fixed(x), 0..19, MemWrites)
BY Fixes DEF Reg

\* Callbacks that work on the register of their number.
LEMMA A64Families ==
  /\ Writing(RmwV, 0..19, Vs(0, 22))
  /\ \A f \in {LdrV, StrV, RmwV, LdrX} : Writing(f, 0..19, MemWrites)
  /\ \A s : /\ Writing(MoveV(s), 0..19, MemWrites)
            /\ Writing(InsV(s), 0..19, MemWrites)
            /\ Writing(AccV(s), 0..14, MemWrites)
<1>1. /\ \A i \in 0..22 : V(i) \subseteq Vs(0, 22)
      /\ \A i \in 0..20 : X(i) \subseteq Xs(0, 20)
  BY Blocks, Single
<1>2. \A i \in 0..19 : /\ V(i) \subseteq Vs(0, 22) /\ V(i) \subseteq MemWrites
                       /\ X(i) \subseteq MemWrites /\ Mem \subseteq MemWrites
  BY <1>1 DEF MemWrites
<1>3. Writing(RmwV, 0..19, Vs(0, 22))
  BY <1>2, Writes DEF Writing, RmwV, Reg
<1>4. \A f \in {LdrV, StrV, RmwV, LdrX} : Writing(f, 0..19, MemWrites)
  BY <1>2, Writes DEF Writing, LdrV, StrV, RmwV, LdrX, Reg
<1>5. ASSUME NEW s
      PROVE /\ Writing(MoveV(s), 0..19, MemWrites)
            /\ Writing(InsV(s), 0..19, MemWrites)
            /\ Writing(AccV(s), 0..14, MemWrites)
  BY <1>2, Writes DEF Writing, MoveV, InsV, AccV, Reg
<1> QED
  BY <1>3, <1>4, <1>5

\* Registers within what the macros let a body write.
LEMMA A64Places ==
  /\ {} \subseteq MemWrites /\ {} \subseteq LatencyWrites
  /\ Vs(0, 1) \subseteq MemWrites /\ Vs(21, 22) \subseteq MemWrites
  /\ V(20) \subseteq MemWrites /\ V(21) \subseteq MemWrites /\ V(21) \subseteq Vs(0, 22)
  /\ V(0) \subseteq LatencyWrites /\ V(1) \subseteq LatencyWrites /\ V(0) \subseteq V(0)
  /\ X(0) \subseteq LatencyWrites /\ X(1) \subseteq LatencyWrites
  /\ Vs(0, 1) \subseteq LatencyWrites /\ Mem \subseteq LatencyWrites
<1>1. /\ V(20) \subseteq Vs(0, 22) /\ V(21) \subseteq Vs(0, 22)
      /\ Vs(0, 1) \subseteq Vs(0, 22) /\ Vs(21, 22) \subseteq Vs(0, 22)
  BY Blocks, Single
<1>2. V(0) \subseteq Vs(0, 1) /\ V(1) \subseteq Vs(0, 1) /\ X(0) \subseteq Xs(0, 1)
        /\ X(1) \subseteq Xs(0, 1)
  BY Blocks, Single
<1> QED
  BY <1>1, <1>2 DEF MemWrites, LatencyWrites

\* Tables of aarch64.h and aarch64_dual_issue.h built by the macros alone.
LEMMA A64FloatSound == TableSound(A64Float)
<1> USE BothSound, ThroughputSound, LatencySound, Groups, Callbacks, Writes,
        A64Fixes, A64Families, A64Places
<1>1. Sounds(A64Float.fmla)
  BY DEF A64Float
<1>2. Sounds(A64Float.fmla_x2)
  BY DEF A64Float
<1> QED
  BY <1>1, <1>2 DEF A64Float, TableSound

LEMMA A64IntegerSound == TableSound(A64Integer)
<1> USE BothSound, ThroughputMem20Sound, LatencyMemSound, Groups, Callbacks, Writes,
        A64Fixes, A64Families, A64Places
<1>1. Sounds(A64Integer.tbl)
  BY A64FloatSound DEF A64Integer, A64Float, TableSound
<1>2. Sounds(A64Integer.ins)
  BY DEF A64Integer
<1> QED
  BY <1>1, <1>2 DEF A64Integer, TableSound

LEMMA LdPairsSound == TableSound(LdPairs)
<1> USE BothSound, ThroughputMem20Sound, LatencyMemSound, Groups, Callbacks, Writes,
        A64Fixes, A64Families, A64Places
<1>1. Sounds(LdPairs.ldd_ldx_ins)
  BY DEF LdPairs
<1>2. Sounds(LdPairs.ldq_fmlaq)
  BY DEF LdPairs
<1> QED
  BY <1>1, <1>2 DEF LdPairs, TableSound

LEMMA SepPairsSound == TableSound(SepPairs)
<1> USE BothSound, ThroughputMem20Sound, LatencyMemSound, Groups, Callbacks, Writes,
        A64Fixes, A64Families, A64Places
<1>1. Sounds(SepPairs.ins_fmlaq_lane_sep)
  BY DEF SepPairs
<1>2. Sounds(SepPairs.dupd_fmlaq_lane_sep)
  BY DEF SepPairs
<1>3. Sounds(SepPairs.ldqstq)
  BY DEF SepPairs
<1>4. Sounds(SepPairs.dupd_lane_smlal_s8)
  BY DEF SepPairs
<1>5. Sounds(SepPairs.ldd_fmlaq_lane_sep)
  BY DEF SepPairs
<1>6. Sounds(SepPairs.ldd_smlalq_sep)
  BY DEF SepPairs
<1>7. Sounds(SepPairs.lddx2_smlalq_sep)
  BY DEF SepPairs
<1> QED
  BY <1>1, <1>2, <1>3, <1>4, <1>5, <1>6, <1>7 DEF SepPairs, TableSound

LEMMA LdxPairSound == TableSound(LdxPair)
<1> USE BothSound, ThroughputMem20Sound, LatencyMemSound, Groups, Callbacks, Writes,
        A64Fixes, A64Families, A64Places
<1>1. Sounds(LdxPair.ldx_fmlaq_lane_sep)
  BY DEF LdxPair
<1> QED
  BY <1>1 DEF LdxPair, TableSound

LEMMA LdrPairsSound == TableSound(LdrPairs)
<1> USE BothSound, ThroughputMem20Sound, LatencyMemSound, Groups, Callbacks, Writes,
        A64Fixes, A64Families, A64Places
<1>1. Sounds(LdrPairs.ldrd_sshll)
  BY DEF LdrPairs
<1>2. Sounds(LdrPairs.ldrd_sdot_lane)
  BY DEF LdrPairs
<1> QED
  BY <1>1, <1>2 DEF LdrPairs, TableSound

LEMMA SmlalPairsSound == TableSound(SmlalPairs)
<1> USE BothSound, ThroughputSound, LatencySound, Groups, Callbacks, Writes,
        A64Fixes, A64Families, A64Places
<1>1. Sounds(SmlalPairs.smlal_8b_addp)
  BY DEF SmlalPairs
<1>2. Sounds(SmlalPairs.smlal_8b_dupd)
  BY DEF SmlalPairs
<1>3. Sounds(SmlalPairs.smlal_sadalp)
  BY DEF SmlalPairs
<1>4. Sounds(SmlalPairs.smull_smlal_sadalp)
  BY DEF SmlalPairs
<1> QED
  BY <1>1, <1>2, <1>3, <1>4 DEF SmlalPairs, TableSound

\* Tables with loops written out by hand.
LEMMA A64SingleSound == TableSound(A64Single)
<1>1. Sounds(A64Single.ldq)
  BY BothSound, ThroughputMem20Sound, LatencyMemSound, Groups, Callbacks,
     Writes, A64Fixes, A64Families, A64Places DEF A64Single
<1>2. Sounds(A64Single.lddx2)
  BY BothSound, ThroughputMem20Sound, LatencyMemSound, Groups, Callbacks,
     Writes, A64Fixes, A64Families, A64Places DEF A64Single
<1>3. Sounds(A64Single.nop)
  BY BothSound, ThroughputMem20Sound, LatencyMemSound, Groups, Callbacks,
     Writes, A64Fixes, A64Families, A64Places DEF A64Single
<1>4. Sounds(A64Single.stq)
  BY BothSound, ThroughputMem20Sound, LatencyMemSound, Groups, Callbacks,
     Writes, A64Fixes, A64Families, A64Places DEF A64Single
<1>5. Sounds(A64Single.dupd_lane_s8)
  BY BothSound, ThroughputMem20Sound, LatencyMemSound, Groups, Callbacks,
     Writes, A64Fixes, A64Families, A64Places DEF A64Single
<1>6. Sounds(A64Single.mlaq_lane_s16)
  <2>1. Sound(THROUGHPUT_MEM_ITER(<<AccV(V(15))>>, 15))
    BY ThroughputMemSound, Callbacks, A64Families, 15 - 1 = 14
  <2>2. Within(<<Rmw(V(0))>>, LatencyWrites)
    BY Groups, Writes, A64Places
  <2>3. Sound(LATENCY_MEM(<<Rmw(V(0))>>))
    BY <2>2, LatencyMemSound
  <2> QED
    BY <2>1, <2>3, BothSound DEF A64Single
<1>7. Sounds(A64Single.ldpq)
  <2> DEFINE body == [k \in 1..16 |-> <<Ldr(Vs(2 * k - 2, 2 * k - 1))>>]
  <2>1. ASSUME NEW k \in 1..16 PROVE Within(body[k], HandWrites({}))
    <3>1. Vs(2 * k - 2, 2 * k - 1) \subseteq Vs(0, 31)
      BY Blocks
    <3>2. Within(<<Ldr(Vs(2 * k - 2, 2 * k - 1))>>, HandWrites({}))
      BY <3>1, Groups, Writes, HandPlaces
    <3> QED
      BY <3>2
  <2>2. DOMAIN body = 1..16 /\ BodyWithin(body, HandWrites({}))
    BY <2>1 DEF BodyWithin
  <2>3. Sound(ByHand(body, X(0), {}, 16))
    BY <2>2, ByHandSound, HandCounters
  <2>4. Within(<<Ldr(Vs(0, 1))>>, LatencyWrites)
    BY Groups, Writes, A64Places
  <2>5. Sound(LATENCY_MEM(<<Ldr(Vs(0, 1))>>))
    BY <2>4, LatencyMemSound
  <2> QED
    BY <2>3, <2>5, BothSound DEF A64Single
<1> QED
  BY <1>1, <1>2, <1>3, <1>4, <1>5, <1>6, <1>7 DEF A64Single, TableSound

LEMMA InsLdrSound == TableSound(InsLdr)
<1>1. Sounds(InsLdr.ins_ldd)
  <2> DEFINE body == [k \in 1..16 |-> <<Ins(V(2 * k - 2), X(0)), Ldr(V(2 * k - 1))>>]
  <2>1. ASSUME NEW k \in 1..16 PROVE Within(body[k], HandWrites(Xs(0, 20)))
    <3>1. 2 * k - 2 \in 0..31 /\ 2 * k - 1 \in 0..31
      OBVIOUS
    <3>2. Within(<<Ins(V(2 * k - 2), X(0)), Ldr(V(2 * k - 1))>>, HandWrites(Xs(0, 20)))
      BY <3>1, Groups, Writes, HandPlaces
    <3> QED
      BY <3>2
  <2>2. DOMAIN body = 1..16 /\ BodyWithin(body, HandWrites(Xs(0, 20)))
    BY <2>1 DEF BodyWithin
  <2>3. Sound(ByHand(body, X(28), Xs(0, 20), 16))
    BY <2>2, ByHandSound, HandCounters
  <2>4. Within(<<Ins(V(0), X(0)), Ldr(V(0))>>, LatencyWrites)
    BY Groups, Writes, A64Places
  <2>5. Sound(LATENCY_MEM(<<Ins(V(0), X(0)), Ldr(V(0))>>))
    BY <2>4, LatencyMemSound
  <2> QED
    BY <2>3, <2>5, BothSound DEF InsLdr
<1> QED
  BY <1>1 DEF InsLdr, TableSound

LEMMA LdFmlaSound == TableSound(LdFmla)
<1>1. Sounds(LdFmla.stq_fmlaq_lane)
  <2> DEFINE pre == [j \in 1..5 |-> Str(V(0))]
  <2>1. \A j \in 1..5 : pre[j].dst \subseteq HandWrites({})
    BY Writes, HandPlaces
  <2>2. /\ DOMAIN Packed(15, 3, pre, RmwV) = 1..15
        /\ BodyWithin(Packed(15, 3, pre, RmwV), HandWrites({}))
    BY <2>1, HandPacked, HandPlaces
  <2>3. Sound(ByHand(Packed(15, 3, pre, RmwV), X(0), {}, 15))
    BY <2>2, ByHandSound, HandCounters
  <2>4. Within(<<Str(V(0)), Rmw(V(0))>>, LatencyWrites)
    BY Groups, Writes, A64Places
  <2>5. Sound(LATENCY_MEM(<<Str(V(0)), Rmw(V(0))>>))
    BY <2>4, LatencyMemSound
  <2> QED
    BY <2>3, <2>5, BothSound DEF LdFmla
<1>2. Sounds(LdFmla.ldq_fmlaq_sep)
  <2> DEFINE pre == [j \in 1..8 |-> Ldr(V(2 * j - 2))]
  <2>1. \A j \in 1..8 : pre[j].dst \subseteq HandWrites({})
    BY Writes, HandPlaces
  <2>2. /\ DOMAIN Packed(16, 2, pre, RmwV) = 1..16
        /\ BodyWithin(Packed(16, 2, pre, RmwV), HandWrites({}))
    BY <2>1, HandPacked, HandPlaces
  <2>3. Sound(ByHand(Packed(16, 2, pre, RmwV), X(0), {}, 16))
    BY <2>2, ByHandSound, HandCounters
  <2>4. Within(<<Ldr(V(0)), Rmw(V(1))>>, LatencyWrites)
    BY Groups, Writes, A64Places
  <2>5. Sound(LATENCY_MEM(<<Ldr(V(0)), Rmw(V(1))>>))
    BY <2>4, LatencyMemSound
  <2> QED
    BY <2>3, <2>5, BothSound DEF LdFmla
<1> QED
  BY <1>1, <1>2 DEF LdFmla, TableSound

LEMMA LdFmlaLaneSound == TableSound(LdFmlaLane)
<1>1. Sounds(LdFmlaLane.ldq_fmlaq_lane_sep)
  BY LdFmlaSound DEF LdFmlaLane, LdFmla, TableSound
<1>2. Sounds(LdFmlaLane.ldd_fmlaq_sep)
  <2> DEFINE pre == [j \in 1..16 |-> Ldr(V(j - 1))]
  <2>1. \A j \in 1..16 : pre[j].dst \subseteq HandWrites({})
    BY Writes, HandPlaces
  <2>2. /\ DOMAIN Packed(16, 1, pre, RmwV) = 1..16
        /\ BodyWithin(Packed(16, 1, pre, RmwV), HandWrites({}))
    BY <2>1, HandPacked, HandPlaces
  <2>3. Sound(ByHand(Packed(16, 1, pre, RmwV), X(0), {}, 16))
    BY <2>2, ByHandSound, HandCounters
  <2>4. Within(<<Ldr(V(0)), Rmw(V(1))>>, LatencyWrites)
    BY Groups, Writes, A64Places
  <2>5. Sound(LATENCY_MEM(<<Ldr(V(0)), Rmw(V(1))>>))
    BY <2>4, LatencyMemSound
  <2> QED
    BY <2>3, <2>5, BothSound DEF LdFmlaLane
<1> QED
  BY <1>1, <1>2 DEF LdFmlaLane, TableSound

LEMMA SshllInsSound == TableSound(SshllIns)
<1>1. Sounds(SshllIns.sshll_ins_sep)
  <2> DEFINE body == [k \in 1..10 |-> <<Rmw(V(2 * k - 2)), Ins(V(2 * k - 1), X(0))>>]
  <2>1. ASSUME NEW k \in 1..10 PROVE Within(body[k], HandWrites(Xs(0, 19) \cup X(22)))
    <3>1. 2 * k - 2 \in 0..31 /\ 2 * k - 1 \in 0..31
      OBVIOUS
    <3>2. Within(<<Rmw(V(2 * k - 2)), Ins(V(2 * k - 1), X(0))>>,
            HandWrites(Xs(0, 19) \cup X(22)))
      BY <3>1, Groups, Writes, HandPlaces
    <3> QED
      BY <3>2
  <2>2. DOMAIN body = 1..10 /\ BodyWithin(body, HandWrites(Xs(0, 19) \cup X(22)))
    BY <2>1 DEF BodyWithin
  <2>3. Sound(ByHand(body, X(20), Xs(0, 19) \cup X(22), 10))
    BY <2>2, ByHandSound, HandCounters
  <2>4. Within(<<Ins(V(1), X(0)), Rmw(V(1))>>, LatencyWrites)
    BY Groups, Writes, A64Places
  <2>5. Sound(LATENCY_MEM(<<Ins(V(1), X(0)), Rmw(V(1))>>))
    BY <2>4, LatencyMemSound
  <2> QED
    BY <2>3, <2>5, BothSound DEF SshllIns
<1> QED
  BY <1>1 DEF SshllIns, TableSound

\* A list of loads, or of lanes inserted.
LEMMA Listed ==
  ASSUME NEW regs, NEW xs, \A j \in DOMAIN regs : regs[j] \in 0..31
  PROVE  /\ \A j \in DOMAIN regs : Loads(regs)[j].dst \subseteq HandWrites(xs)
         /\ \A j \in DOMAIN regs : Ins1(regs)[j].dst \subseteq HandWrites(xs)
BY Writes, HandPlaces DEF Loads, Ins1

LEMMA OneToFourSound == TableSound(OneToFour)
<1>1. Sounds(OneToFour.ldd_fmlaq_lane_1_4_sep)
  <2>1. \A j \in 1..4 : Loads(<<0, 2, 6, 11>>)[j].dst \subseteq HandWrites(Xs(0, 19) \cup X(22))
    <3> DEFINE regs == <<0, 2, 6, 11>>
    <3>1. DOMAIN regs = 1..4 /\ \A j \in DOMAIN regs : regs[j] \in 0..31
      OBVIOUS
    <3> HIDE DEF regs
    <3>2. \A j \in 1..4 : Loads(regs)[j].dst \subseteq HandWrites(Xs(0, 19) \cup X(22))
      BY <3>1, Listed
    <3> QED
      BY <3>2 DEF regs
  <2>2. /\ DOMAIN Packed(16, 4, Loads(<<0, 2, 6, 11>>), RmwV) = 1..16
        /\ BodyWithin(Packed(16, 4, Loads(<<0, 2, 6, 11>>), RmwV),
          HandWrites(Xs(0, 19) \cup X(22)))
    BY <2>1, HandPacked, HandPlaces
  <2>3. Sound(ByHand(Packed(16, 4, Loads(<<0, 2, 6, 11>>), RmwV), X(20), Xs(0, 19) \cup X(22),
          16))
    BY <2>2, ByHandSound, HandCounters
  <2>4. Within(<<Ldr(X(0)), Rmw(V(1))>>, LatencyWrites)
    BY Groups, Writes, A64Places
  <2>5. Sound(LATENCY_MEM(<<Ldr(X(0)), Rmw(V(1))>>))
    BY <2>4, LatencyMemSound
  <2> QED
    BY <2>3, <2>5, BothSound DEF OneToFour
<1>2. Sounds(OneToFour.ldd_mla_s16_lane_1_4_sep)
  <2>1. \A j \in 1..4 : Loads(<<0, 2, 6, 11>>)[j].dst \subseteq HandWrites(Xs(0, 19) \cup X(22))
    <3> DEFINE regs == <<0, 2, 6, 11>>
    <3>1. DOMAIN regs = 1..4 /\ \A j \in DOMAIN regs : regs[j] \in 0..31
      OBVIOUS
    <3> HIDE DEF regs
    <3>2. \A j \in 1..4 : Loads(regs)[j].dst \subseteq HandWrites(Xs(0, 19) \cup X(22))
      BY <3>1, Listed
    <3> QED
      BY <3>2 DEF regs
  <2>2. /\ DOMAIN Packed(16, 4, Loads(<<0, 2, 6, 11>>), AccV(V(1))) = 1..16
        /\ BodyWithin(Packed(16, 4, Loads(<<0, 2, 6, 11>>), AccV(V(1))),
          HandWrites(Xs(0, 19) \cup X(22)))
    BY <2>1, HandPacked, HandPlaces
  <2>3. Sound(ByHand(Packed(16, 4, Loads(<<0, 2, 6, 11>>), AccV(V(1))), X(20),
          Xs(0, 19) \cup X(22), 16))
    BY <2>2, ByHandSound, HandCounters
  <2>4. Within(<<Ldr(V(1)), Rmw(V(1))>>, LatencyWrites)
    BY Groups, Writes, A64Places
  <2>5. Sound(LATENCY_MEM(<<Ldr(V(1)), Rmw(V(1))>>))
    BY <2>4, LatencyMemSound
  <2> QED
    BY <2>3, <2>5, BothSound DEF OneToFour
<1> QED
  BY <1>1, <1>2 DEF OneToFour, TableSound

LEMMA LdqInsToFourSound == TableSound(LdqInsToFour)
<1>1. Sounds(LdqInsToFour.ldq_fmlaq_lane_1_4_sep)
  <2>1. \A j \in 1..4 : Loads(<<0, 2, 6, 11>>)[j].dst \subseteq HandWrites(Xs(0, 19) \cup X(22))
    <3> DEFINE regs == <<0, 2, 6, 11>>
    <3>1. DOMAIN regs = 1..4 /\ \A j \in DOMAIN regs : regs[j] \in 0..31
      OBVIOUS
    <3> HIDE DEF regs
    <3>2. \A j \in 1..4 : Loads(regs)[j].dst \subseteq HandWrites(Xs(0, 19) \cup X(22))
      BY <3>1, Listed
    <3> QED
      BY <3>2 DEF regs
  <2>2. /\ DOMAIN Packed(16, 4, Loads(<<0, 2, 6, 11>>), RmwV) = 1..16
        /\ BodyWithin(Packed(16, 4, Loads(<<0, 2, 6, 11>>), RmwV),
          HandWrites(Xs(0, 19) \cup X(22)))
    BY <2>1, HandPacked, HandPlaces
  <2>3. Sound(ByHand(Packed(16, 4, Loads(<<0, 2, 6, 11>>), RmwV), X(20), Xs(0, 19) \cup X(22),
          16))
    BY <2>2, ByHandSound, HandCounters
  <2>4. Within(<<Ldr(V(1)), Rmw(V(1))>>, LatencyWrites)
    BY Groups, Writes, A64Places
  <2>5. Sound(LATENCY_MEM(<<Ldr(V(1)), Rmw(V(1))>>))
    BY <2>4, LatencyMemSound
  <2> QED
    BY <2>3, <2>5, BothSound DEF LdqInsToFour
<1>2. Sounds(LdqInsToFour.ins_fmlaq_lane_1_4_sep)
  <2> DEFINE pre == [j \in 1..4 |-> Ins(V(0), X(0))]
  <2>1. \A j \in 1..4 : pre[j].dst \subseteq HandWrites(Xs(0, 19) \cup X(22))
    BY Writes, HandPlaces
  <2>2. /\ DOMAIN Packed(16, 4, pre, RmwV) = 1..16
        /\ BodyWithin(Packed(16, 4, pre, RmwV), HandWrites(Xs(0, 19) \cup X(22)))
    BY <2>1, HandPacked, HandPlaces
  <2>3. Sound(ByHand(Packed(16, 4, pre, RmwV), X(20), Xs(0, 19) \cup X(22), 16))
    BY <2>2, ByHandSound, HandCounters
  <2>4. Within(<<Ins(V(1), X(0)), Rmw(V(1))>>, LatencyWrites)
    BY Groups, Writes, A64Places
  <2>5. Sound(LATENCY_MEM(<<Ins(V(1), X(0)), Rmw(V(1))>>))
    BY <2>4, LatencyMemSound
  <2> QED
    BY <2>3, <2>5, BothSound DEF LdqInsToFour
<1> QED
  BY <1>1, <1>2 DEF LdqInsToFour, TableSound

LEMMA LdqToThreeAndTwoSound == TableSound(LdqToThreeAndTwo)
<1>1. Sounds(LdqToThreeAndTwo.ldq_fmlaq_lane_1_3_sep)
  <2>1. \A j \in 1..5 : Loads(<<0, 2, 6, 7, 7>>)[j].dst
          \subseteq HandWrites(Xs(0, 19) \cup X(22))
    <3> DEFINE regs == <<0, 2, 6, 7, 7>>
    <3>1. DOMAIN regs = 1..5 /\ \A j \in DOMAIN regs : regs[j] \in 0..31
      OBVIOUS
    <3> HIDE DEF regs
    <3>2. \A j \in 1..5 : Loads(regs)[j].dst \subseteq HandWrites(Xs(0, 19) \cup X(22))
      BY <3>1, Listed
    <3> QED
      BY <3>2 DEF regs
  <2>2. /\ DOMAIN Packed(15, 3, Loads(<<0, 2, 6, 7, 7>>), RmwV) = 1..15
        /\ BodyWithin(Packed(15, 3, Loads(<<0, 2, 6, 7, 7>>), RmwV),
          HandWrites(Xs(0, 19) \cup X(22)))
    BY <2>1, HandPacked, HandPlaces
  <2>3. Sound(ByHand(Packed(15, 3, Loads(<<0, 2, 6, 7, 7>>), RmwV), X(20),
          Xs(0, 19) \cup X(22), 15))
    BY <2>2, ByHandSound, HandCounters
  <2>4. Within(<<Ldr(V(1)), Rmw(V(1))>>, LatencyWrites)
    BY Groups, Writes, A64Places
  <2>5. Sound(LATENCY_MEM(<<Ldr(V(1)), Rmw(V(1))>>))
    BY <2>4, LatencyMemSound
  <2> QED
    BY <2>3, <2>5, BothSound DEF LdqToThreeAndTwo
<1>2. Sounds(LdqToThreeAndTwo.ldq_fmlaq_lane_1_2_sep)
  <2>1. \A j \in 1..8 : Loads(<<0, 2, 4, 6, 7, 8, 9, 10>>)[j].dst
          \subseteq HandWrites(Xs(0, 19) \cup X(22))
    <3> DEFINE regs == <<0, 2, 4, 6, 7, 8, 9, 10>>
    <3>1. DOMAIN regs = 1..8 /\ \A j \in DOMAIN regs : regs[j] \in 0..31
      OBVIOUS
    <3> HIDE DEF regs
    <3>2. \A j \in 1..8 : Loads(regs)[j].dst \subseteq HandWrites(Xs(0, 19) \cup X(22))
      BY <3>1, Listed
    <3> QED
      BY <3>2 DEF regs
  <2>2. /\ DOMAIN Packed(16, 2, Loads(<<0, 2, 4, 6, 7, 8, 9, 10>>), RmwV) = 1..16
        /\ BodyWithin(Packed(16, 2, Loads(<<0, 2, 4, 6, 7, 8, 9, 10>>), RmwV),
          HandWrites(Xs(0, 19) \cup X(22)))
    BY <2>1, HandPacked, HandPlaces
  <2>3. Sound(ByHand(Packed(16, 2, Loads(<<0, 2, 4, 6, 7, 8, 9, 10>>), RmwV), X(20),
          Xs(0, 19) \cup X(22), 16))
    BY <2>2, ByHandSound, HandCounters
  <2>4. Within(<<Ldr(V(1)), Rmw(V(1))>>, LatencyWrites)
    BY Groups, Writes, A64Places
  <2>5. Sound(LATENCY_MEM(<<Ldr(V(1)), Rmw(V(1))>>))
    BY <2>4, LatencyMemSound
  <2> QED
    BY <2>3, <2>5, BothSound DEF LdqToThreeAndTwo
<1> QED
  BY <1>1, <1>2 DEF LdqToThreeAndTwo, TableSound

\* General registers the loops written by hand load.
LEMMA HandXs ==
  /\ \A i \in 0..19 : X(i) \subseteq HandWrites(Xs(0, 19))
  /\ \A i \in 0..19 : X(i) \subseteq HandWrites(Xs(0, 19) \cup X(22))
  /\ \A i \in 1..20 : X(i) \subseteq HandWrites(Xs(1, 20))
<1>1. /\ \A i \in 0..19 : X(i) \subseteq Xs(0, 19)
      /\ \A i \in 1..20 : X(i) \subseteq Xs(1, 20)
  BY Blocks, Single
<1> QED
  BY <1>1 DEF HandWrites

LEMMA SmlalSound == TableSound(Smlal)
<1>1. Sounds(Smlal.ldx_ins_smlalq_sep)
  <2> DEFINE body ==
           [k \in 1..16 |->
              LET m == Rmw(V(15 + k)) IN
              CASE k % 4 = 1 -> <<m, Ldr(X(2))>>
                [] k % 4 = 0 -> <<m, Ldr(V(3)), Ins(V(<<4, 8, 12, 15>>[k \div 4]), X(5))>>
                [] OTHER -> <<m>>]
         S == HandWrites(Xs(0, 19))
  <2>0. /\ \A i \in 0..31 : V(i) \subseteq S
        /\ {} \subseteq S
        /\ \A i \in 0..19 : X(i) \subseteq S
    BY HandPlaces, HandXs
  <2> HIDE DEF S
  <2>1. ASSUME NEW k \in 1..16 PROVE Within(body[k], S)
    <3>1. 15 + k \in 0..31
      OBVIOUS
    <3>2. CASE k % 4 = 1
      <4>1. body[k] = <<Rmw(V(15 + k)), Ldr(X(2))>>
        BY <3>2
      <4>2. Rmw(V(15 + k)).dst \subseteq S /\ Ldr(X(2)).dst \subseteq S
        BY <3>1, <2>0, Writes
      <4>3. Within(<<Rmw(V(15 + k)), Ldr(X(2))>>, S)
        BY <4>2, Groups
      <4> QED
        BY <4>1, <4>3
    <3>3. CASE k % 4 = 0
      <4>0. (<<4, 8, 12, 15>>[k \div 4]) \in 0..31
        BY <3>3
      <4>1. body[k] = <<Rmw(V(15 + k)), Ldr(V(3)), Ins(V(<<4, 8, 12, 15>>[k \div 4]), X(5))>>
        BY <3>3
      <4>2. Rmw(V(15 + k)).dst \subseteq S /\ Ldr(V(3)).dst \subseteq S
              /\ Ins(V(<<4, 8, 12, 15>>[k \div 4]), X(5)).dst \subseteq S
        BY <3>1, <4>0, <2>0, Writes
      <4>3. Within(<<Rmw(V(15 + k)), Ldr(V(3)), Ins(V(<<4, 8, 12, 15>>[k \div 4]), X(5))>>, S)
        BY <4>2, Groups
      <4> QED
        BY <4>1, <4>3
    <3>4. CASE k % 4 \notin {0, 1}
      <4>1. body[k] = <<Rmw(V(15 + k))>>
        BY <3>4
      <4>2. Rmw(V(15 + k)).dst \subseteq S
        BY <3>1, <2>0, Writes
      <4>3. Within(<<Rmw(V(15 + k))>>, S)
        BY <4>2, Groups
      <4> QED
        BY <4>1, <4>3
    <3> QED
      BY <3>1, <3>2, <3>3, <3>4
  <2>2. DOMAIN body = 1..16 /\ BodyWithin(body, HandWrites(Xs(0, 19)))
    BY <2>1 DEF BodyWithin, S
  <2>3. Sound(ByHand(body, X(20), Xs(0, 19), 16))
    BY <2>2, ByHandSound, HandCounters
  <2>4. Within(<<Ldr(X(0)), Ins(V(1), X(0)), Rmw(V(1))>>, LatencyWrites)
    BY Groups, Writes, A64Places
  <2>5. Sound(LATENCY_MEM(<<Ldr(X(0)), Ins(V(1), X(0)), Rmw(V(1))>>))
    BY <2>4, LatencyMemSound
  <2> QED
    BY <2>3, <2>5, BothSound DEF Smlal
<1>2. Sounds(Smlal.ins_smlalq_sep_1_2)
  <2> DEFINE body ==
           [k \in 1..16 |->
              LET m == Rmw(V(15 + k)) IN
              IF k % 2 = 1 THEN <<m>>
              ELSE <<m, Ins(V(IF k = 16 THEN 15 ELSE 3), X(5))>>]
         S == HandWrites(Xs(0, 19))
  <2>0. /\ \A i \in 0..31 : V(i) \subseteq S
        /\ {} \subseteq S
        /\ \A i \in 0..19 : X(i) \subseteq S
    BY HandPlaces, HandXs
  <2> HIDE DEF S
  <2>1. ASSUME NEW k \in 1..16 PROVE Within(body[k], S)
    <3>1. 15 + k \in 0..31
      OBVIOUS
    <3>2. CASE k % 2 = 1
      <4>1. body[k] = <<Rmw(V(15 + k))>>
        BY <3>2
      <4>2. Rmw(V(15 + k)).dst \subseteq S
        BY <3>1, <2>0, Writes
      <4>3. Within(<<Rmw(V(15 + k))>>, S)
        BY <4>2, Groups
      <4> QED
        BY <4>1, <4>3
    <3>3. CASE k % 2 # 1
      <4>0. (IF k = 16 THEN 15 ELSE 3) \in 0..31
        BY <3>3
      <4>1. body[k] = <<Rmw(V(15 + k)), Ins(V(IF k = 16 THEN 15 ELSE 3), X(5))>>
        BY <3>3
      <4>2. Rmw(V(15 + k)).dst \subseteq S
              /\ Ins(V(IF k = 16 THEN 15 ELSE 3), X(5)).dst \subseteq S
        BY <3>1, <4>0, <2>0, Writes
      <4>3. Within(<<Rmw(V(15 + k)), Ins(V(IF k = 16 THEN 15 ELSE 3), X(5))>>, S)
        BY <4>2, Groups
      <4> QED
        BY <4>1, <4>3
    <3> QED
      BY <3>1, <3>2, <3>3
  <2>2. DOMAIN body = 1..16 /\ BodyWithin(body, HandWrites(Xs(0, 19)))
    BY <2>1 DEF BodyWithin, S
  <2>3. Sound(ByHand(body, X(20), Xs(0, 19), 16))
    BY <2>2, ByHandSound, HandCounters
  <2>4. Within(<<Ins(V(1), X(0)), Rmw(V(1))>>, LatencyWrites)
    BY Groups, Writes, A64Places
  <2>5. Sound(LATENCY_MEM(<<Ins(V(1), X(0)), Rmw(V(1))>>))
    BY <2>4, LatencyMemSound
  <2> QED
    BY <2>3, <2>5, BothSound DEF Smlal
<1> QED
  BY <1>1, <1>2 DEF Smlal, TableSound

LEMMA OneToThreeSound == TableSound(OneToThree)
<1>1. Sounds(OneToThree.ldd_fmlaq_lane_1_3_sep)
  <2> DEFINE body ==
           [k \in 1..15 |->
              LET m == Rmw(V(15 + k))  n == (k + 2) \div 3 IN
              CASE k % 3 = 1 -> <<Ldr(V(<<0, 2, 4, 6, 11>>[n])),
                                  Ins(V(<<1, 3, 5, 7, 12>>[n]), X(1)), m>>
                [] k % 3 = 2 -> <<Ldr(X(2)), m>>
                [] OTHER -> IF k = 15 THEN <<m>> ELSE <<Nop, m, Nop>>]
         S == HandWrites(Xs(0, 19) \cup X(22))
  <2>0. /\ \A i \in 0..31 : V(i) \subseteq S
        /\ {} \subseteq S
        /\ \A i \in 0..19 : X(i) \subseteq S
    BY HandPlaces, HandXs
  <2> HIDE DEF S
  <2>1. ASSUME NEW k \in 1..15 PROVE Within(body[k], S)
    <3>1. 15 + k \in 0..31
      OBVIOUS
    <3>2. CASE k % 3 = 1
      <4>0. (<<0, 2, 4, 6, 11>>[(k + 2) \div 3]) \in 0..31
              /\ (<<1, 3, 5, 7, 12>>[(k + 2) \div 3]) \in 0..31
        BY <3>2
      <4>1. body[k] = <<Ldr(V(<<0, 2, 4, 6, 11>>[(k + 2) \div 3])),
              Ins(V(<<1, 3, 5, 7, 12>>[(k + 2) \div 3]), X(1)), Rmw(V(15 + k))>>
        BY <3>2
      <4>2. Ldr(V(<<0, 2, 4, 6, 11>>[(k + 2) \div 3])).dst \subseteq S
              /\ Ins(V(<<1, 3, 5, 7, 12>>[(k + 2) \div 3]), X(1)).dst \subseteq S
                   /\ Rmw(V(15 + k)).dst \subseteq S
        <5>1. /\ V(<<0, 2, 4, 6, 11>>[(k + 2) \div 3]) \subseteq S
              /\ V(<<1, 3, 5, 7, 12>>[(k + 2) \div 3]) \subseteq S
              /\ V(15 + k) \subseteq S
          BY <3>1, <4>0, <2>0
        <5> QED
          BY <5>1, Writes
      <4>3. Within(<<Ldr(V(<<0, 2, 4, 6, 11>>[(k + 2) \div 3])),
              Ins(V(<<1, 3, 5, 7, 12>>[(k + 2) \div 3]), X(1)), Rmw(V(15 + k))>>, S)
        BY <4>2, Groups
      <4> QED
        BY <4>1, <4>3
    <3>3. CASE k % 3 = 2
      <4>1. body[k] = <<Ldr(X(2)), Rmw(V(15 + k))>>
        BY <3>3
      <4>2. Ldr(X(2)).dst \subseteq S /\ Rmw(V(15 + k)).dst \subseteq S
        BY <3>1, <2>0, Writes
      <4>3. Within(<<Ldr(X(2)), Rmw(V(15 + k))>>, S)
        BY <4>2, Groups
      <4> QED
        BY <4>1, <4>3
    <3>4. CASE k % 3 \notin {1, 2} /\ k = 15
      <4>1. body[k] = <<Rmw(V(15 + k))>>
        BY <3>4
      <4>2. Rmw(V(15 + k)).dst \subseteq S
        BY <3>1, <2>0, Writes
      <4>3. Within(<<Rmw(V(15 + k))>>, S)
        BY <4>2, Groups
      <4> QED
        BY <4>1, <4>3
    <3>5. CASE k % 3 \notin {1, 2} /\ k # 15
      <4>1. body[k] = <<Nop, Rmw(V(15 + k)), Nop>>
        BY <3>5
      <4>2. Nop.dst \subseteq S /\ Rmw(V(15 + k)).dst \subseteq S /\ Nop.dst \subseteq S
        BY <3>1, <2>0, Writes
      <4>3. Within(<<Nop, Rmw(V(15 + k)), Nop>>, S)
        BY <4>2, Groups
      <4> QED
        BY <4>1, <4>3
    <3> QED
      BY <3>1, <3>2, <3>3, <3>4, <3>5
  <2>2. DOMAIN body = 1..15 /\ BodyWithin(body, HandWrites(Xs(0, 19) \cup X(22)))
    BY <2>1 DEF BodyWithin, S
  <2>3. Sound(ByHand(body, X(20), Xs(0, 19) \cup X(22), 15))
    BY <2>2, ByHandSound, HandCounters
  <2>4. Within(<<Ldr(X(0)), Ins(V(1), X(0)), Rmw(V(1))>>, LatencyWrites)
    BY Groups, Writes, A64Places
  <2>5. Sound(LATENCY_MEM(<<Ldr(X(0)), Ins(V(1), X(0)), Rmw(V(1))>>))
    BY <2>4, LatencyMemSound
  <2> QED
    BY <2>3, <2>5, BothSound DEF OneToThree
<1>2. Sounds(OneToThree.ins_fmlaq_lane_1_3_sep)
  <2>1. \A j \in 1..5 : Ins1(<<1, 3, 5, 7, 12>>)[j].dst
          \subseteq HandWrites(Xs(0, 19) \cup X(22))
    <3> DEFINE regs == <<1, 3, 5, 7, 12>>
    <3>1. DOMAIN regs = 1..5 /\ \A j \in DOMAIN regs : regs[j] \in 0..31
      OBVIOUS
    <3> HIDE DEF regs
    <3>2. \A j \in 1..5 : Ins1(regs)[j].dst \subseteq HandWrites(Xs(0, 19) \cup X(22))
      BY <3>1, Listed
    <3> QED
      BY <3>2 DEF regs
  <2>2. /\ DOMAIN Packed(15, 3, Ins1(<<1, 3, 5, 7, 12>>), RmwV) = 1..15
        /\ BodyWithin(Packed(15, 3, Ins1(<<1, 3, 5, 7, 12>>), RmwV),
          HandWrites(Xs(0, 19) \cup X(22)))
    BY <2>1, HandPacked, HandPlaces
  <2>3. Sound(ByHand(Packed(15, 3, Ins1(<<1, 3, 5, 7, 12>>), RmwV), X(20),
          Xs(0, 19) \cup X(22), 15))
    BY <2>2, ByHandSound, HandCounters
  <2>4. Within(<<Ldr(X(0)), Ins(V(1), X(0)), Rmw(V(1))>>, LatencyWrites)
    BY Groups, Writes, A64Places
  <2>5. Sound(LATENCY_MEM(<<Ldr(X(0)), Ins(V(1), X(0)), Rmw(V(1))>>))
    BY <2>4, LatencyMemSound
  <2> QED
    BY <2>3, <2>5, BothSound DEF OneToThree
<1> QED
  BY <1>1, <1>2 DEF OneToThree, TableSound

LEMMA LddLdxInsSound == TableSound(LddLdxIns)
<1>1. Sounds(LddLdxIns.ldd_ldx_ins_fmlaq_lane_sep)
  <2> DEFINE pre == [j \in 1..16 |->
                        LET n == j - 1 IN
                        IF n \in {0, 3, 6, 9, 15} THEN Ldr(V(n))
                        ELSE IF n \in {2, 5, 8, 11, 14} THEN Ins(V(n), X(n))
                        ELSE Ldr(X(n))]
  <2>1. \A j \in 1..16 : pre[j].dst \subseteq HandWrites(Xs(1, 20))
    <3> SUFFICES ASSUME NEW j \in 1..16 PROVE pre[j].dst \subseteq HandWrites(Xs(1, 20))
      OBVIOUS
    <3>1. CASE j - 1 \in {0, 3, 6, 9, 15}
      <4>1. pre[j] = Ldr(V(j - 1)) /\ j - 1 \in 0..31
        BY <3>1
      <4> QED
        BY <4>1, Writes, HandPlaces
    <3>2. CASE j - 1 \in {2, 5, 8, 11, 14}
      <4>1. pre[j] = Ins(V(j - 1), X(j - 1)) /\ j - 1 \in 0..31
        BY <3>2
      <4> QED
        BY <4>1, Writes, HandPlaces
    <3>3. CASE j - 1 \notin {0, 3, 6, 9, 15, 2, 5, 8, 11, 14}
      <4>1. pre[j] = Ldr(X(j - 1)) /\ j - 1 \in 1..20
        BY <3>3
      <4> QED
        BY <4>1, Writes, HandXs
    <3> QED
      BY <3>1, <3>2, <3>3
  <2>2. /\ DOMAIN Packed(16, 1, pre, RmwV) = 1..16
        /\ BodyWithin(Packed(16, 1, pre, RmwV), HandWrites(Xs(1, 20)))
    BY <2>1, HandPacked, HandPlaces
  <2>3. Sound(ByHand(Packed(16, 1, pre, RmwV), X(0), Xs(1, 20), 16))
    BY <2>2, ByHandSound, HandCounters
  <2>4. Within(<<Ldr(V(0)), Rmw(V(1))>>, LatencyWrites)
    BY Groups, Writes, A64Places
  <2>5. Sound(LATENCY_MEM(<<Ldr(V(0)), Rmw(V(1))>>))
    BY <2>4, LatencyMemSound
  <2> QED
    BY <2>3, <2>5, BothSound DEF LddLdxIns
<1>2. Sounds(LddLdxIns.ldd_nop_ldx_ins_fmlaq_lane_sep)
  <2> DEFINE body ==
           [k \in 1..16 |->
              LET m == Rmw(V(15 + k))  n == (k + 3) \div 4 IN
              CASE k % 4 = 1 -> <<Ldr(V(3 * n - 3)), m>>
                [] k % 4 = 2 -> <<m>>
                [] k % 4 = 3 -> <<Ldr(X(3 * n - 2)), m>>
                [] OTHER -> <<Ins(V(3 * n - 1), X(<<2, 5, 11, 14>>[n])), m>>]
         S == HandWrites(Xs(1, 20))
  <2>0. /\ \A i \in 0..31 : V(i) \subseteq S
        /\ {} \subseteq S
        /\ \A i \in 1..20 : X(i) \subseteq S
    BY HandPlaces, HandXs
  <2> HIDE DEF S
  <2>1. ASSUME NEW k \in 1..16 PROVE Within(body[k], S)
    <3>1. /\ 15 + k \in 0..31
          /\ 3 * ((k + 3) \div 4) - 3 \in 0..31 /\ 3 * ((k + 3) \div 4) - 1 \in 0..31
          /\ 3 * ((k + 3) \div 4) - 2 \in 1..20
      OBVIOUS
    <3>2. CASE k % 4 = 1
      <4>1. body[k] = <<Ldr(V(3 * ((k + 3) \div 4) - 3)), Rmw(V(15 + k))>>
        BY <3>2
      <4>2. Ldr(V(3 * ((k + 3) \div 4) - 3)).dst \subseteq S /\ Rmw(V(15 + k)).dst \subseteq S
        BY <3>1, <2>0, Writes
      <4>3. Within(<<Ldr(V(3 * ((k + 3) \div 4) - 3)), Rmw(V(15 + k))>>, S)
        BY <4>2, Groups
      <4> QED
        BY <4>1, <4>3
    <3>3. CASE k % 4 = 2
      <4>1. body[k] = <<Rmw(V(15 + k))>>
        BY <3>3
      <4>2. Rmw(V(15 + k)).dst \subseteq S
        BY <3>1, <2>0, Writes
      <4>3. Within(<<Rmw(V(15 + k))>>, S)
        BY <4>2, Groups
      <4> QED
        BY <4>1, <4>3
    <3>4. CASE k % 4 = 3
      <4>1. body[k] = <<Ldr(X(3 * ((k + 3) \div 4) - 2)), Rmw(V(15 + k))>>
        BY <3>4
      <4>2. Ldr(X(3 * ((k + 3) \div 4) - 2)).dst \subseteq S /\ Rmw(V(15 + k)).dst \subseteq S
        BY <3>1, <2>0, Writes
      <4>3. Within(<<Ldr(X(3 * ((k + 3) \div 4) - 2)), Rmw(V(15 + k))>>, S)
        BY <4>2, Groups
      <4> QED
        BY <4>1, <4>3
    <3>5. CASE k % 4 \notin {1, 2, 3}
      <4>1. body[k] = <<Ins(V(3 * ((k + 3) \div 4) - 1), X(<<2, 5, 11, 14>>[(k + 3) \div 4])),
              Rmw(V(15 + k))>>
        BY <3>5
      <4>2. Ins(V(3 * ((k + 3) \div 4) - 1), X(<<2, 5, 11, 14>>[(k + 3) \div 4])).dst
              \subseteq S /\ Rmw(V(15 + k)).dst \subseteq S
        BY <3>1, <2>0, Writes
      <4>3. Within(<<Ins(V(3 * ((k + 3) \div 4) - 1), X(<<2, 5, 11, 14>>[(k + 3) \div 4])),
              Rmw(V(15 + k))>>, S)
        BY <4>2, Groups
      <4> QED
        BY <4>1, <4>3
    <3> QED
      BY <3>1, <3>2, <3>3, <3>4, <3>5
  <2>2. DOMAIN body = 1..16 /\ BodyWithin(body, HandWrites(Xs(1, 20)))
    BY <2>1 DEF BodyWithin, S
  <2>3. Sound(ByHand(body, X(0), Xs(1, 20), 16))
    BY <2>2, ByHandSound, HandCounters
  <2>4. Within(<<Ldr(V(0)), Rmw(V(1))>>, LatencyWrites)
    BY Groups, Writes, A64Places
  <2>5. Sound(LATENCY_MEM(<<Ldr(V(0)), Rmw(V(1))>>))
    BY <2>4, LatencyMemSound
  <2> QED
    BY <2>3, <2>5, BothSound DEF LddLdxIns
<1> QED
  BY <1>1, <1>2 DEF LddLdxIns, TableSound

LEMMA SmullSmlalSound == TableSound(SmullSmlal)
<1>1. Sounds(SmullSmlal.smull_smlal_sadalp_sep)
  <2> DEFINE body ==
           [k \in 1..12 |->
              LET n == (k - 1) \div 2 IN
              IF k % 2 = 1 THEN <<Rmw(V(3 * n))>>
              ELSE <<Rmw(V(3 * n + 1)), Rmw(V(3 * n + 2))>>]
         S == HandWrites({})
  <2>0. /\ \A i \in 0..31 : V(i) \subseteq S
        /\ {} \subseteq S
    BY HandPlaces
  <2> HIDE DEF S
  <2>1. ASSUME NEW k \in 1..12 PROVE Within(body[k], S)
    <3>1. 3 * ((k - 1) \div 2) \in 0..31 /\ 3 * ((k - 1) \div 2) + 1 \in 0..31
            /\ 3 * ((k - 1) \div 2) + 2 \in 0..31
      OBVIOUS
    <3>2. CASE k % 2 = 1
      <4>1. body[k] = <<Rmw(V(3 * ((k - 1) \div 2)))>>
        BY <3>2
      <4>2. Rmw(V(3 * ((k - 1) \div 2))).dst \subseteq S
        BY <3>1, <2>0, Writes
      <4>3. Within(<<Rmw(V(3 * ((k - 1) \div 2)))>>, S)
        BY <4>2, Groups
      <4> QED
        BY <4>1, <4>3
    <3>3. CASE k % 2 # 1
      <4>1. body[k] = <<Rmw(V(3 * ((k - 1) \div 2) + 1)), Rmw(V(3 * ((k - 1) \div 2) + 2))>>
        BY <3>3
      <4>2. Rmw(V(3 * ((k - 1) \div 2) + 1)).dst \subseteq S
              /\ Rmw(V(3 * ((k - 1) \div 2) + 2)).dst \subseteq S
        BY <3>1, <2>0, Writes
      <4>3. Within(<<Rmw(V(3 * ((k - 1) \div 2) + 1)), Rmw(V(3 * ((k - 1) \div 2) + 2))>>, S)
        BY <4>2, Groups
      <4> QED
        BY <4>1, <4>3
    <3> QED
      BY <3>1, <3>2, <3>3
  <2>2. DOMAIN body = 1..12 /\ BodyWithin(body, HandWrites({}))
    BY <2>1 DEF BodyWithin, S
  <2>3. Sound(ByHand(body, X(0), {}, 12))
    BY <2>2, ByHandSound, HandCounters
  <2>4. Within(<<Rmw(V(0)), Rmw(V(0)), Rmw(V(0))>>, V(0))
    BY Groups, Writes, A64Places
  <2>5. Sound(LATENCY(<<Rmw(V(0)), Rmw(V(0)), Rmw(V(0))>>))
    BY <2>4, LatencySound
  <2> QED
    BY <2>3, <2>5, BothSound DEF SmullSmlal
<1> QED
  BY <1>1 DEF SmullSmlal, TableSound

------------------------------------------------------------------------------
\* ARMv7: any body, then the macros and the functions written out by hand.
LEMMA V7Sound ==
  ASSUME NEW body, NEW cnt, NEW zeroed, NEW clobbers, NEW per \in Nat,
         NEW memory, NEW S, BodyWithin(body, S), DOMAIN body = 1..per,
         (zeroed \cup S) \cap (Qs(4, 7) \cup Rs(0, 12)) \subseteq clobbers,
         cnt \subseteq clobbers, (zeroed \cup S) \cap cnt = {}
  PROVE  Sound(V7(body, cnt, zeroed, clobbers, per, memory))
<1> DEFINE b == V7(body, cnt, zeroed, clobbers, per, memory)
<1>1. /\ b.body = body /\ b.counter = cnt /\ b.zeroed = zeroed
      /\ b.clobbers = clobbers /\ b.per = per
      /\ b.pool = V7Pool /\ b.saved = V7Saved
  BY DEF V7
<1> HIDE DEF b
<1>2. UNION V7Pool \subseteq Rs(0, 12) /\ Rs(4, 11) \subseteq Rs(0, 12)
  BY Single, Blocks DEF V7Pool
<1>3. NamesWhatItWrites(b)
  BY <1>1, <1>2, WithinNamed DEF V7Saved
<1> QED
  BY <1>1, <1>3 DEF Sound, b

V7Many == Qs(0, 11) \cup Rs(0, 8) \cup Mem
V7All  == Qs(0, 15) \cup Mem
V7MemWrites == Qs(0, 1) \cup R(1) \cup Mem

\* Vector registers, general registers and memory are apart.
LEMMA V7Apart ==
  ASSUME NEW a \in Int, NEW b \in Int, NEW i \in Int
  PROVE  /\ Qs(a, b) \cap Rs(0, 12) = {} /\ Qs(a, b) \cap R(i) = {}
         /\ Mem \cap Rs(0, 12) = {} /\ Mem \cap R(i) = {} /\ Mem \cap Qs(a, b) = {}
         /\ Rs(0, 12) \cap Qs(a, b) = {}
BY Blocks, Single

\* A block holds its registers, the halves of those, and every block inside.
LEMMA QsHas ==
  ASSUME NEW a \in Int, NEW b \in Int, NEW i \in a..b
  PROVE  Q(i) \subseteq Qs(a, b) /\ D(2 * i) \subseteq Qs(a, b)
    /\ D(2 * i + 1) \subseteq Qs(a, b)
<1>1. Q(i) \subseteq Qs(a, b)
  BY DEF Qs
<1> QED
  BY <1>1 DEF Q

LEMMA QsInside ==
  ASSUME NEW a \in Int, NEW b \in Int, NEW c \in Int, NEW d \in Int, c <= a, b <= d
  PROVE  Qs(a, b) \subseteq Qs(c, d)
<1>1. a..b \subseteq c..d
  OBVIOUS
<1> QED
  BY <1>1 DEF Qs

\* Blocks within blocks, and blocks apart.
LEMMA V7Nested ==
  /\ Qs(0, 9) \subseteq Qs(0, 11) /\ Qs(0, 9) \subseteq Qs(0, 15)
       /\ Qs(6, 15) \subseteq Qs(0, 15)
  /\ Qs(0, 9) \subseteq Qs(0, 13) /\ Q(0) \subseteq Qs(0, 1)
  /\ Qs(0, 15) \cap Qs(4, 7) \subseteq Qs(0, 9) /\ Qs(0, 1) \cap Qs(4, 7) = {}
  /\ Rs(0, 8) \subseteq Rs(0, 10) /\ Rs(0, 8) \cap R(10) = {} /\ R(10) \subseteq Rs(0, 10)
  /\ R(1) \subseteq Rs(0, 1) /\ R(0) \subseteq Rs(0, 1) /\ R(0) \cap R(1) = {}
<1>1. /\ Qs(0, 9) \subseteq Qs(0, 11) /\ Qs(0, 9) \subseteq Qs(0, 15)
           /\ Qs(6, 15) \subseteq Qs(0, 15)
      /\ Qs(0, 9) \subseteq Qs(0, 13) /\ Q(0) \subseteq Qs(0, 1)
  BY QsInside, QsHas
<1>2. Qs(4, 7) \subseteq Qs(0, 9)
  BY Blocks
<1>3. Qs(0, 1) \cap Qs(4, 7) = {}
  BY Blocks
<1>4. /\ Rs(0, 8) \subseteq Rs(0, 10) /\ Rs(0, 8) \cap R(10) = {} /\ R(10) \subseteq Rs(0, 10)
      /\ R(1) \subseteq Rs(0, 1) /\ R(0) \subseteq Rs(0, 1) /\ R(0) \cap R(1) = {}
  BY Blocks, Single
<1> QED
  BY <1>1, <1>2, <1>3, <1>4

LEMMA V7ThroughputSound ==
  ASSUME NEW cb, Calling(cb, 0..9, Qs(0, 9))
  PROVE  Sound(V7Throughput(cb))
<1>1. BodyWithin(Unroll(10, cb), Qs(0, 9)) /\ DOMAIN Unroll(10, cb) = 1..10
  BY Unrolled, 10 - 1 = 9
<1>2. /\ (Qs(0, 9) \cup Qs(0, 9)) \cap (Qs(4, 7) \cup Rs(0, 12))
           \subseteq Qs(0, 9) \cup Rs(0, 1)
      /\ (Qs(0, 9) \cup Qs(0, 9)) \cap R(0) = {} /\ R(0) \subseteq Qs(0, 9) \cup Rs(0, 1)
  BY V7Nested, V7Apart
<1> QED
  BY <1>1, <1>2, V7Sound DEF V7Throughput

LEMMA V7ThroughputStart6Sound ==
  ASSUME NEW cb, Calling(cb, 6..15, Qs(0, 15))
  PROVE  Sound(V7ThroughputStart6(cb))
<1>1. BodyWithin(UnrollStart6(10, cb), Qs(0, 15)) /\ DOMAIN UnrollStart6(10, cb) = 1..10
  BY UnrolledStart6, 10 + 5 = 15
<1>2. /\ (Qs(6, 15) \cup Qs(0, 15)) \cap (Qs(4, 7) \cup Rs(0, 12))
           \subseteq Qs(0, 9) \cup Rs(0, 1)
      /\ (Qs(6, 15) \cup Qs(0, 15)) \cap R(0) = {} /\ R(0) \subseteq Qs(0, 9) \cup Rs(0, 1)
  BY V7Nested, V7Apart
<1> QED
  BY <1>1, <1>2, V7Sound DEF V7ThroughputStart6

LEMMA V7ThroughputMemSound ==
  ASSUME NEW cb, NEW n \in 1..10, Calling(cb, 0..(n - 1), V7Many)
  PROVE  Sound(V7ThroughputMem(cb, n))
<1>1. BodyWithin(Unroll(n, cb), V7Many) /\ DOMAIN Unroll(n, cb) = 1..n /\ n \in Nat
  BY Unrolled
<1>2. Qs(0, 9) \cup V7Many = V7Many
  BY V7Nested DEF V7Many
<1>3. /\ V7Many \cap (Qs(4, 7) \cup Rs(0, 12)) \subseteq Qs(0, 11) \cup Rs(0, 10)
      /\ V7Many \cap R(10) = {} /\ R(10) \subseteq Qs(0, 11) \cup Rs(0, 10)
  BY V7Nested, V7Apart DEF V7Many
<1> QED
  BY <1>1, <1>2, <1>3, V7Sound DEF V7ThroughputMem

LEMMA V7ThroughputMem10Sound ==
  ASSUME NEW cb, Calling(cb, 0..9, V7Many)
  PROVE  Sound(V7ThroughputMem(cb, 10))
BY V7ThroughputMemSound, 10 - 1 = 9

LEMMA V7ThroughputMemStart6Sound ==
  ASSUME NEW cb, Calling(cb, 6..15, V7All)
  PROVE  Sound(V7ThroughputMemStart6(cb))
<1>1. BodyWithin(UnrollStart6(10, cb), V7All) /\ DOMAIN UnrollStart6(10, cb) = 1..10
  BY UnrolledStart6, 10 + 5 = 15
<1>2. Qs(6, 15) \cup V7All = V7All
  BY V7Nested DEF V7All
<1>3. /\ V7All \cap (Qs(4, 7) \cup Rs(0, 12)) \subseteq Qs(0, 15) \cup Rs(0, 10)
      /\ V7All \cap R(10) = {} /\ R(10) \subseteq Qs(0, 15) \cup Rs(0, 10)
  BY V7Nested, V7Apart DEF V7All
<1> QED
  BY <1>1, <1>2, <1>3, V7Sound DEF V7ThroughputMemStart6

LEMMA V7LatencySound ==
  ASSUME NEW gp, Within(gp, Qs(0, 1))
  PROVE  Sound(V7Latency(gp))
<1>1. BodyWithin(Same(10, gp), Qs(0, 1)) /\ DOMAIN Same(10, gp) = 1..10
  BY Repeated
<1>2. Q(0) \cup Qs(0, 1) = Qs(0, 1)
  BY V7Nested
<1>3. /\ Qs(0, 1) \cap (Qs(4, 7) \cup Rs(0, 12)) \subseteq Q(0) \cup R(0)
      /\ Qs(0, 1) \cap R(0) = {} /\ R(0) \subseteq Q(0) \cup R(0)
  BY V7Nested, V7Apart
<1> QED
  BY <1>1, <1>2, <1>3, V7Sound DEF V7Latency

LEMMA V7LatencyMemSound ==
  ASSUME NEW gp, Within(gp, V7MemWrites)
  PROVE  Sound(V7LatencyMem(gp))
<1>1. BodyWithin(Same(10, gp), V7MemWrites) /\ DOMAIN Same(10, gp) = 1..10
  BY Repeated
<1>2. Q(0) \cup V7MemWrites = V7MemWrites
  BY V7Nested DEF V7MemWrites
<1>3. /\ V7MemWrites \cap (Qs(4, 7) \cup Rs(0, 12)) \subseteq Q(0) \cup Rs(0, 1)
      /\ V7MemWrites \cap R(0) = {} /\ R(0) \subseteq Q(0) \cup Rs(0, 1)
  BY V7Nested, V7Apart DEF V7MemWrites
<1> QED
  BY <1>1, <1>2, <1>3, V7Sound DEF V7LatencyMem

LEMMA V7ByHandSound ==
  ASSUME NEW body, NEW b \in {11, 13}, NEW per \in Nat, DOMAIN body = 1..per,
         BodyWithin(body, Qs(0, b))
  PROVE  Sound(V7ByHand(body, Qs(0, b), per))
<1>1. Qs(0, 9) \cup Qs(0, b) = Qs(0, b)
  BY V7Nested
<1>2. /\ Qs(0, b) \cap (Qs(4, 7) \cup Rs(0, 12)) \subseteq Qs(0, b) \cup Rs(0, 1)
      /\ Qs(0, b) \cap R(0) = {} /\ R(0) \subseteq Qs(0, b) \cup Rs(0, 1)
  BY V7Nested, V7Apart
<1> QED
  BY <1>1, <1>2, V7Sound DEF V7ByHand

\* The halves and the quarters of a block.
LEMMA V7Parts ==
  /\ \A i \in 0..9 : D(i) \subseteq Qs(0, 9) /\ Q(i) \subseteq Qs(0, 9)
  /\ \A i \in 0..15 : D(i) \subseteq Qs(0, 15) /\ Q(i) \subseteq Qs(0, 15)
  /\ \A i \in 0..23 : D(i) \subseteq Qs(0, 11)
  /\ \A i \in 0..11 : Q(i) \subseteq Qs(0, 11)
  /\ \A i \in 0..13 : Q(i) \subseteq Qs(0, 13)
  /\ D(3) \subseteq Qs(0, 13)
  /\ \A i \in 0..8 : R(i) \subseteq Rs(0, 8)
  /\ D(0) \subseteq Qs(0, 1) /\ D(1) \subseteq Qs(0, 1) /\ Q(0) \subseteq Qs(0, 1)
       /\ Q(1) \subseteq Qs(0, 1)
<1>1. \A i \in 0..31 : i \div 2 \in Int /\ (i = 2 * (i \div 2) \/ i = 2 * (i \div 2) + 1)
  OBVIOUS
<1>2. ASSUME NEW b \in 0..15, NEW i \in 0..31, i <= 2 * b + 1
      PROVE  D(i) \subseteq Qs(0, b)
  <2> DEFINE h == i \div 2
  <2>1. h \in Int /\ (i = 2 * h \/ i = 2 * h + 1)
    BY <1>1
  <2> HIDE DEF h
  <2>2. h \in 0..b
    BY <2>1, <1>2
  <2> QED
    BY <2>1, <2>2, QsHas
<1>3. ASSUME NEW b \in 0..15, NEW i \in 0..b
      PROVE  Q(i) \subseteq Qs(0, b)
  BY QsHas
<1>4. \A i \in 0..8 : R(i) \subseteq Rs(0, 8)
  BY Blocks, Single
<1>5. /\ \A i \in 0..9 : D(i) \subseteq Qs(0, 9) /\ Q(i) \subseteq Qs(0, 9)
      /\ \A i \in 0..15 : D(i) \subseteq Qs(0, 15) /\ Q(i) \subseteq Qs(0, 15)
  BY <1>2, <1>3
<1>6. /\ \A i \in 0..23 : D(i) \subseteq Qs(0, 11)
      /\ \A i \in 0..11 : Q(i) \subseteq Qs(0, 11)
      /\ \A i \in 0..13 : Q(i) \subseteq Qs(0, 13)
      /\ D(3) \subseteq Qs(0, 13)
  BY <1>2, <1>3
<1>7. D(0) \subseteq Qs(0, 1) /\ D(1) \subseteq Qs(0, 1) /\ Q(0) \subseteq Qs(0, 1)
        /\ Q(1) \subseteq Qs(0, 1)
  BY <1>2, <1>3
<1> QED
  BY <1>4, <1>5, <1>6, <1>7

\* Callbacks that work on the register of their number, and those that do not.
LEMMA V7Families ==
  /\ \A f \in {RmwD, RmwQ} : Writing(f, 0..9, Qs(0, 9))
  /\ \A f \in {LdrD, StrD, RmwD, LdrQ, RmwQ} : Writing(f, 0..9, V7Many)
  /\ Writing(RmwR, 0..8, V7Many)
  /\ Writing(AccOwn, 6..15, Qs(0, 15))
  /\ \A s : /\ Writing(AccQ(s), 6..15, Qs(0, 15))
            /\ Writing(MoveQ(s), 6..15, Qs(0, 15))
            /\ Writing(AccD(s), 6..15, Qs(0, 15))
  /\ \A s : Writing(AccQ(s), 6..15, V7All) /\ Writing(AccD(s), 6..15, V7All)
<1>1. \A f \in {RmwD, RmwQ} : Writing(f, 0..9, Qs(0, 9))
  BY V7Parts, Writes DEF Writing, RmwD, RmwQ, Reg
<1>2. \A i \in 0..9 : D(i) \subseteq V7Many /\ Q(i) \subseteq V7Many /\ Mem \subseteq V7Many
  BY V7Parts, V7Nested DEF V7Many
<1>3. \A f \in {LdrD, StrD, RmwD, LdrQ, RmwQ} : Writing(f, 0..9, V7Many)
  BY <1>2, Writes DEF Writing, LdrD, StrD, RmwD, LdrQ, RmwQ, Reg
<1>4. \A i \in 0..8 : R(i) \subseteq V7Many
  BY V7Parts DEF V7Many
<1>5. Writing(RmwR, 0..8, V7Many)
  BY <1>4, Writes DEF Writing, RmwR, Reg
<1>6. Writing(AccOwn, 6..15, Qs(0, 15))
  BY V7Parts, Writes DEF Writing, AccOwn, Reg
<1>7. ASSUME NEW s
      PROVE  /\ Writing(AccQ(s), 6..15, Qs(0, 15))
             /\ Writing(MoveQ(s), 6..15, Qs(0, 15))
             /\ Writing(AccD(s), 6..15, Qs(0, 15))
  BY V7Parts, Writes DEF Writing, AccQ, MoveQ, AccD, Reg
<1>8. \A f : Writing(f, 6..15, Qs(0, 15)) => Writing(f, 6..15, V7All)
  BY DEF Writing, V7All
<1> QED
  BY <1>1, <1>3, <1>5, <1>6, <1>7, <1>8

LEMMA V7Fixes ==
  \A x : /\ x.dst \subseteq Qs(0, 9) => Writing(Fixed(x), 0..9, Qs(0, 9))
         /\ x.dst \subseteq V7Many => Writing(Fixed(x), 0..9, V7Many)
         /\ x.dst \subseteq V7All => Writing(Fixed(x), 6..15, V7All)
BY Fixes DEF Reg

\* Registers within what the macros let a body write.
LEMMA V7Places ==
  /\ {} \subseteq Qs(0, 9) /\ {} \subseteq Qs(0, 1) /\ {} \subseteq V7MemWrites
  /\ D(22) \subseteq V7Many /\ D(10) \subseteq V7Many /\ Q(1) \subseteq V7All
  /\ D(0) \subseteq Qs(0, 1) /\ D(1) \subseteq Qs(0, 1) /\ Q(0) \subseteq Qs(0, 1)
       /\ Q(1) \subseteq Qs(0, 1)
  /\ D(0) \subseteq V7MemWrites /\ Q(0) \subseteq V7MemWrites /\ Q(1) \subseteq V7MemWrites
  /\ R(1) \subseteq V7MemWrites /\ Mem \subseteq V7MemWrites
BY V7Parts DEF V7MemWrites, V7Many, V7All

\* Tables of armv7.h.
LEMMA V7SingleSound == TableSound(V7Single)
<1>1. Sounds(V7Single.nop)
  <2>1. Calling(<<Fixed(Nop)>>, 0..9, Qs(0, 9))
    BY Callbacks, Writes, V7Families, V7Fixes, V7Places
  <2>2. Sound(V7Throughput(<<Fixed(Nop)>>))
    BY <2>1, V7ThroughputSound
  <2>3. Within(<<Nop>>, Qs(0, 1))
    BY Groups, Writes, V7Places
  <2>4. Sound(V7Latency(<<Nop>>))
    BY <2>3, V7LatencySound
  <2> QED
    BY <2>2, <2>4, BothSound DEF V7Single
<1>2. Sounds(V7Single.eor_d)
  <2>1. Calling(<<RmwD>>, 0..9, Qs(0, 9))
    BY Callbacks, Writes, V7Families, V7Fixes, V7Places
  <2>2. Sound(V7Throughput(<<RmwD>>))
    BY <2>1, V7ThroughputSound
  <2>3. Within(<<Rmw(D(0))>>, Qs(0, 1))
    BY Groups, Writes, V7Places
  <2>4. Sound(V7Latency(<<Rmw(D(0))>>))
    BY <2>3, V7LatencySound
  <2> QED
    BY <2>2, <2>4, BothSound DEF V7Single
<1>3. Sounds(V7Single.eor_q)
  <2>1. Calling(<<RmwQ>>, 0..9, Qs(0, 9))
    BY Callbacks, Writes, V7Families, V7Fixes, V7Places
  <2>2. Sound(V7Throughput(<<RmwQ>>))
    BY <2>1, V7ThroughputSound
  <2>3. Within(<<Rmw(Q(0))>>, Qs(0, 1))
    BY Groups, Writes, V7Places
  <2>4. Sound(V7Latency(<<Rmw(Q(0))>>))
    BY <2>3, V7LatencySound
  <2> QED
    BY <2>2, <2>4, BothSound DEF V7Single
<1>4. Sounds(V7Single.add_reg)
  <2>1. Calling(<<RmwR>>, 0..8, V7Many)
    BY Callbacks, V7Families
  <2>2. Sound(V7ThroughputMem(<<RmwR>>, 9))
    BY <2>1, V7ThroughputMemSound, 9 - 1 = 8
  <2>3. Within(<<Rmw(R(1))>>, V7MemWrites)
    BY Groups, Writes, V7Places
  <2>4. Sound(V7LatencyMem(<<Rmw(R(1))>>))
    BY <2>3, V7LatencyMemSound
  <2> QED
    BY <2>2, <2>4, BothSound DEF V7Single
<1>5. Sounds(V7Single.ld1_d)
  <2>1. Calling(<<LdrD>>, 0..9, V7Many)
    BY Callbacks, Writes, V7Families, V7Fixes, V7Places
  <2>2. Sound(V7ThroughputMem(<<LdrD>>, 10))
    BY <2>1, V7ThroughputMem10Sound
  <2>3. Within(<<Ldr(D(0))>>, V7MemWrites)
    BY Groups, Writes, V7Places
  <2>4. Sound(V7LatencyMem(<<Ldr(D(0))>>))
    BY <2>3, V7LatencyMemSound
  <2> QED
    BY <2>2, <2>4, BothSound DEF V7Single
<1>6. Sounds(V7Single.vld1d_x2)
  <2> DEFINE body == [k \in 1..10 |-> <<Ldr(Q(k - 1))>>]
  <2>1. ASSUME NEW k \in 1..10 PROVE Within(body[k], Qs(0, 11))
    <3>1. k - 1 \in 0..11
      OBVIOUS
    <3>2. Ldr(Q(k - 1)).dst \subseteq Qs(0, 11)
      BY <3>1, Writes, V7Parts
    <3>3. Within(<<Ldr(Q(k - 1))>>, Qs(0, 11))
      BY <3>2, Groups
    <3> QED
      BY <3>3
  <2>2. DOMAIN body = 1..10 /\ BodyWithin(body, Qs(0, 11))
    BY <2>1 DEF BodyWithin
  <2>3. Sound(V7ByHand(body, Qs(0, 11), 10))
    BY <2>2, V7ByHandSound
  <2>4. Within(<<Ldr(Q(0))>>, V7MemWrites)
    BY Groups, Writes, V7Places
  <2>5. Sound(V7LatencyMem(<<Ldr(Q(0))>>))
    BY <2>4, V7LatencyMemSound
  <2> QED
    BY <2>3, <2>5, BothSound DEF V7Single
<1>7. Sounds(V7Single.st1_d)
  <2>1. Calling(<<StrD>>, 0..9, V7Many)
    BY Callbacks, Writes, V7Families, V7Fixes, V7Places
  <2>2. Sound(V7ThroughputMem(<<StrD>>, 10))
    BY <2>1, V7ThroughputMem10Sound
  <2>3. Within(<<Str(D(0))>>, V7MemWrites)
    BY Groups, Writes, V7Places
  <2>4. Sound(V7LatencyMem(<<Str(D(0))>>))
    BY <2>3, V7LatencyMemSound
  <2> QED
    BY <2>2, <2>4, BothSound DEF V7Single
<1>8. Sounds(V7Single.ldst1_d)
  <2>1. Calling(<<LdrD, StrD>>, 0..9, V7Many)
    BY Callbacks, Writes, V7Families, V7Fixes, V7Places
  <2>2. Sound(V7ThroughputMem(<<LdrD, StrD>>, 10))
    BY <2>1, V7ThroughputMem10Sound
  <2>3. Within(<<Ldr(D(0)), Str(D(0))>>, V7MemWrites)
    BY Groups, Writes, V7Places
  <2>4. Sound(V7LatencyMem(<<Ldr(D(0)), Str(D(0))>>))
    BY <2>3, V7LatencyMemSound
  <2> QED
    BY <2>2, <2>4, BothSound DEF V7Single
<1>9. Sounds(V7Single.ld1_q)
  <2>1. Calling(<<LdrQ>>, 0..9, V7Many)
    BY Callbacks, Writes, V7Families, V7Fixes, V7Places
  <2>2. Sound(V7ThroughputMem(<<LdrQ>>, 10))
    BY <2>1, V7ThroughputMem10Sound
  <2>3. Within(<<Ldr(Q(0))>>, V7MemWrites)
    BY Groups, Writes, V7Places
  <2>4. Sound(V7LatencyMem(<<Ldr(Q(0))>>))
    BY <2>3, V7LatencyMemSound
  <2> QED
    BY <2>2, <2>4, BothSound DEF V7Single
<1> QED
  BY <1>1, <1>2, <1>3, <1>4, <1>5, <1>6, <1>7, <1>8, <1>9 DEF V7Single, TableSound

LEMMA V7LaneSound == TableSound(V7Lane)
<1>1. Sounds(V7Lane.mlal_s8)
  <2>1. Calling(<<AccQ(D(0))>>, 6..15, Qs(0, 15))
    BY Callbacks, Writes, V7Families, V7Fixes, V7Places
  <2>2. Sound(V7ThroughputStart6(<<AccQ(D(0))>>))
    BY <2>1, V7ThroughputStart6Sound
  <2>3. Within(<<Acc(Q(1), D(0))>>, Qs(0, 1))
    BY Groups, Writes, V7Places
  <2>4. Sound(V7Latency(<<Acc(Q(1), D(0))>>))
    BY <2>3, V7LatencySound
  <2> QED
    BY <2>2, <2>4, BothSound DEF V7Lane
<1>2. Sounds(V7Lane.vmovl_s8)
  <2>1. Calling(<<MoveQ(D(0))>>, 6..15, Qs(0, 15))
    BY Callbacks, Writes, V7Families, V7Fixes, V7Places
  <2>2. Sound(V7ThroughputStart6(<<MoveQ(D(0))>>))
    BY <2>1, V7ThroughputStart6Sound
  <2>3. Within(<<Move(Q(0), D(0))>>, Qs(0, 1))
    BY Groups, Writes, V7Places
  <2>4. Sound(V7Latency(<<Move(Q(0), D(0))>>))
    BY <2>3, V7LatencySound
  <2> QED
    BY <2>2, <2>4, BothSound DEF V7Lane
<1>3. Sounds(V7Lane.mla_s16_lane)
  <2>1. Calling(<<AccQ(Q(1) \cup D(0))>>, 6..15, Qs(0, 15))
    BY Callbacks, Writes, V7Families, V7Fixes, V7Places
  <2>2. Sound(V7ThroughputStart6(<<AccQ(Q(1) \cup D(0))>>))
    BY <2>1, V7ThroughputStart6Sound
  <2>3. Within(<<Acc(Q(1), Q(0))>>, Qs(0, 1))
    BY Groups, Writes, V7Places
  <2>4. Sound(V7Latency(<<Acc(Q(1), Q(0))>>))
    BY <2>3, V7LatencySound
  <2> QED
    BY <2>2, <2>4, BothSound DEF V7Lane
<1>4. Sounds(V7Lane.mla_s16_lane_d)
  <2>1. Calling(<<AccD(Q(0))>>, 6..15, Qs(0, 15))
    BY Callbacks, Writes, V7Families, V7Fixes, V7Places
  <2>2. Sound(V7ThroughputStart6(<<AccD(Q(0))>>))
    BY <2>1, V7ThroughputStart6Sound
  <2>3. Within(<<Acc(D(1), D(0))>>, Qs(0, 1))
    BY Groups, Writes, V7Places
  <2>4. Sound(V7Latency(<<Acc(D(1), D(0))>>))
    BY <2>3, V7LatencySound
  <2> QED
    BY <2>2, <2>4, BothSound DEF V7Lane
<1> QED
  BY <1>1, <1>2, <1>3, <1>4 DEF V7Lane, TableSound

LEMMA V7LdMlaSound == TableSound(V7LdMla)
<1>1. Sounds(V7LdMla.ldrd_mla_s16_lane)
  <2> DEFINE body == [k \in 1..10 |-> <<Ldr(D(3)), Acc(Q(k + 1), Q(0))>>]
  <2>1. ASSUME NEW k \in 1..10 PROVE Within(body[k], Qs(0, 11))
    <3>1. k + 1 \in 0..11
      OBVIOUS
    <3>2. Ldr(D(3)).dst \subseteq Qs(0, 11) /\ Acc(Q(k + 1), Q(0)).dst \subseteq Qs(0, 11)
      BY <3>1, Writes, V7Parts
    <3>3. Within(<<Ldr(D(3)), Acc(Q(k + 1), Q(0))>>, Qs(0, 11))
      BY <3>2, Groups
    <3> QED
      BY <3>3
  <2>2. DOMAIN body = 1..10 /\ BodyWithin(body, Qs(0, 11))
    BY <2>1 DEF BodyWithin
  <2>3. Sound(V7ByHand(body, Qs(0, 11), 10))
    BY <2>2, V7ByHandSound
  <2>4. Within(<<Ldr(D(0)), Acc(Q(1), Q(0))>>, V7MemWrites)
    BY Groups, Writes, V7Places
  <2>5. Sound(V7LatencyMem(<<Ldr(D(0)), Acc(Q(1), Q(0))>>))
    BY <2>4, V7LatencyMemSound
  <2> QED
    BY <2>3, <2>5, BothSound DEF V7LdMla
<1>2. Sounds(V7LdMla.ldrd_mla_s16_lane_1_4)
  <2> DEFINE body == [k \in 1..12 |->
       LET m == Acc(Q(k + 1), Q(0)) IN IF k % 4 = 1 THEN <<Ldr(D(3)), m>> ELSE <<m>>]
  <2>1. ASSUME NEW k \in 1..12 PROVE Within(body[k], Qs(0, 13))
    <3>1. k + 1 \in 0..13
      OBVIOUS
    <3>2. Ldr(D(3)).dst \subseteq Qs(0, 13) /\ Acc(Q(k + 1), Q(0)).dst \subseteq Qs(0, 13)
      BY <3>1, Writes, V7Parts
    <3>3. Within(<<Ldr(D(3)), Acc(Q(k + 1), Q(0))>>, Qs(0, 13))
            /\ Within(<<Acc(Q(k + 1), Q(0))>>, Qs(0, 13))
      BY <3>2, Groups
    <3>4. body[k] = <<Ldr(D(3)), Acc(Q(k + 1), Q(0))>> \/ body[k] = <<Acc(Q(k + 1), Q(0))>>
      BY Zenon
    <3> QED
      BY <3>3, <3>4
  <2>2. DOMAIN body = 1..12 /\ BodyWithin(body, Qs(0, 13))
    BY <2>1 DEF BodyWithin
  <2>3. Sound(V7ByHand(body, Qs(0, 13), 12))
    BY <2>2, V7ByHandSound
  <2>4. Within(<<Ldr(D(0)), Acc(Q(1), Q(0))>>, V7MemWrites)
    BY Groups, Writes, V7Places
  <2>5. Sound(V7LatencyMem(<<Ldr(D(0)), Acc(Q(1), Q(0))>>))
    BY <2>4, V7LatencyMemSound
  <2> QED
    BY <2>3, <2>5, BothSound DEF V7LdMla
<1> QED
  BY <1>1, <1>2 DEF V7LdMla, TableSound

LEMMA V7PairsSound == TableSound(V7Pairs)
<1>1. Sounds(V7Pairs.mlal_s16_lane)
  <2>1. Calling(<<AccOwn>>, 6..15, Qs(0, 15))
    BY Callbacks, Writes, V7Families, V7Fixes, V7Places
  <2>2. Sound(V7ThroughputStart6(<<AccOwn>>))
    BY <2>1, V7ThroughputStart6Sound
  <2>3. Within(<<Acc(Q(1), D(0))>>, Qs(0, 1))
    BY Groups, Writes, V7Places
  <2>4. Sound(V7Latency(<<Acc(Q(1), D(0))>>))
    BY <2>3, V7LatencySound
  <2> QED
    BY <2>2, <2>4, BothSound DEF V7Pairs
<1>2. Sounds(V7Pairs.ld1d_fmlad)
  <2>1. Calling(<<Fixed(Ldr(D(22))), RmwD>>, 0..9, V7Many)
    BY Callbacks, Writes, V7Families, V7Fixes, V7Places
  <2>2. Sound(V7ThroughputMem(<<Fixed(Ldr(D(22))), RmwD>>, 10))
    BY <2>1, V7ThroughputMem10Sound
  <2>3. Within(<<Ldr(D(0)), Rmw(D(0))>>, V7MemWrites)
    BY Groups, Writes, V7Places
  <2>4. Sound(V7LatencyMem(<<Ldr(D(0)), Rmw(D(0))>>))
    BY <2>3, V7LatencyMemSound
  <2> QED
    BY <2>2, <2>4, BothSound DEF V7Pairs
<1>3. Sounds(V7Pairs.ld1d_fmlaq)
  <2>1. Calling(<<Fixed(Ldr(D(22))), RmwQ>>, 0..9, V7Many)
    BY Callbacks, Writes, V7Families, V7Fixes, V7Places
  <2>2. Sound(V7ThroughputMem(<<Fixed(Ldr(D(22))), RmwQ>>, 10))
    BY <2>1, V7ThroughputMem10Sound
  <2>3. Within(<<Ldr(D(0)), Rmw(Q(0))>>, V7MemWrites)
    BY Groups, Writes, V7Places
  <2>4. Sound(V7LatencyMem(<<Ldr(D(0)), Rmw(Q(0))>>))
    BY <2>3, V7LatencyMemSound
  <2> QED
    BY <2>2, <2>4, BothSound DEF V7Pairs
<1>4. Sounds(V7Pairs.ld1dx2_fmlaq_lane)
  <2>1. Calling(<<Fixed(Ldr(Q(1))), AccQ(D(0))>>, 6..15, V7All)
    BY Callbacks, Writes, V7Families, V7Fixes, V7Places
  <2>2. Sound(V7ThroughputMemStart6(<<Fixed(Ldr(Q(1))), AccQ(D(0))>>))
    BY <2>1, V7ThroughputMemStart6Sound
  <2>3. Within(<<Ldr(Q(0)), Rmw(Q(0))>>, V7MemWrites)
    BY Groups, Writes, V7Places
  <2>4. Sound(V7LatencyMem(<<Ldr(Q(0)), Rmw(Q(0))>>))
    BY <2>3, V7LatencyMemSound
  <2> QED
    BY <2>2, <2>4, BothSound DEF V7Pairs
<1>5. Sounds(V7Pairs.ld1dx2_fmlad_lane)
  <2>1. Calling(<<Fixed(Ldr(Q(1))), AccD(D(0))>>, 6..15, V7All)
    BY Callbacks, Writes, V7Families, V7Fixes, V7Places
  <2>2. Sound(V7ThroughputMemStart6(<<Fixed(Ldr(Q(1))), AccD(D(0))>>))
    BY <2>1, V7ThroughputMemStart6Sound
  <2>3. Within(<<Ldr(Q(0)), Rmw(D(0))>>, V7MemWrites)
    BY Groups, Writes, V7Places
  <2>4. Sound(V7LatencyMem(<<Ldr(Q(0)), Rmw(D(0))>>))
    BY <2>3, V7LatencyMemSound
  <2> QED
    BY <2>2, <2>4, BothSound DEF V7Pairs
<1>6. Sounds(V7Pairs.ld1d_mlad_s16)
  <2>1. Calling(<<Fixed(Ldr(D(10))), RmwD>>, 0..9, V7Many)
    BY Callbacks, Writes, V7Families, V7Fixes, V7Places
  <2>2. Sound(V7ThroughputMem(<<Fixed(Ldr(D(10))), RmwD>>, 10))
    BY <2>1, V7ThroughputMem10Sound
  <2>3. Within(<<Ldr(D(0)), Rmw(D(0))>>, V7MemWrites)
    BY Groups, Writes, V7Places
  <2>4. Sound(V7LatencyMem(<<Ldr(D(0)), Rmw(D(0))>>))
    BY <2>3, V7LatencyMemSound
  <2> QED
    BY <2>2, <2>4, BothSound DEF V7Pairs
<1>7. Sounds(V7Pairs.mla_f32q_lane)
  <2>1. Calling(<<AccQ(D(0))>>, 6..15, Qs(0, 15))
    BY Callbacks, Writes, V7Families, V7Fixes, V7Places
  <2>2. Sound(V7ThroughputStart6(<<AccQ(D(0))>>))
    BY <2>1, V7ThroughputStart6Sound
  <2>3. Within(<<Rmw(Q(0))>>, Qs(0, 1))
    BY Groups, Writes, V7Places
  <2>4. Sound(V7Latency(<<Rmw(Q(0))>>))
    BY <2>3, V7LatencySound
  <2> QED
    BY <2>2, <2>4, BothSound DEF V7Pairs
<1>8. Sounds(V7Pairs.mla_f32d_lane)
  <2>1. Calling(<<AccD(D(0))>>, 6..15, Qs(0, 15))
    BY Callbacks, Writes, V7Families, V7Fixes, V7Places
  <2>2. Sound(V7ThroughputStart6(<<AccD(D(0))>>))
    BY <2>1, V7ThroughputStart6Sound
  <2>3. Within(<<Rmw(D(0))>>, Qs(0, 1))
    BY Groups, Writes, V7Places
  <2>4. Sound(V7Latency(<<Rmw(D(0))>>))
    BY <2>3, V7LatencySound
  <2> QED
    BY <2>2, <2>4, BothSound DEF V7Pairs
<1> QED
  BY <1>1, <1>2, <1>3, <1>4, <1>5, <1>6, <1>7, <1>8 DEF V7Pairs, TableSound

------------------------------------------------------------------------------
\* LoongArch, whose loops destroy nothing they would have to name.
LAWrites == Vs(0, 19) \cup Mem

LEMMA LASound ==
  ASSUME NEW n \in 1..20, NEW cb, NEW m \in 0..19, NEW loops, NEW memory,
         Calling(cb, 0..(n - 1), LAWrites)
  PROVE  Sound(LA(n, cb, Vs(0, m), loops, memory))
<1> DEFINE b == LA(n, cb, Vs(0, m), loops, memory)
<1>1. BodyWithin(Unroll(n, cb), LAWrites) /\ DOMAIN Unroll(n, cb) = 1..n /\ n \in Nat
  BY Unrolled
<1>2. /\ b.body = Unroll(n, cb) /\ b.counter = {} /\ b.zeroed = Vs(0, m)
      /\ b.clobbers = {} /\ b.per = n /\ b.pool = {R(4), R(5), R(23)}
      /\ b.saved = Vs(24, 31) \cup Rs(22, 31)
  BY DEF LA
<1> HIDE DEF b
<1>3. Vs(0, m) \subseteq Vs(0, 19)
  BY Blocks
<1>4. Vs(0, m) \cup LAWrites = Vs(0, 19) \cup Mem
  BY <1>3 DEF LAWrites
<1>5. Vs(0, 19) \cap Vs(24, 31) = {} /\ Vs(0, 19) \cap Rs(22, 31) = {}
  BY Blocks
<1>6. Mem \cap Vs(24, 31) = {} /\ Mem \cap Rs(22, 31) = {}
  BY Blocks, Single
<1>7. \A i \in Int : Vs(0, 19) \cap R(i) = {} /\ Mem \cap R(i) = {}
  BY Blocks, Single
<1>8. (Vs(0, 19) \cup Mem) \cap UNION {R(4), R(5), R(23)} = {}
  BY <1>7
<1>9. (Vs(0, m) \cup LAWrites) \cap ((UNION b.pool) \cup b.saved) \subseteq b.clobbers
  BY <1>2, <1>4, <1>5, <1>6, <1>8
<1>10. BodyWithin(b.body, LAWrites) /\ b.counter \subseteq b.clobbers
       /\ (Vs(0, m) \cup LAWrites) \cap b.counter = {}
  BY <1>1, <1>2
<1>11. NamesWhatItWrites(b)
  BY <1>2, <1>9, <1>10, WithinNamed
<1> QED
  BY <1>1, <1>2, <1>11 DEF Sound, b

LEMMA LANumbers == 20 \in 1..20 /\ 10 \in 1..20 /\ 19 \in 0..19 /\ 9 \in 0..19 /\ 0 \in 0..19
OBVIOUS

LEMMA LAFamilies ==
  /\ Writing(LdrV, 0..19, LAWrites) /\ Writing(StrV, 0..19, LAWrites)
  /\ Writing(Fixed(Ldr(V(0))), 0..19, LAWrites) /\ Writing(Fixed(Str(V(0))), 0..19, LAWrites)
  /\ Writing(RmwV, 0..9, LAWrites) /\ Writing(Fixed(Rmw(V(0))), 0..9, LAWrites)
<1>1. \A i \in 0..19 : V(i) \subseteq LAWrites
  BY Blocks, Single DEF LAWrites
<1>2. Mem \subseteq LAWrites
  BY DEF LAWrites
<1>3. Writing(LdrV, 0..19, LAWrites) /\ Writing(StrV, 0..19, LAWrites)
        /\ Writing(RmwV, 0..9, LAWrites)
  BY <1>1, <1>2, Writes DEF Writing, LdrV, StrV, RmwV, Reg
<1>4. \A x : x.dst \subseteq LAWrites =>
        Writing(Fixed(x), 0..19, LAWrites) /\ Writing(Fixed(x), 0..9, LAWrites)
  BY Fixes DEF Reg
<1> QED
  BY <1>1, <1>2, <1>3, <1>4, Writes

LEMMA FirstRegister == V(0) = Vs(0, 0)
BY Blocks, Single

\* Tables of loongarch.h.
LEMMA LAMemorySound == TableSound(LAMemory)
<1>1. Sounds(LAMemory.xvld)
  <2>1. Calling(<<LdrV>>, 0..(20 - 1), LAWrites)
          /\ Calling(<<Fixed(Ldr(V(0)))>>, 0..(20 - 1), LAWrites)
    BY Callbacks, LAFamilies, 20 - 1 = 19, 10 - 1 = 9
  <2>2. Sound(LA(20, <<LdrV>>, Vs(0, 19), RUNS, TRUE))
    BY <2>1, LASound, LANumbers
  <2>3. Sound(LA(20, <<Fixed(Ldr(V(0)))>>, V(0), RUNS, TRUE))
    BY <2>1, LASound, LANumbers, FirstRegister
  <2> QED
    BY <2>2, <2>3, BothSound DEF LAMemory
<1>2. Sounds(LAMemory.xvst)
  <2>1. Calling(<<StrV>>, 0..(20 - 1), LAWrites)
          /\ Calling(<<Fixed(Str(V(0)))>>, 0..(20 - 1), LAWrites)
    BY Callbacks, LAFamilies, 20 - 1 = 19, 10 - 1 = 9
  <2>2. Sound(LA(20, <<StrV>>, Vs(0, 19), RUNS, TRUE))
    BY <2>1, LASound, LANumbers
  <2>3. Sound(LA(20, <<Fixed(Str(V(0)))>>, V(0), RUNS, TRUE))
    BY <2>1, LASound, LANumbers, FirstRegister
  <2> QED
    BY <2>2, <2>3, BothSound DEF LAMemory
<1> QED
  BY <1>1, <1>2 DEF LAMemory, TableSound

LEMMA LAFloatSound == TableSound(LAFloat)
<1>1. Sounds(LAFloat.xvfadd_s)
  <2>1. Calling(<<RmwV>>, 0..(10 - 1), LAWrites)
          /\ Calling(<<Fixed(Rmw(V(0)))>>, 0..(10 - 1), LAWrites)
    BY Callbacks, LAFamilies, 20 - 1 = 19, 10 - 1 = 9
  <2>2. Sound(LA(10, <<RmwV>>, Vs(0, 9), RUNS * SCALE, FALSE))
    BY <2>1, LASound, LANumbers
  <2>3. Sound(LA(10, <<Fixed(Rmw(V(0)))>>, V(0), RUNS * SCALE, FALSE))
    BY <2>1, LASound, LANumbers, FirstRegister
  <2> QED
    BY <2>2, <2>3, BothSound DEF LAFloat
<1> QED
  BY <1>1 DEF LAFloat, TableSound

LEMMA LAUnarySound == TableSound(LAUnary)
<1>1. Sounds(LAUnary.xvfsqrt_s)
  BY LAFloatSound DEF LAUnary, LAFloat, TableSound
<1> QED
  BY <1>1 DEF LAUnary, TableSound

\* x86: the bodies write only what the macro zeroes and names.
LEMMA X86Sound ==
  ASSUME NEW cb, NEW S, Calling(cb, 0..9, S),
    S \cap (R(0) \cup R(2) \cup R(3) \cup R(5) \cup Rs(12, 15)) = {}
  PROVE  Sound(X86(cb, S))
<1> DEFINE b == X86(cb, S)
<1>1. BodyWithin(Unroll(10, cb), S) /\ DOMAIN Unroll(10, cb) = 1..10
  BY Unrolled, 10 - 1 = 9
<1>2. /\ b.body = Unroll(10, cb) /\ b.counter = R(0) /\ b.zeroed = S
      /\ b.clobbers = S \cup R(0) /\ b.per = 10
  BY DEF X86
<1> HIDE DEF b
<1>3. NamesWhatItWrites(b)
  BY <1>1, <1>2, WithinNamed
<1> QED
  BY <1>1, <1>2, <1>3 DEF Sound, b

LEMMA AvxSseSound == TableSound(AvxSse)
<1>1. Vs(0, 9) \cap (R(0) \cup R(2) \cup R(3) \cup R(5) \cup Rs(12, 15)) = {}
  BY Blocks, Single
<1>2. V(0) \cap (R(0) \cup R(2) \cup R(3) \cup R(5) \cup Rs(12, 15)) = {}
  BY Blocks, Single
<1>3. Writing(RmwV, 0..9, Vs(0, 9))
  <2>1. \A i \in 0..9 : V(i) \subseteq Vs(0, 9)
    BY Blocks, Single
  <2> QED
    BY <2>1, Writes DEF Writing, RmwV, Reg
<1>4. Writing(Fixed(Rmw(V(0))), 0..9, V(0))
  BY Fixes, Writes DEF Reg
<1>5. Sounds(AvxSse.vfmadd132ps)
  <2>1. Calling(<<RmwV>>, 0..9, Vs(0, 9)) /\ Calling(<<Fixed(Rmw(V(0)))>>, 0..9, V(0))
    BY <1>3, <1>4, Callbacks
  <2>2. Sound(X86(<<RmwV>>, Vs(0, 9))) /\ Sound(X86(<<Fixed(Rmw(V(0)))>>, V(0)))
    BY <1>1, <1>2, <2>1, X86Sound
  <2> QED
    BY <2>2, BothSound DEF AvxSse
<1>6. Sounds(AvxSse.vpmaddwd_vpaddd)
  <2>1. /\ Calling(<<RmwV, RmwV>>, 0..9, Vs(0, 9))
        /\ Calling(<<Fixed(Rmw(V(0))), Fixed(Rmw(V(0)))>>, 0..9, V(0))
    BY <1>3, <1>4, Callbacks
  <2>2. /\ Sound(X86(<<RmwV, RmwV>>, Vs(0, 9)))
        /\ Sound(X86(<<Fixed(Rmw(V(0))), Fixed(Rmw(V(0)))>>, V(0)))
    BY <1>1, <1>2, <2>1, X86Sound
  <2> QED
    BY <2>2, BothSound DEF AvxSse
<1> QED
  BY <1>5, <1>6 DEF AvxSse, TableSound

------------------------------------------------------------------------------
\* prefetch_very_long, whose constant is not the length of its body.
LEMMA PrefetchNamed ==
  /\ NamesWhatItWrites(A64Prefetch.prefetch_very_long.throughput)
  /\ A64Prefetch.prefetch_very_long.throughput.per \in Nat
  /\ Sound(A64Prefetch.prefetch_very_long.latency)
<1> DEFINE body == [k \in 1..11 |-> <<Nop>>]
<1>1. ASSUME NEW k \in 1..11 PROVE Within(body[k], HandWrites(Xs(0, 19)))
  BY Groups, Writes
<1>2. BodyWithin(body, HandWrites(Xs(0, 19)))
  BY <1>1 DEF BodyWithin
<1>3. NamesWhatItWrites(ByHand(body, X(20), Xs(0, 19), 16))
  BY <1>2, ByHandNamed, HandCounters
<1>4. Within(<<Nop>>, LatencyWrites)
  BY Groups, Writes
<1>5. Sound(LATENCY_MEM(<<Nop>>))
  BY <1>4, LatencyMemSound
<1>6. A64Prefetch.prefetch_very_long =
        [throughput |-> ByHand(body, X(20), Xs(0, 19), 16), latency |-> LATENCY_MEM(<<Nop>>)]
  BY DEF A64Prefetch, Both
<1> QED
  BY <1>3, <1>5, <1>6 DEF ByHand, A64

\* The identity of a benchmark changes nothing about its loop.
LEMMA KnownNamed ==
  ASSUME NEW id, NEW b
  PROVE  /\ NamesWhatItWrites(Known(id, b)) <=> NamesWhatItWrites(b)
         /\ Known(id, b).per = b.per /\ Known(id, b).body = b.body /\ Known(id, b).id = id
BY DEF Known, NamesWhatItWrites, Written, InstrsOf

\* All tables but that one.
LEMMA TablesSound ==
  \A a \in DOMAIN Tables : \A T \in Tables[a] :
    TableSound(T) \/ (a = "aarch64" /\ T = A64Prefetch)
<1>1. \A T \in Tables.aarch64 : TableSound(T) \/ T = A64Prefetch
  BY A64SingleSound, A64FloatSound, A64IntegerSound, LdPairsSound,
     SepPairsSound, LdxPairSound, SmlalPairsSound, LdrPairsSound,
     InsLdrSound, LdFmlaSound, LdFmlaLaneSound, SmlalSound,
     OneToFourSound, SshllInsSound, LdqInsToFourSound, OneToThreeSound,
     LdqToThreeAndTwoSound, LddLdxInsSound, SmullSmlalSound DEF Tables
<1>2. \A T \in Tables.armv7 : TableSound(T)
  BY V7SingleSound, V7LaneSound, V7LdMlaSound, V7PairsSound DEF Tables
<1>3. \A T \in Tables.loongarch : TableSound(T)
  BY LAMemorySound, LAFloatSound, LAUnarySound DEF Tables
<1>4. \A T \in Tables.x86 : TableSound(T)
  BY AvxSseSound DEF Tables
<1>5. DOMAIN Tables = {"aarch64", "armv7", "loongarch", "x86"}
  BY DEF Tables
<1> QED
  BY <1>1, <1>2, <1>3, <1>4, <1>5

\* Every benchmark is sound, or it is the throughput loop of
\* prefetch_very_long, which names what it writes all the same.
LEMMA CpuBenchSound ==
  ASSUME NEW b \in CpuBench
  PROVE  /\ NamesWhatItWrites(b)
         /\ \/ b.per \in Nat /\ DOMAIN b.body = 1..b.per
            \/ b.id = <<"aarch64", "prefetch_very_long", "throughput">>
<1>1. PICK a \in DOMAIN Tables : b \in OfFamily(a)
  BY DEF CpuBench
<1>2. PICK T \in Tables[a] : b \in OfTable(a, T)
  BY <1>1 DEF OfFamily
<1>3. PICK n \in DOMAIN T, k \in Kinds : b = Known(<<a, n, k>>, T[n][k])
  BY <1>2 DEF OfTable
<1>4. CASE TableSound(T)
  <2>1. Sound(T[n][k])
    BY <1>4 DEF TableSound, Sounds
  <2> QED
    BY <1>3, <2>1, KnownNamed DEF Sound
<1>5. CASE a = "aarch64" /\ T = A64Prefetch
  <2>1. n = "prefetch_very_long"
    BY <1>5 DEF A64Prefetch
  <2>2. CASE k = "throughput"
    <3>1. T[n][k] = A64Prefetch.prefetch_very_long.throughput
      BY <1>5, <2>1, <2>2
    <3> QED
      BY <1>3, <1>5, <2>1, <2>2, <3>1, KnownNamed, PrefetchNamed
  <2>3. CASE k = "latency"
    <3>1. T[n][k] = A64Prefetch.prefetch_very_long.latency
      BY <1>5, <2>1, <2>3
    <3> QED
      BY <1>3, <3>1, KnownNamed, PrefetchNamed DEF Sound
  <2> QED
    BY <2>2, <2>3 DEF Kinds
<1> QED
  BY <1>4, <1>5, TablesSound

\* Every benchmark of the four processor families names as clobbered what it
\* writes of the registers that its operands may get or its caller wants back,
\* and no body writes its counter: for any RUNS and SCALE.
THEOREM CpuBenchNamed == \A b \in CpuBench : NamesWhatItWrites(b)
BY CpuBenchSound

\* So whichever of them runs, with whatever operand registers the compiler
\* chooses, it executes its body as often as it was asked to, keeps its
\* caller's registers and its inputs, and returns the operations it executed,
\* prefetch_very_long excepted.
THEOREM CpuLoopsRight ==
  ASSUME Bench \subseteq CpuBench
  PROVE  Spec => [](/\ RunsExactly
                    /\ CallerRegistersKept
                    /\ InputOperandsKept
                    /\ CountsOperationsBut)
<1>1. \A b \in Bench : NamesWhatItWrites(b)
  BY CpuBenchNamed
<1>2. Spec => []RunsExactly
  BY <1>1, ExecutesAsAsked
<1>3. Spec => []CallerRegistersKept
  BY <1>1, KeepsCallerRegisters
<1>4. Spec => []InputOperandsKept
  BY <1>1, InputsKept
<1>5. Spec => []LoopInv
  BY <1>1, LoopInvAlways
<1>6. Spec => [](pc = "done" => (CountsOperations <=> bench.per = Len(bench.body)))
  BY <1>1, CountsWhatItExecutes
<1>7. ASSUME LoopInv,
             pc = "done" => (CountsOperations <=> bench.per = Len(bench.body))
      PROVE  CountsOperationsBut
  <2> SUFFICES ASSUME bench.id # <<"aarch64", "prefetch_very_long", "throughput">>,
                      pc = "done"
               PROVE  CountsOperations
    BY DEF CountsOperationsBut, CountsOperations
  <2>1. bench \in Bench /\ bench \in CpuBench
    BY <1>7 DEF LoopInv
  <2>2. bench.per \in Nat /\ DOMAIN bench.body = 1..bench.per
    BY <2>1, CpuBenchSound
  <2>3. Len(bench.body) \in Nat /\ DOMAIN bench.body = 1..Len(bench.body)
    BY <2>1, BenchTypes
  <2> DEFINE p == bench.per
             l == Len(bench.body)
  <2>4. p \in Nat /\ l \in Nat /\ 1..p = 1..l
    BY <2>2, <2>3
  <2> HIDE DEF p, l
  <2>5. p = l
    BY <2>4
  <2> QED
    BY <1>7, <2>5 DEF p, l
<1> QED
  BY <1>2, <1>3, <1>4, <1>5, <1>6, <1>7, PTL

------------------------------------------------------------------------------
\* Dataflow.  A bounded set of naturals has a greatest member.
LEMMA LeastNatural ==
  ASSUME NEW T, T \subseteq Nat, T # {}
  PROVE  \E x \in T : \A y \in T : x <= y
<1> DEFINE Less == OpToRel(<, Nat)
<1>1. \A x, y \in Nat : x < y => <<x, y>> \in Less
  BY DEF OpToRel
<1>2. IsWellFoundedOn(Less, Nat)
  BY NatLessThanWellFounded
<1> HIDE DEF Less
<1>3. PICK x \in T : \A y \in T : <<y, x>> \notin Less
  BY <1>2, WFMin
<1>4. \A y \in T : ~(y < x)
  BY <1>1, <1>3
<1> QED
  BY <1>4

LEMMA LongestIsMax ==
  ASSUME NEW S, NEW c \in Nat, S \subseteq 0..c, S # {}
  PROVE  Longest(S) \in S /\ \A m \in S : m <= Longest(S)
<1> DEFINE T == {n \in Nat : c - n \in S}
<1>1. \A m \in S : m \in 0..c /\ c - m \in T
  OBVIOUS
<1>2. PICK x \in T : \A y \in T : x <= y
  <2>1. T \subseteq Nat /\ T # {}
    BY <1>1
  <2> QED
    BY <2>1, LeastNatural
<1>3. c - x \in S /\ x \in Nat
  BY <1>2
<1>4. ASSUME NEW m \in S PROVE m <= c - x
  <2>1. x <= c - m
    BY <1>1, <1>2
  <2> QED
    BY <1>1, <1>3, <2>1
<1> QED
  BY <1>3, <1>4 DEF Longest

\* What issuing an instruction does to the dataflow: the length of the chain
\* it ends, and what becomes of each location.
FlowType(L) == [ready : [L -> Nat], writer : [L -> Nat], chain : Nat, crossed : BOOLEAN]
Topped(f) == \A r \in DOMAIN f.ready : f.ready[r] <= f.chain
Height(f, i) == 1 + Longest({0} \cup {f.ready[r] : r \in i.src})

LEMMA HeightIs ==
  ASSUME NEW L, NEW f \in FlowType(L), Topped(f), NEW i, i.src \subseteq L
  PROVE  /\ Height(f, i) \in Nat \ {0}
         /\ Height(f, i) <= f.chain + 1
         /\ \A r \in i.src : f.ready[r] + 1 <= Height(f, i)
         /\ Height(f, i) = 1 \/ \E r \in i.src : Height(f, i) = f.ready[r] + 1
<1> DEFINE S == {0} \cup {f.ready[r] : r \in i.src}
<1>1. f.chain \in Nat /\ \A r \in i.src : f.ready[r] \in 0..f.chain
  BY DEF FlowType, Topped
<1>2. S \subseteq 0..f.chain /\ S # {}
  BY <1>1
<1>3. Longest(S) \in S /\ \A m \in S : m <= Longest(S)
  BY <1>1, <1>2, LongestIsMax
<1>4. Height(f, i) = 1 + Longest(S)
  BY DEF Height
<1>5. \A r \in i.src : f.ready[r] \in S
  OBVIOUS
<1>6. Longest(S) = 0 \/ \E r \in i.src : Longest(S) = f.ready[r]
  BY <1>3
<1> HIDE DEF S
<1> QED
  BY <1>1, <1>2, <1>3, <1>4, <1>5, <1>6

LEMMA IssueIs ==
  ASSUME NEW L, NEW f \in FlowType(L), Topped(f), NEW i, i.src \subseteq L, NEW g \in Nat
  PROVE  /\ Issue(f, i, g) \in FlowType(L)
         /\ Topped(Issue(f, i, g))
         /\ \A r \in L : Issue(f, i, g).ready[r] = IF r \in i.dst THEN Height(f, i)
                                                   ELSE f.ready[r]
         /\ \A r \in L : Issue(f, i, g).writer[r] = IF r \in i.dst THEN g ELSE f.writer[r]
         /\ Issue(f, i, g).chain = f.chain \/ Issue(f, i, g).chain = Height(f, i)
         /\ Issue(f, i, g).crossed <=> f.crossed \/ \E r \in i.src : f.writer[r] \notin {0, g}
<1> DEFINE t == Height(f, i)
           c == Longest({f.chain, t})
           n == [ready   |-> [r \in L |-> IF r \in i.dst THEN t ELSE f.ready[r]],
                 writer  |-> [r \in L |-> IF r \in i.dst THEN g ELSE f.writer[r]],
                 chain   |-> c,
                 crossed |-> f.crossed \/ \E r \in i.src : f.writer[r] \notin {0, g}]
<1>1. f.chain \in Nat /\ t \in Nat /\ t <= f.chain + 1
  BY HeightIs DEF FlowType
<1>2. c \in {f.chain, t} /\ f.chain <= c /\ t <= c
  BY <1>1, LongestIsMax, {f.chain, t} \subseteq 0..(f.chain + 1)
<1>3. Issue(f, i, g) = n
  <2>1. DOMAIN f.ready = L /\ DOMAIN f.writer = L
    BY DEF FlowType
  <2> QED
    BY <2>1 DEF Issue, Height
<1> HIDE DEF t, c
<1>4. n \in FlowType(L) /\ Topped(n)
  BY <1>1, <1>2 DEF FlowType, Topped
<1>5. n.chain = f.chain \/ n.chain = t
  BY <1>2
<1>6. \A r \in L : /\ n.ready[r] = IF r \in i.dst THEN t ELSE f.ready[r]
                 /\ n.writer[r] = IF r \in i.dst THEN g ELSE f.writer[r]
  OBVIOUS
<1>7. n.crossed = (f.crossed \/ \E r \in i.src : f.writer[r] \notin {0, g})
  OBVIOUS
<1> HIDE DEF n
<1> QED
  BY <1>3, <1>4, <1>5, <1>6, <1>7 DEF t

\* What executing an instruction does to the dataflow.
LEMMA ExecuteFlow ==
  ASSUME LoopInv, FlowOK, Execute
  PROVE  /\ bench' = bench /\ iter' = iter /\ pc = "body"
         /\ flow' = Issue(flow, Instr, group)
         /\ group \in DOMAIN bench.body /\ at \in DOMAIN bench.body[group]
         /\ Instr = bench.body[group][at]
         /\ Instr.src \subseteq Locations(bench) /\ Instr.dst \subseteq Locations(bench)
         /\ flow \in FlowType(Locations(bench)) /\ Topped(flow)
         /\ FlowOK'
<1>1. bench' = bench /\ iter' = iter /\ pc = "body"
  BY DEF Execute
<1>2. group \in 1..Len(bench.body) /\ at \in 1..Len(bench.body[group]) /\ bench \in Bench
  BY DEF LoopInv, IndInv, TypeOK
<1>3. Instr \in InstrsOf(bench) /\ Instr.dst \subseteq Locations(bench)
  BY <1>2, IssuedInBody
<1>4. Instr.src \subseteq Locations(bench)
  BY <1>3 DEF Locations
<1>5. iter < IterCap
  BY <1>1, <1>2, BenchTypes, MODULUSAssumption DEF LoopInv, IndInv, Counted
<1>6. flow' = Issue(flow, Instr, group)
  BY <1>5 DEF Execute
<1>7. flow \in FlowType(Locations(bench)) /\ DOMAIN flow.ready = Locations(bench)
  BY DEF FlowOK, FlowType
<1>8. Topped(flow)
  BY <1>7 DEF FlowOK, Topped
<1>9. group \in Nat /\ group \in DOMAIN bench.body /\ at \in DOMAIN bench.body[group]
  BY <1>2, BenchTypes
<1>10. flow' \in FlowType(Locations(bench)) /\ Topped(flow')
  BY <1>4, <1>6, <1>7, <1>8, <1>9, IssueIs
<1>11. FlowOK'
  <2>1. DOMAIN flow'.ready = Locations(bench)
    BY <1>10 DEF FlowType
  <2> QED
    BY <1>1, <1>10, <2>1 DEF FlowOK, FlowType, Topped
<1> QED
  BY <1>1, <1>3, <1>4, <1>6, <1>7, <1>8, <1>9, <1>11 DEF Instr

\* What the branch at the end of an iteration does to it.
LEMMA CountFlow ==
  ASSUME LoopInv, FlowOK, CountAndBranch
  PROVE  /\ bench' = bench /\ group' = group /\ at' = at /\ group = 1 /\ at = 1
         /\ pc = "count" /\ pc' \in {"body", "return"} /\ iter' = iter + 1
         /\ flow'.ready = flow.ready /\ flow'.chain = flow.chain
         /\ flow'.crossed = flow.crossed
         /\ \A r \in Locations(bench) : flow'.writer[r] = 0
         /\ FlowOK'
<1>1. /\ bench' = bench /\ group' = group /\ at' = at /\ group = 1 /\ at = 1
      /\ pc = "count" /\ pc' \in {"body", "return"}
  BY DEF CountAndBranch, LoopInv, IndInv
<1>2. bench \in Bench /\ iter \in Nat /\ iter < IterCap
  BY <1>1, BenchTypes, MODULUSAssumption DEF LoopInv, IndInv, Counted
<1>3. iter' = iter + 1 /\ flow' = NewIteration(flow)
  BY <1>2 DEF CountAndBranch
<1>4. flow' = [flow EXCEPT !.writer = [r \in Locations(bench) |-> 0]]
  BY <1>3 DEF NewIteration, FlowOK
<1>5. /\ flow'.ready = flow.ready /\ flow'.chain = flow.chain
      /\ flow'.crossed = flow.crossed
      /\ \A r \in Locations(bench) : flow'.writer[r] = 0
  BY <1>4 DEF FlowOK
<1>6. flow' \in FlowType(Locations(bench))
  BY <1>4 DEF FlowOK, FlowType
<1>7. FlowOK'
  BY <1>1, <1>5, <1>6 DEF FlowOK, FlowType
<1> QED
  BY <1>1, <1>3, <1>5, <1>7

\* The instructions executed before the next one, as it advances.
LEMMA BeforeAdvances ==
  ASSUME LoopInv, Execute, NEW g \in DOMAIN bench.body, NEW j \in DOMAIN bench.body[g]
  PROVE  /\ pc' = "body" => (Before(g, j)' <=> Before(g, j) \/ (g = group /\ j = at))
         /\ pc' = "count" => Before(g, j) \/ (g = group /\ j = at)
         /\ pc' = "count" => ~Before(g, j)'
<1> DEFINE n == Len(bench.body)
           m == Len(bench.body[group])
<1>1. /\ group \in 1..n /\ at \in 1..m /\ n \in Nat /\ m \in Nat
      /\ g \in 1..n /\ (g = group => j \in 1..m)
      /\ g \in Nat /\ j \in Nat \ {0}
  <2>1. bench \in Bench /\ group \in 1..n /\ at \in 1..m
    BY DEF LoopInv, IndInv, TypeOK
  <2>2. /\ DOMAIN bench.body = 1..n /\ n \in Nat
        /\ \A h \in 1..n : /\ Len(bench.body[h]) \in Nat
                          /\ DOMAIN bench.body[h] = 1..Len(bench.body[h])
    BY <2>1, BenchTypes
  <2>3. m \in Nat /\ DOMAIN bench.body[group] = 1..m
    BY <2>1, <2>2
  <2>4. g \in 1..n /\ j \in 1..Len(bench.body[g])
    BY <2>2
  <2>5. g \in Nat /\ j \in Nat \ {0}
    BY <2>2, <2>4
  <2> HIDE DEF n, m
  <2> QED
    BY <2>1, <2>2, <2>3, <2>4, <2>5
<1>2. \/ at < m /\ at' = at + 1 /\ group' = group /\ pc' = "body"
      \/ at = m /\ at' = 1 /\ group < n /\ group' = group + 1 /\ pc' = "body"
      \/ at = m /\ at' = 1 /\ group = n /\ group' = 1 /\ pc' = "count"
  BY <1>1 DEF Execute, Advance
<1> HIDE DEF n, m
<1>3. CASE at < m /\ at' = at + 1 /\ group' = group /\ pc' = "body"
  BY <1>1, <1>3 DEF Before
<1>4. CASE at = m /\ at' = 1 /\ group < n /\ group' = group + 1 /\ pc' = "body"
  BY <1>1, <1>4 DEF Before
<1>5. CASE at = m /\ at' = 1 /\ group = n /\ group' = 1 /\ pc' = "count"
  BY <1>1, <1>5 DEF Before
<1> QED
  BY <1>2, <1>3, <1>4, <1>5

LEMMA ExecuteWriters ==
  ASSUME LoopInv, FlowOK, WritersKnown, Execute
  PROVE  WritersKnown'
<1> SUFFICES ASSUME pc' = "body", NEW r \in Locations(bench)
             PROVE  /\ flow'.writer[r] # 0 =>
                         \E g \in DOMAIN bench.body : \E j \in DOMAIN bench.body[g] :
                           /\ flow'.writer[r] = g /\ Before(g, j)'
                           /\ r \in bench.body[g][j].dst
                    /\ \A g \in DOMAIN bench.body : \A j \in DOMAIN bench.body[g] :
                         Before(g, j)' /\ r \in bench.body[g][j].dst => flow'.writer[r] >= g
  <2>1. bench' = bench /\ pc' \in {"body", "count"}
    BY ExecuteFlow, AdvancePlaces DEF Execute, LoopInv, IndInv, TypeOK
  <2> QED
    BY <2>1 DEF WritersKnown, Before
<1>1. /\ group \in DOMAIN bench.body /\ at \in DOMAIN bench.body[group]
      /\ Instr = bench.body[group][at] /\ pc = "body"
  BY ExecuteFlow
<1>2. group \in Nat \ {0} /\ DOMAIN bench.body \subseteq Nat
  BY <1>1, BenchTypes DEF LoopInv
<1>3. flow'.writer[r] = IF r \in Instr.dst THEN group ELSE flow.writer[r]
  BY <1>2, ExecuteFlow, IssueIs
<1>5. \A g \in DOMAIN bench.body : \A j \in DOMAIN bench.body[g] :
        Before(g, j)' <=> Before(g, j) \/ (g = group /\ j = at)
  BY BeforeAdvances
<1>6. /\ flow.writer[r] # 0 =>
           \E g \in DOMAIN bench.body : \E j \in DOMAIN bench.body[g] :
             flow.writer[r] = g /\ Before(g, j) /\ r \in bench.body[g][j].dst
      /\ \A g \in DOMAIN bench.body : \A j \in DOMAIN bench.body[g] :
           Before(g, j) /\ r \in bench.body[g][j].dst => flow.writer[r] >= g
  BY <1>1 DEF WritersKnown
<1>7. CASE r \in Instr.dst
  <2>1. flow'.writer[r] = group
    BY <1>3, <1>7
  <2>2. \A g \in DOMAIN bench.body : \A j \in DOMAIN bench.body[g] :
          Before(g, j)' => group >= g
    BY <1>2, <1>5 DEF Before
  <2>3. \E g \in DOMAIN bench.body : \E j \in DOMAIN bench.body[g] :
          g = group /\ Before(g, j)' /\ r \in bench.body[g][j].dst
    BY <1>1, <1>5, <1>7
  <2> QED
    BY <1>1, <1>2, <2>1, <2>2, <2>3
<1>8. CASE r \notin Instr.dst
  <2>1. flow'.writer[r] = flow.writer[r]
    BY <1>3, <1>8
  <2>2. flow.writer[r] # 0 =>
          \E g \in DOMAIN bench.body : \E j \in DOMAIN bench.body[g] :
            flow.writer[r] = g /\ Before(g, j)' /\ r \in bench.body[g][j].dst
    BY <1>5, <1>6
  <2>3. ASSUME NEW g \in DOMAIN bench.body, NEW j \in DOMAIN bench.body[g],
               Before(g, j)', r \in bench.body[g][j].dst
        PROVE  flow.writer[r] >= g
    BY <1>1, <1>5, <1>6, <1>8, <2>3
  <2> QED
    BY <2>1, <2>2, <2>3
<1> QED
  BY <1>7, <1>8

\* The dataflow sees an instruction cross exactly if it does.
LEMMA CrossingIs ==
  ASSUME LoopInv, FlowOK, WritersKnown, pc = "body"
  PROVE  CrossesAt(bench, group, at)
           <=> \E r \in Instr.src : flow.writer[r] \notin {0, group}
<1>1. /\ group \in DOMAIN bench.body /\ at \in DOMAIN bench.body[group]
      /\ group \in Nat \ {0} /\ at \in Nat \ {0}
      /\ DOMAIN bench.body = 1..Len(bench.body) /\ Len(bench.body) \in Nat
      /\ DOMAIN bench.body[group] = 1..Len(bench.body[group])
      /\ Len(bench.body[group]) \in Nat
  BY BenchTypes DEF LoopInv, IndInv, TypeOK
<1>2. Instr.src \subseteq Locations(bench)
  BY IssuedInBody DEF Locations, LoopInv, IndInv, TypeOK
<1>3. \A h \in 1..(group - 1) : h \in DOMAIN bench.body /\ \A k : Before(h, k)
  BY <1>1 DEF Before
<1>4. \A k \in 1..(at - 1) : k \in DOMAIN bench.body[group] /\ Before(group, k)
  BY <1>1 DEF Before
<1>5. \A k \in DOMAIN bench.body[group] : Before(group, k) => k \in 1..(at - 1)
  BY <1>1 DEF Before
<1>6. ASSUME NEW r \in Instr.src, flow.writer[r] \notin {0, group}
      PROVE  CrossesAt(bench, group, at)
  <2> DEFINE h == flow.writer[r]
  <2>1. \E k \in DOMAIN bench.body[h] :
          h \in DOMAIN bench.body /\ Before(h, k) /\ r \in bench.body[h][k].dst
    BY <1>2, <1>6 DEF WritersKnown
  <2>2. h \in 1..(group - 1)
    BY <1>1, <1>6, <2>1 DEF Before
  <2>3. \A k \in 1..(at - 1) : r \notin bench.body[group][k].dst
    <3>1. ASSUME NEW k \in 1..(at - 1), r \in bench.body[group][k].dst PROVE FALSE
      <4>1. h >= group
        BY <1>1, <1>2, <1>4, <3>1 DEF WritersKnown
      <4> QED
        BY <1>1, <2>2, <4>1
    <3> QED
      BY <3>1
  <2> QED
    BY <2>1, <2>2, <2>3 DEF CrossesAt, Instr
<1>7. ASSUME CrossesAt(bench, group, at)
      PROVE  \E r \in Instr.src : flow.writer[r] \notin {0, group}
  <2>1. PICK r \in Instr.src :
          /\ \E h \in 1..(group - 1) :
               \E k \in DOMAIN bench.body[h] : r \in bench.body[h][k].dst
          /\ \A k \in 1..(at - 1) : r \notin bench.body[group][k].dst
    BY <1>7 DEF CrossesAt, Instr
  <2>2. PICK h \in 1..(group - 1) :
          \E k \in DOMAIN bench.body[h] : r \in bench.body[h][k].dst
    BY <2>1
  <2>3. flow.writer[r] >= h /\ flow.writer[r] \in Nat
    BY <1>2, <1>3, <2>2 DEF WritersKnown, FlowOK
  <2>4. flow.writer[r] # 0
    BY <1>1, <2>2, <2>3
  <2>5. flow.writer[r] # group
    <3>1. ASSUME flow.writer[r] = group PROVE FALSE
      <4>1. \E k \in DOMAIN bench.body[group] :
              Before(group, k) /\ r \in bench.body[group][k].dst
        BY <1>2, <2>4, <3>1 DEF WritersKnown
      <4> QED
        BY <1>5, <2>1, <4>1
    <3> QED
      BY <3>1
  <2> QED
    BY <2>4, <2>5
<1> QED
  BY <1>6, <1>7

LEMMA ExecuteCrossings ==
  ASSUME LoopInv, FlowOK, WritersKnown, CrossingsSeen, Execute
  PROVE  CrossingsSeen'
<1>1. /\ group \in DOMAIN bench.body /\ at \in DOMAIN bench.body[group]
      /\ bench' = bench /\ iter' = iter /\ pc = "body" /\ group \in Nat
  BY ExecuteFlow, BenchTypes DEF LoopInv
<1>2. flow'.crossed <=> flow.crossed \/ CrossesAt(bench, group, at)
  <2>1. Issue(flow, Instr, group).crossed
          <=> flow.crossed \/ \E r \in Instr.src : flow.writer[r] \notin {0, group}
    BY <1>1, ExecuteFlow, IssueIs, ZenonT(40)
  <2>2. flow' = Issue(flow, Instr, group)
    BY ExecuteFlow
  <2> QED
    BY <1>1, <2>1, <2>2, CrossingIs, Zenon
<1>3. /\ pc' \in {"body", "count"}
      /\ \A g \in DOMAIN bench.body : \A j \in DOMAIN bench.body[g] :
           /\ Before(g, j)' => Before(g, j) \/ (g = group /\ j = at)
           /\ pc' = "count" => Before(g, j) \/ (g = group /\ j = at)
  BY BeforeAdvances, AdvancePlaces DEF Execute, LoopInv, IndInv, TypeOK
<1>4. flow'.crossed => Crosses(bench)
  BY <1>1, <1>2 DEF CrossingsSeen, Crosses
<1>5. \A g \in DOMAIN bench.body : \A j \in DOMAIN bench.body[g] :
        CrossesAt(bench, g, j) /\ (Before(g, j) \/ (g = group /\ j = at))
          => flow'.crossed
  BY <1>2 DEF CrossingsSeen
<1>6. iter > 0 \/ pc' = "count" => (Crosses(bench) => flow'.crossed)
  BY <1>2, <1>3, <1>5 DEF CrossingsSeen, Crosses
<1> QED
  BY <1>1, <1>3, <1>4, <1>5, <1>6 DEF CrossingsSeen

\* A thread is passed on, or stays where it is.
LEMMA ExecuteThreads ==
  ASSUME LoopInv, FlowOK, ThreadsDeepen, Execute
  PROVE  ThreadsDeepen'
<1> SUFFICES ASSUME NEW p \in Paths(bench), ThreadOf(bench, p)
             PROVE  /\ flow'.ready[p[at']] >= Finished'
                    /\ (\E j \in 1..(at' - 1) : Passes(bench.body[group'][j], p[j], p[j + 1]))
                         => flow'.ready[p[at']] >= Finished' + 1
  BY ExecuteFlow DEF ThreadsDeepen
<1> DEFINE L == Locations(bench)
           n == Len(bench.body)
           m == Len(bench.body[group])
           q == iter * n
           Pass(j) == Passes(bench.body[group][j], p[j], p[j + 1])
<1>1. /\ bench \in Bench /\ iter' = iter /\ bench' = bench /\ pc = "body"
      /\ group \in DOMAIN bench.body /\ at \in DOMAIN bench.body[group]
      /\ Instr = bench.body[group][at] /\ Instr.src \subseteq L
      /\ flow \in FlowType(L) /\ Topped(flow) /\ flow' = Issue(flow, Instr, group)
  BY ExecuteFlow DEF LoopInv
<1>2. /\ n \in Nat \ {0} /\ m \in Nat \ {0} /\ group \in 1..n /\ at \in 1..m
      /\ DOMAIN bench.body[group] = 1..m
  BY <1>1, BenchTypes
<1>3. q \in Nat
  <2>1. iter \in Nat
    BY <1>1, MODULUSAssumption DEF LoopInv, IndInv, TypeOK
  <2> QED
    BY <1>2, <2>1
<1>4. \A j \in 1..(m + 1) : p[j] \in L
  <2>1. m = Len(bench.body[1])
    BY <1>1 DEF ThreadOf
  <2> QED
    BY <2>1 DEF Paths
<1>5. /\ p[m + 1] = p[1]
      /\ \E j \in 1..m : Pass(j)
      /\ Pass(at) \/ (p[at + 1] = p[at] /\ p[at] \notin Instr.dst)
  BY <1>1, <1>2 DEF ThreadOf, Threads
<1>6. /\ flow.ready[p[at]] >= q + (group - 1) /\ flow.ready[p[at]] \in Nat
      /\ (\E j \in 1..(at - 1) : Pass(j)) => flow.ready[p[at]] >= q + group
  <2>1. Finished = q + (group - 1)
    BY <1>1 DEF Finished
  <2>2. flow.ready[p[at]] \in Nat
    BY <1>1, <1>2, <1>4 DEF FlowType
  <2>3. q + (group - 1) + 1 = q + group
    BY <1>2, <1>3
  <2> QED
    BY <2>1, <2>2, <2>3 DEF ThreadsDeepen
<1>7. /\ flow'.ready[p[at + 1]] \in Nat
      /\ flow'.ready[p[at + 1]] >= q + (group - 1)
      /\ (\E j \in 1..at : Pass(j)) => flow'.ready[p[at + 1]] >= q + group
  <2>1. p[at] \in L /\ p[at + 1] \in L /\ group \in Nat
    BY <1>2, <1>4
  <2>2. flow'.ready[p[at + 1]] = IF p[at + 1] \in Instr.dst THEN Height(flow, Instr)
                                 ELSE flow.ready[p[at + 1]]
    BY <1>1, <2>1, IssueIs, SMTT(30)
  <2>3. CASE Pass(at)
    <3>1. p[at] \in Instr.src /\ p[at + 1] \in Instr.dst
      BY <1>1, <2>3 DEF Passes
    <3>2. /\ Height(flow, Instr) \in Nat
          /\ flow.ready[p[at]] + 1 <= Height(flow, Instr)
      BY <1>1, <3>1, HeightIs
    <3> HIDE DEF Pass, q, n, m
    <3> QED
      BY <1>2, <1>3, <1>6, <2>1, <2>2, <3>1, <3>2
  <2>4. CASE ~Pass(at)
    <3>1. flow'.ready[p[at + 1]] = flow.ready[p[at]]
      BY <1>5, <2>2, <2>4
    <3>2. (\E j \in 1..at : Pass(j)) => \E j \in 1..(at - 1) : Pass(j)
      <4> HIDE DEF Pass
      <4> QED
        BY <1>2, <2>4
    <3> HIDE DEF Pass, q, n, m
    <3> QED
      BY <1>6, <3>1, <3>2
  <2> QED
    BY <2>3, <2>4
<1>8. \/ at < m /\ at' = at + 1 /\ group' = group /\ pc' = "body"
      \/ at = m /\ at' = 1 /\ group < n /\ group' = group + 1 /\ pc' = "body"
      \/ at = m /\ at' = 1 /\ group = n /\ group' = 1 /\ pc' = "count"
  BY <1>2 DEF Execute, Advance
<1>9. Finished' = q + (IF pc' = "count" THEN n ELSE group' - 1)
  BY <1>1 DEF Finished
<1>10. CASE at < m /\ at' = at + 1 /\ group' = group /\ pc' = "body"
  <2>1. Finished' = q + (group - 1) /\ Finished' + 1 = q + group
    BY <1>2, <1>3, <1>9, <1>10
  <2>2. at' - 1 = at
    BY <1>2, <1>10
  <2> QED
    BY <1>7, <1>10, <2>1, <2>2
<1>11. CASE at = m /\ at' = 1
  <2>1. Finished' = q + group
    BY <1>2, <1>3, <1>8, <1>9, <1>11
  <2>2. p[at'] = p[at + 1] /\ \E j \in 1..at : Pass(j)
    BY <1>5, <1>11
  <2>3. 1..(at' - 1) = {}
    BY <1>11
  <2> QED
    BY <1>7, <2>1, <2>2, <2>3
<1> QED
  BY <1>8, <1>10, <1>11

\* No chain grows past a ceiling.
LEMMA ExecuteCeilings ==
  ASSUME LoopInv, FlowOK, NEW k \in Nat \ {0}, CeilingsHold(k), Execute
  PROVE  CeilingsHold(k)'
<1> SUFFICES ASSUME NEW c \in Ceilings(bench, k), CeilingOf(bench, c, k)
             PROVE  /\ flow'.chain <= k
                    /\ \A r \in Locations(bench) : flow'.ready[r] <= c[at'][r]
  BY ExecuteFlow DEF CeilingsHold
<1> DEFINE L == Locations(bench)
           m == Len(bench.body[group])
           h == Height(flow, Instr)
<1>1. /\ bench \in Bench /\ group \in DOMAIN bench.body /\ at \in DOMAIN bench.body[group]
      /\ Instr = bench.body[group][at] /\ Instr.src \subseteq L
      /\ flow \in FlowType(L) /\ Topped(flow) /\ flow' = Issue(flow, Instr, group)
  BY ExecuteFlow DEF LoopInv
<1>2. /\ m \in Nat \ {0} /\ at \in 1..m /\ group \in Nat
      /\ DOMAIN bench.body[group] = 1..m
  <2>1. group \in 1..Len(bench.body) /\ Len(bench.body) \in Nat
    BY <1>1, BenchTypes
  <2>2. m \in Nat \ {0} /\ DOMAIN bench.body[group] = 1..m
    BY <1>1, <2>1, BenchTypes
  <2> QED
    BY <1>1, <2>1, <2>2
<1>3. \A j \in 1..(m + 1) : c[j] \in [L -> 0..k]
  <2>1. m = Len(bench.body[1])
    BY <1>1 DEF CeilingOf
  <2> QED
    BY <2>1 DEF Ceilings
<1>4. /\ c[m + 1] = c[1] /\ Raises(Instr, c[at], c[at + 1])
      /\ \A s \in Instr.src : c[at][s] < k
  BY <1>1, <1>2 DEF CeilingOf
<1>5. flow.chain <= k /\ \A r \in L : flow.ready[r] <= c[at][r] /\ flow.ready[r] \in Nat
  BY <1>1 DEF CeilingsHold, FlowType
<1>6. /\ h \in Nat
      /\ h = 1 \/ \E s \in Instr.src : h = flow.ready[s] + 1
      /\ flow'.chain = flow.chain \/ flow'.chain = h
      /\ \A r \in L : flow'.ready[r] = IF r \in Instr.dst THEN h ELSE flow.ready[r]
  <2>1. h \in Nat /\ (h = 1 \/ \E s \in Instr.src : h = flow.ready[s] + 1)
    BY <1>1, HeightIs
  <2> DEFINE f == Issue(flow, Instr, group)
  <2>2. /\ flow \in FlowType(L) /\ Topped(flow) /\ Instr.src \subseteq L
        /\ group \in Nat
    BY <1>1, <1>2
  <2>3. f.chain = flow.chain \/ f.chain = Height(flow, Instr)
    BY <2>2, IssueIs
  <2>4. \A r \in L : f.ready[r] = IF r \in Instr.dst THEN Height(flow, Instr)
                             ELSE flow.ready[r]
    BY <2>2, IssueIs
  <2>5. flow' = f
    BY <1>1
  <2> HIDE DEF f
  <2> QED
    BY <2>1, <2>3, <2>4, <2>5
<1>7. c[at] \in [L -> 0..k] /\ c[at + 1] \in [L -> 0..k]
  BY <1>2, <1>3
<1>8. h = 1 \/ \E s \in Instr.src : s \in L /\ h <= c[at][s] + 1
  BY <1>1, <1>5, <1>6, <1>7
<1>9. flow'.chain <= k
  BY <1>4, <1>5, <1>6, <1>7, <1>8
<1>10. \A r \in L : flow'.ready[r] <= c[at + 1][r]
  <2> SUFFICES ASSUME NEW r \in L PROVE flow'.ready[r] <= c[at + 1][r]
    OBVIOUS
  <2>1. c[at][r] \in Nat /\ c[at + 1][r] \in Nat /\ DOMAIN c[at] = L
    BY <1>7
  <2>2. CASE r \in Instr.dst
    <3>1. 1 <= c[at + 1][r] /\ \A s \in Instr.src : c[at][s] + 1 <= c[at + 1][r]
      BY <1>4, <2>1, <2>2 DEF Raises
    <3> QED
      BY <1>6, <1>7, <1>8, <2>1, <2>2, <3>1
  <2>3. CASE r \notin Instr.dst
    <3>1. c[at][r] <= c[at + 1][r]
      BY <1>4, <2>1, <2>3 DEF Raises
    <3> QED
      BY <1>5, <1>6, <2>1, <2>3, <3>1
  <2> QED
    BY <2>2, <2>3
<1>11. at' = at + 1 \/ (at = m /\ at' = 1)
  BY <1>2 DEF Execute, Advance
<1> QED
  BY <1>4, <1>9, <1>10, <1>11

\* Groups and instructions are numbered from 1.
LEMMA Numbered ==
  ASSUME bench \in Bench
  PROVE  /\ Len(bench.body) \in Nat \ {0} /\ 1 \in DOMAIN bench.body
         /\ \A g \in DOMAIN bench.body :
              /\ g \in Nat \ {0} /\ Len(bench.body[g]) \in Nat \ {0}
              /\ \A j \in DOMAIN bench.body[g] : j \in Nat \ {0}
<1>1. Len(bench.body) \in Nat \ {0} /\ DOMAIN bench.body = 1..Len(bench.body)
  BY BenchTypes
<1>2. ASSUME NEW g \in DOMAIN bench.body
      PROVE  /\ Len(bench.body[g]) \in Nat \ {0}
             /\ DOMAIN bench.body[g] = 1..Len(bench.body[g])
  BY <1>1, BenchTypes
<1> QED
  BY <1>1, <1>2

LEMMA InitFlow ==
  ASSUME \A b \in Bench : NamesWhatItWrites(b), NEW k \in Nat \ {0}, Init
  PROVE  FlowKept(k)
<1> DEFINE L == Locations(bench)
<1>1. /\ bench \in Bench /\ group = 1 /\ at = 1 /\ iter = 0 /\ pc = "prologue"
      /\ flow = [ready |-> [r \in L |-> 0], writer |-> [r \in L |-> 0],
                 chain |-> 0, crossed |-> FALSE]
  BY DEF Init
<1>2. /\ Len(bench.body) \in Nat \ {0} /\ Len(bench.body[1]) \in Nat
      /\ \A g \in DOMAIN bench.body :
           g \in Nat \ {0} /\ \A j \in DOMAIN bench.body[g] : j \in Nat \ {0}
  BY <1>1, Numbered
<1>3. FlowOK
  BY <1>1 DEF FlowOK
<1>4. \A g \in DOMAIN bench.body : \A j \in DOMAIN bench.body[g] : ~Before(g, j)
  BY <1>1, <1>2 DEF Before
<1>5. WritersKnown /\ CrossingsSeen
  BY <1>1, <1>4 DEF WritersKnown, CrossingsSeen
<1>6. ThreadsDeepen
  <2> SUFFICES ASSUME NEW p \in Paths(bench)
               PROVE  /\ flow.ready[p[at]] >= Finished
                      /\ 1..(at - 1) = {}
    BY DEF ThreadsDeepen
  <2>1. p[1] \in L
    BY <1>2 DEF Paths
  <2>2. Finished = 0
    BY <1>1, <1>2 DEF Finished
  <2> QED
    BY <1>1, <2>1, <2>2
<1>7. CeilingsHold(k)
  <2> SUFFICES ASSUME NEW c \in Ceilings(bench, k)
               PROVE  flow.chain <= k /\ \A r \in L : flow.ready[r] <= c[at][r]
    BY DEF CeilingsHold
  <2>1. c[1] \in [L -> 0..k]
    BY <1>2 DEF Ceilings
  <2> QED
    BY <1>1, <2>1
<1> QED
  BY <1>3, <1>5, <1>6, <1>7 DEF FlowKept

LEMMA CountKeepsFlow ==
  ASSUME LoopInv, NEW k \in Nat \ {0}, FlowKept(k), CountAndBranch
  PROVE  FlowKept(k)'
<1> USE DEF FlowKept
<1>1. /\ bench' = bench /\ group' = group /\ at' = at /\ group = 1 /\ at = 1
      /\ pc = "count" /\ pc' \in {"body", "return"} /\ iter' = iter + 1
      /\ flow'.ready = flow.ready /\ flow'.chain = flow.chain
      /\ flow'.crossed = flow.crossed
      /\ \A r \in Locations(bench) : flow'.writer[r] = 0
      /\ FlowOK'
  BY CountFlow
<1>2. /\ Len(bench.body) \in Nat \ {0} /\ iter \in Nat
      /\ \A g \in DOMAIN bench.body :
           g \in Nat \ {0} /\ \A j \in DOMAIN bench.body[g] : j \in Nat \ {0}
  <2>1. iter \in Nat /\ bench \in Bench
    BY MODULUSAssumption DEF LoopInv, IndInv, TypeOK
  <2> QED
    BY <2>1, Numbered
<1>3. \A g \in DOMAIN bench.body : \A j \in DOMAIN bench.body[g] : ~Before(g, j)'
  BY <1>1, <1>2 DEF Before
<1>4. WritersKnown'
  BY <1>1, <1>3 DEF WritersKnown
<1>5. CrossingsSeen'
  <2>1. (flow.crossed => Crosses(bench)) /\ (Crosses(bench) => flow.crossed)
    BY <1>1 DEF CrossingsSeen
  <2> QED
    BY <1>1, <1>3, <2>1 DEF CrossingsSeen
<1>6. ThreadsDeepen'
  <2>1. Finished' = Finished
    <3> DEFINE n == Len(bench.body)
    <3>1. Finished = iter * n + n /\ Finished' = (iter + 1) * n + (1 - 1)
      BY <1>1 DEF Finished
    <3>2. n \in Nat /\ iter \in Nat
      BY <1>2
    <3> HIDE DEF n
    <3>3. (iter + 1) * n = iter * n + n /\ iter * n \in Nat
      BY <3>2
    <3> QED
      BY <3>1, <3>2, <3>3
  <2>2. 1..(at - 1) = {}
    BY <1>1
  <2> QED
    BY <1>1, <2>1, <2>2 DEF ThreadsDeepen
<1>7. CeilingsHold(k)'
  BY <1>1 DEF CeilingsHold
<1> QED
  BY <1>1, <1>4, <1>5, <1>6, <1>7

\* The prologue and the epilogue leave it alone.
LEMMA OthersKeepFlow ==
  ASSUME NEW k \in Nat \ {0}, FlowKept(k),
         UNCHANGED <<bench, group, at, iter, flow>>, pc # "count", pc' # "count",
         pc' = "body" => pc \in {"prologue", "body"},
         pc' = "prologue" => pc = "prologue"
  PROVE  FlowKept(k)'
<1>1. FlowOK'
  BY DEF FlowKept, FlowOK
<1>2. WritersKnown'
  BY DEF FlowKept, WritersKnown, Before
<1>3. CrossingsSeen'
  BY DEF FlowKept, CrossingsSeen, Before
<1>4. ThreadsDeepen'
  BY DEF FlowKept, ThreadsDeepen, Finished
<1>5. CeilingsHold(k)'
  BY DEF FlowKept, CeilingsHold
<1> QED
  BY <1>1, <1>2, <1>3, <1>4, <1>5 DEF FlowKept

LEMMA StutterKeepsFlow ==
  ASSUME NEW k \in Nat \ {0}, FlowKept(k), UNCHANGED vars
  PROVE  FlowKept(k)'
BY DEF vars, FlowKept, FlowOK, WritersKnown, CrossingsSeen, ThreadsDeepen, CeilingsHold,
       Before, Finished

\* And of every ceiling.
AllFlowKept == \A k \in Nat \ {0} : FlowKept(k)

LEMMA FlowKeptAlways ==
  ASSUME \A b \in Bench : NamesWhatItWrites(b)
  PROVE  Spec => [](LoopInv /\ AllFlowKept)
<1>1. Init => AllFlowKept
  BY InitFlow DEF AllFlowKept
<1>2. LoopInv /\ AllFlowKept /\ [Next]_vars => AllFlowKept'
  <2> SUFFICES ASSUME LoopInv, NEW k \in Nat \ {0}, FlowKept(k), [Next]_vars
               PROVE  FlowKept(k)'
    BY DEF AllFlowKept
  <2>1. CASE Prologue
    BY <2>1, OthersKeepFlow DEF Prologue
  <2>2. CASE Execute
    <3>1. FlowOK'
      BY <2>2, ExecuteFlow DEF FlowKept
    <3> QED
      BY <2>2, <3>1, ExecuteWriters, ExecuteCrossings, ExecuteThreads, ExecuteCeilings
      DEF FlowKept
  <2>3. CASE CountAndBranch
    BY <2>3, CountKeepsFlow
  <2>4. CASE Return
    BY <2>4, OthersKeepFlow DEF Return
  <2>5. CASE UNCHANGED vars
    BY <2>5, StutterKeepsFlow
  <2> QED
    BY <2>1, <2>2, <2>3, <2>4, <2>5 DEF Next, Done
<1> QED
  BY <1>1, <1>2, LoopInvAlways, PTL DEF Spec

\* In any loop, some operation uses in an iteration what another one has
\* written in it exactly if the body says so, whatever the iterations.
THEOREM CrossedIsOfBody ==
  ASSUME \A b \in Bench : NamesWhatItWrites(b)
  PROVE  Spec => [](pc = "done" => (flow.crossed <=> Crosses(bench)))
<1>1. Spec => [](LoopInv /\ AllFlowKept)
  BY FlowKeptAlways
<1>2. LoopInv /\ AllFlowKept => (pc = "done" => (flow.crossed <=> Crosses(bench)))
  <2> SUFFICES ASSUME LoopInv, AllFlowKept, pc = "done"
               PROVE  flow.crossed <=> Crosses(bench)
    OBVIOUS
  <2>1. iter > 0
    BY BenchTypes DEF LoopInv, IndInv, Counted
  <2>2. FlowKept(1)
    BY DEF AllFlowKept
  <2> QED
    BY <2>1, <2>2 DEF FlowKept, CrossingsSeen
<1> QED
  BY <1>1, <1>2, PTL

\* A loop with a thread through its groups takes as long as its operations one
\* after another, however often it is repeated.
THEOREM ThreadedIsChained ==
  ASSUME \A b \in Bench : NamesWhatItWrites(b)
  PROVE  Spec => [](pc = "done" /\ Threaded(bench) => Chained)
<1>1. Spec => [](LoopInv /\ AllFlowKept)
  BY FlowKeptAlways
<1>2. LoopInv /\ AllFlowKept => (pc = "done" /\ Threaded(bench) => Chained)
  <2> SUFFICES ASSUME LoopInv, FlowKept(1), pc = "done", Threaded(bench) PROVE Chained
    BY DEF AllFlowKept
  <2> DEFINE n == Len(bench.body)
  <2>1. PICK p \in Paths(bench) : ThreadOf(bench, p)
    BY DEF Threaded
  <2>2. /\ bench \in Bench /\ n \in Nat /\ group \in Nat \ {0}
        /\ group \in DOMAIN bench.body /\ at \in 1..Len(bench.body[group])
        /\ Len(bench.body[group]) \in Nat /\ iter \in Nat
    BY BenchTypes, MODULUSAssumption DEF LoopInv, IndInv, TypeOK
  <2>3. p[at] \in Locations(bench)
    <3>1. Len(bench.body[group]) = Len(bench.body[1])
      BY <2>1, <2>2 DEF ThreadOf
    <3>2. at \in 1..(Len(bench.body[1]) + 1)
      BY <2>2, <3>1
    <3> QED
      BY <3>2 DEF Paths
  <2>4. flow.ready[p[at]] >= Finished
    BY <2>1 DEF FlowKept, ThreadsDeepen
  <2>5. /\ flow.ready[p[at]] \in Nat /\ flow.chain \in Nat
        /\ flow.ready[p[at]] <= flow.chain
    BY <2>3 DEF FlowKept, FlowOK
  <2>6. Finished = iter * n + (group - 1) /\ iter * n \in Nat
    BY <2>2 DEF Finished
  <2> HIDE DEF n
  <2>7. flow.chain >= iter * n
    BY <2>2, <2>4, <2>5, <2>6
  <2> QED
    BY <2>7 DEF Chained, n
<1> QED
  BY <1>1, <1>2, PTL

\* A loop with a ceiling lower than its number of operations does not, however
\* often it is repeated: the longest chain stays below the ceiling.
THEOREM BoundedIsNotChained ==
  ASSUME \A b \in Bench : NamesWhatItWrites(b)
  PROVE  Spec => [](\A k \in Nat \ {0} :
                      Bounded(bench, k) =>
                        /\ flow.chain <= k
                        /\ pc = "done" /\ k < Len(bench.body) => ~Chained)
<1>1. Spec => [](LoopInv /\ AllFlowKept)
  BY FlowKeptAlways
<1>2. LoopInv /\ AllFlowKept
        => \A k \in Nat \ {0} :
             Bounded(bench, k) =>
               /\ flow.chain <= k
               /\ pc = "done" /\ k < Len(bench.body) => ~Chained
  <2> SUFFICES ASSUME LoopInv, NEW k \in Nat \ {0}, FlowKept(k), Bounded(bench, k)
               PROVE  flow.chain <= k /\ (pc = "done" /\ k < Len(bench.body) => ~Chained)
    BY DEF AllFlowKept
  <2>1. flow.chain <= k /\ flow.chain \in Nat
    BY DEF FlowKept, CeilingsHold, Bounded, FlowOK
  <2> DEFINE n == Len(bench.body)
  <2>2. ASSUME pc = "done", k < n PROVE ~Chained
    <3>1. n \in Nat /\ iter \in Nat \ {0}
      BY <2>2, BenchTypes DEF LoopInv, IndInv, Counted
    <3>2. Chained <=> flow.chain >= iter * n
      BY DEF Chained
    <3> HIDE DEF n
    <3>3. iter * n >= n
      BY <3>1
    <3> QED
      BY <2>1, <2>2, <3>1, <3>2, <3>3
  <2> QED
    BY <2>1, <2>2
<1> QED
  BY <1>1, <1>2, PTL

------------------------------------------------------------------------------
\* The loops of CpuLoops.  A latency loop repeats one group.
Repeating(b, gp) == \E n \in {10, 20} : b.body = Same(n, gp)

LEMMA RepeatingIs ==
  ASSUME NEW b, NEW gp, Repeating(b, gp)
  PROVE  /\ 1 \in DOMAIN b.body /\ 4 \in DOMAIN b.body
         /\ \A g \in DOMAIN b.body : b.body[g] = gp
         /\ \A j \in DOMAIN gp : gp[j].dst \subseteq Locations(b)
                                 /\ gp[j].src \subseteq Locations(b)
<1>1. /\ 1 \in DOMAIN b.body /\ 4 \in DOMAIN b.body
      /\ \A g \in DOMAIN b.body : b.body[g] = gp
  BY DEF Repeating, Same
<1>2. gp \in Range(b.body)
  BY <1>1 DEF Range
<1>3. \A j \in DOMAIN gp : gp[j] \in InstrsOf(b)
  BY <1>2 DEF InstrsOf, Range
<1> QED
  BY <1>1, <1>3 DEF Locations

\* A path through the group is a thread of the loop.
LEMMA PathThreads ==
  ASSUME NEW b, NEW gp, Repeating(b, gp), NEW m \in Nat, Len(gp) = m,
         NEW p \in [1..(m + 1) -> Locations(b)], Threads(gp, p)
  PROVE  Threaded(b)
<1>1. 1 \in DOMAIN b.body /\ \A g \in DOMAIN b.body : b.body[g] = gp
  BY RepeatingIs
<1>2. p \in Paths(b)
  BY <1>1 DEF Paths
<1>3. ThreadOf(b, p)
  BY <1>1 DEF ThreadOf
<1> QED
  BY <1>2, <1>3 DEF Threaded

\* One location that the group works on: it reads it wherever it writes it.
LEMMA OneThreads ==
  ASSUME NEW b, NEW x, Repeating(b, <<x>>), NEW r, r \in x.dst, r \in x.src
  PROVE  Threaded(b)
<1> DEFINE p == [j \in 1..2 |-> r]
<1>1. Threads(<<x>>, p)
  BY DEF Threads, Passes
<1>2. r \in Locations(b)
  BY RepeatingIs
<1>3. p \in [1..(1 + 1) -> Locations(b)] /\ Len(<<x>>) = 1 /\ 1 \in Nat
  BY <1>2
<1> HIDE DEF p
<1> QED
  BY <1>1, <1>3, PathThreads

LEMMA TwoThread ==
  ASSUME NEW b, NEW x, NEW y, Repeating(b, <<x, y>>), NEW r, r \in y.dst, r \in y.src,
         r \in x.dst => r \in x.src
  PROVE  Threaded(b)
<1> DEFINE p == [j \in 1..3 |-> r]
           gp == <<x, y>>
<1>1. Len(gp) = 2 /\ DOMAIN gp = 1..2 /\ gp[1] = x /\ gp[2] = y
  OBVIOUS
<1>2. r \in Locations(b)
  BY <1>1, RepeatingIs
<1> HIDE DEF gp
<1>3. Threads(gp, p)
  <2>1. Passes(gp[2], p[2], p[2 + 1])
    BY <1>1 DEF Passes
  <2>2. \A j \in DOMAIN gp : \/ Passes(gp[j], p[j], p[j + 1])
                             \/ p[j + 1] = p[j] /\ p[j] \notin gp[j].dst
    BY <1>1 DEF Passes
  <2> QED
    BY <1>1, <2>1, <2>2 DEF Threads
<1>4. p \in [1..(2 + 1) -> Locations(b)] /\ Len(gp) = 2 /\ 2 \in Nat
  BY <1>1, <1>2
<1> HIDE DEF p
<1> QED
  BY <1>3, <1>4, PathThreads DEF gp

LEMMA ThreeThread ==
  ASSUME NEW b, NEW x, NEW y, NEW z, Repeating(b, <<x, y, z>>), NEW r,
         r \in z.dst, r \in z.src, r \in x.dst => r \in x.src, r \in y.dst => r \in y.src
  PROVE  Threaded(b)
<1> DEFINE p == [j \in 1..4 |-> r]
           gp == <<x, y, z>>
<1>1. Len(gp) = 3 /\ DOMAIN gp = 1..3 /\ gp[1] = x /\ gp[2] = y /\ gp[3] = z
  OBVIOUS
<1>2. r \in Locations(b)
  BY <1>1, RepeatingIs
<1> HIDE DEF gp
<1>3. Threads(gp, p)
  <2>1. Passes(gp[3], p[3], p[3 + 1])
    BY <1>1 DEF Passes
  <2>2. \A j \in DOMAIN gp : \/ Passes(gp[j], p[j], p[j + 1])
                             \/ p[j + 1] = p[j] /\ p[j] \notin gp[j].dst
    BY <1>1 DEF Passes
  <2> QED
    BY <1>1, <2>1, <2>2 DEF Threads
<1>4. p \in [1..(3 + 1) -> Locations(b)] /\ Len(gp) = 3 /\ 3 \in Nat
  BY <1>1, <1>2
<1> HIDE DEF p
<1> QED
  BY <1>3, <1>4, PathThreads DEF gp

\* What is stored and loaded again goes through memory.
LEMMA ThroughMemory ==
  ASSUME NEW b, NEW A, NEW a \in A, Repeating(b, <<Ldr(A), Str(A)>>)
  PROVE  Threaded(b)
<1> DEFINE e == <<"mem", 0>>
           p == <<e, a, e>>
           gp == <<Ldr(A), Str(A)>>
<1>1. /\ e \in Ldr(A).src /\ a \in Ldr(A).dst /\ a \in Str(A).src /\ e \in Str(A).dst
  BY Single DEF Ldr, Str, Op
<1>2. Len(gp) = 2 /\ DOMAIN gp = 1..2 /\ gp[1] = Ldr(A) /\ gp[2] = Str(A)
  OBVIOUS
<1>3. a \in Locations(b) /\ e \in Locations(b)
  BY <1>1, <1>2, RepeatingIs
<1>4. DOMAIN p = 1..3 /\ p[1] = e /\ p[2] = a /\ p[3] = e /\ p = [j \in 1..3 |-> p[j]]
  OBVIOUS
<1> HIDE DEF gp, p, e
<1>5. Threads(gp, p)
  <2>1. Passes(gp[1], p[1], p[1 + 1]) /\ Passes(gp[2], p[2], p[2 + 1])
    BY <1>1, <1>2, <1>4 DEF Passes
  <2> QED
    BY <1>2, <1>4, <2>1 DEF Threads
<1>6. p \in [1..(2 + 1) -> Locations(b)] /\ Len(gp) = 2 /\ 2 \in Nat
  BY <1>2, <1>3, <1>4
<1> QED
  BY <1>5, <1>6, PathThreads DEF gp

\* A ceiling of the group is one of the loop, of few steps.
Shallow(b) == 4 \in DOMAIN b.body /\ \E k \in 1..3 : Bounded(b, k)

LEMMA GroupCeiling ==
  ASSUME NEW b, NEW gp, Repeating(b, gp), NEW m \in Nat, Len(gp) = m, DOMAIN gp = 1..m,
         NEW k \in 1..3, NEW c, c \in [1..(m + 1) -> [Locations(b) -> 0..k]],
         c[m + 1] = c[1], \A j \in 1..m : Raises(gp[j], c[j], c[j + 1])
                                          /\ \A s \in gp[j].src : c[j][s] < k
  PROVE  Shallow(b)
<1>1. 1 \in DOMAIN b.body /\ 4 \in DOMAIN b.body /\ \A g \in DOMAIN b.body : b.body[g] = gp
  BY RepeatingIs
<1>2. c \in Ceilings(b, k)
  BY <1>1 DEF Ceilings
<1>3. CeilingOf(b, c, k)
  BY <1>1 DEF CeilingOf
<1> QED
  BY <1>1, <1>2, <1>3 DEF Shallow, Bounded

LEMMA OneCeiling ==
  ASSUME NEW b, NEW x, Repeating(b, <<x>>), x.src \cap x.dst = {}
  PROVE  Shallow(b)
<1> DEFINE L == Locations(b)
           w == [r \in L |-> IF r \in x.dst THEN 1 ELSE 0]
           c == [j \in 1..2 |-> w]
<1>1. x.src \subseteq L
  BY RepeatingIs
<1>2. w \in [L -> 0..2] /\ DOMAIN w = L
  OBVIOUS
<1>3. Raises(x, w, w) /\ \A s \in x.src : w[s] < 2
  BY <1>1 DEF Raises
<1> HIDE DEF w
<1>4. c \in [1..(1 + 1) -> [L -> 0..2]] /\ c[1] = w /\ c[1 + 1] = w
  BY <1>2
<1>5. \A j \in 1..1 : Raises(<<x>>[j], c[j], c[j + 1]) /\ \A s \in <<x>>[j].src : c[j][s] < 2
  BY <1>3, <1>4
<1>6. Len(<<x>>) = 1 /\ DOMAIN <<x>> = 1..1 /\ 1 \in Nat /\ 2 \in 1..3
  OBVIOUS
<1> HIDE DEF c
<1> QED
  BY <1>4, <1>5, <1>6, GroupCeiling

LEMMA LoadedCeiling ==
  ASSUME NEW b, NEW A, NEW B \in SUBSET A, Mem \cap A = {},
         Repeating(b, <<Ldr(A), Rmw(B)>>)
  PROVE  Shallow(b)
<1> DEFINE L == Locations(b)
           u == [r \in L |-> IF r \in A THEN 2 ELSE 0]
           v == [r \in L |-> IF r \in A THEN 1 ELSE 0]
           c == <<u, v, u>>
           gp == <<Ldr(A), Rmw(B)>>
<1>1. /\ Ldr(A).src = Mem /\ Ldr(A).dst = A /\ Rmw(B).src = B /\ Rmw(B).dst = B
  BY DEF Ldr, Rmw, Op
<1>2. Len(gp) = 2 /\ DOMAIN gp = 1..2 /\ gp[1] = Ldr(A) /\ gp[2] = Rmw(B)
  OBVIOUS
<1>3. Mem \subseteq L /\ B \subseteq L
  BY <1>1, <1>2, RepeatingIs
<1>4. /\ u \in [L -> 0..3] /\ v \in [L -> 0..3] /\ DOMAIN u = L /\ DOMAIN v = L
  OBVIOUS
<1>5. /\ Raises(Ldr(A), u, v) /\ \A s \in Ldr(A).src : u[s] < 3
      /\ Raises(Rmw(B), v, u) /\ \A s \in Rmw(B).src : v[s] < 3
  BY <1>1, <1>3 DEF Raises
<1> HIDE DEF u, v, gp
<1>6. c \in [1..3 -> [L -> 0..3]] /\ c[1] = u /\ c[2] = v /\ c[3] = u
  BY <1>4
<1> HIDE DEF c
<1>7. \A j \in 1..2 : Raises(gp[j], c[j], c[j + 1]) /\ \A s \in gp[j].src : c[j][s] < 3
  BY <1>2, <1>5, <1>6
<1> QED
  BY <1>2, <1>6, <1>7, GroupCeiling, 2 \in Nat, 2 + 1 = 3, 3 \in 1..3 DEF gp

\* A lane of a register inserted, and the register loaded; a lane inserted
\* from a register after both have been loaded.
LEMMA InsertedCeiling ==
  ASSUME NEW b, Repeating(b, <<Ins(V(0), X(0)), Ldr(V(0))>>)
  PROVE  Shallow(b)
<1> DEFINE L == Locations(b)
           e == <<"v", 0>>
           u == [r \in L |-> IF r = e THEN 1 ELSE 0]
           v == [r \in L |-> IF r = e THEN 2 ELSE 0]
           c == <<u, v, u>>
           x == Ins(V(0), X(0))
           y == Ldr(V(0))
           gp == <<x, y>>
<1>1. /\ x.src = {e, <<"x", 0>>} /\ x.dst = {e}
      /\ y.src = {<<"mem", 0>>} /\ y.dst = {e}
  BY Single DEF Ldr, Ins, Op
<1>2. Len(gp) = 2 /\ DOMAIN gp = 1..2 /\ gp[1] = x /\ gp[2] = y
  OBVIOUS
<1> HIDE DEF x, y
<1>3. x.src \subseteq L /\ y.src \subseteq L
  BY <1>2, RepeatingIs DEF x, y
<1>4. /\ u \in [L -> 0..3] /\ v \in [L -> 0..3] /\ DOMAIN u = L /\ DOMAIN v = L
  OBVIOUS
<1>5. /\ Raises(x, u, v) /\ \A s \in x.src : u[s] < 3
      /\ Raises(y, v, u) /\ \A s \in y.src : v[s] < 3
  BY <1>1, <1>3 DEF Raises
<1> HIDE DEF u, v, gp
<1>6. c \in [1..(2 + 1) -> [L -> 0..3]] /\ c[1] = u /\ c[2] = v /\ c[3] = u
  BY <1>4
<1> HIDE DEF c
<1>7. \A j \in 1..2 : Raises(gp[j], c[j], c[j + 1]) /\ \A s \in gp[j].src : c[j][s] < 3
  BY <1>2, <1>5, <1>6
<1>8. c[2 + 1] = c[1] /\ 2 \in Nat /\ 3 \in 1..3
  BY <1>6
<1> QED
  BY <1>2, <1>6, <1>7, <1>8, GroupCeiling DEF gp, x, y

LEMMA LoadedLaneCeiling ==
  ASSUME NEW b, Repeating(b, <<Ldr(V(0)), Ldr(X(0)), Ins(V(0), X(0))>>)
  PROVE  Shallow(b)
<1> DEFINE L == Locations(b)
           e == <<"v", 0>>
           d == <<"x", 0>>
           u == [r \in L |-> IF r = e THEN 2 ELSE IF r = d THEN 1 ELSE 0]
           v == [r \in L |-> IF r = e \/ r = d THEN 1 ELSE 0]
           c == <<u, v, v, u>>
           x == Ldr(V(0))
           y == Ldr(X(0))
           z == Ins(V(0), X(0))
           gp == <<x, y, z>>
<1>1. /\ x.src = {<<"mem", 0>>} /\ x.dst = {e}
      /\ y.src = {<<"mem", 0>>} /\ y.dst = {d}
      /\ z.src = {e, d} /\ z.dst = {e}
  BY Single DEF Ldr, Ins, Op
<1>2. Len(gp) = 3 /\ DOMAIN gp = 1..3 /\ gp[1] = x /\ gp[2] = y /\ gp[3] = z
  OBVIOUS
<1> HIDE DEF x, y, z
<1>3. x.src \subseteq L /\ y.src \subseteq L /\ z.src \subseteq L
  <2>1. \A j \in DOMAIN gp : gp[j].src \subseteq L
    BY RepeatingIs DEF x, y, z
  <2> QED
    BY <1>2, <2>1
<1>4. /\ u \in [L -> 0..3] /\ v \in [L -> 0..3] /\ DOMAIN u = L /\ DOMAIN v = L
  OBVIOUS
<1>5. /\ Raises(x, u, v) /\ \A s \in x.src : u[s] < 3
      /\ Raises(y, v, v) /\ \A s \in y.src : v[s] < 3
      /\ Raises(z, v, u) /\ \A s \in z.src : v[s] < 3
  BY <1>1, <1>3 DEF Raises
<1> HIDE DEF u, v, gp
<1>6. /\ c \in [1..(3 + 1) -> [L -> 0..3]]
      /\ c[1] = u /\ c[2] = v /\ c[3] = v /\ c[4] = u
  BY <1>4
<1> HIDE DEF c
<1>7. \A j \in 1..3 : Raises(gp[j], c[j], c[j + 1]) /\ \A s \in gp[j].src : c[j][s] < 3
  BY <1>2, <1>5, <1>6
<1>8. c[3 + 1] = c[1] /\ 3 \in Nat /\ 3 \in 1..3
  BY <1>6
<1> QED
  BY <1>2, <1>6, <1>7, <1>8, GroupCeiling DEF gp, x, y, z

\* The loops that the macros repeat.
LEMMA MacroRepeats ==
  ASSUME NEW gp
  PROVE  /\ Repeating(LATENCY(gp), gp) /\ Repeating(LATENCY_MEM(gp), gp)
         /\ Repeating(V7Latency(gp), gp) /\ Repeating(V7LatencyMem(gp), gp)
BY DEF Repeating, LATENCY, LATENCY_MEM, A64, V7Latency, V7LatencyMem, V7

LEMMA FixedRepeats ==
  ASSUME NEW x, NEW y
  PROVE  /\ Unroll(20, <<Fixed(x)>>) = Same(20, <<x>>)
         /\ Unroll(10, <<Fixed(x)>>) = Same(10, <<x>>)
         /\ Unroll(10, <<Fixed(x), Fixed(y)>>) = Same(10, <<x, y>>)
<1>1. ASSUME NEW n \in 1..20 PROVE Unroll(n, <<Fixed(x)>>) = Same(n, <<x>>)
  <2>1. ASSUME NEW k \in 1..n
        PROVE  [j \in DOMAIN <<Fixed(x)>> |-> <<Fixed(x)>>[j][k - 1]] = <<x>>
    <3>1. k - 1 \in Reg
      BY DEF Reg
    <3>2. Fixed(x)[k - 1] = x
      BY <3>1 DEF Fixed
    <3> QED
      BY <3>2
  <2> QED
    BY <2>1 DEF Unroll, Same
<1>2. ASSUME NEW n \in 1..20 PROVE Unroll(n, <<Fixed(x), Fixed(y)>>) = Same(n, <<x, y>>)
  <2>1. ASSUME NEW k \in 1..n
        PROVE  [j \in DOMAIN <<Fixed(x), Fixed(y)>> |-> <<Fixed(x), Fixed(y)>>[j][k - 1]]
                 = <<x, y>>
    <3>1. k - 1 \in Reg
      BY DEF Reg
    <3>2. Fixed(x)[k - 1] = x /\ Fixed(y)[k - 1] = y
      BY <3>1 DEF Fixed
    <3> QED
      BY <3>2
  <2> QED
    BY <2>1 DEF Unroll, Same
<1> QED
  BY <1>1, <1>2, 10 \in 1..20, 20 \in 1..20

------------------------------------------------------------------------------
\* A throughput loop gives every location a home: the group that has it for
\* itself, 0 if it is written and never read, -1 if it is read and never
\* written.  The groups of a loop whose instructions stay at home share nothing.
Homed(h, S, A) == \A r \in S : h[r[1]][r[2]] \in A
Stays(h, g, i) == Homed(h, i.dst, {0, g}) /\ Homed(h, i.src, {-1, g})

LEMMA StaysApart ==
  ASSUME NEW b, NEW h, NEW n \in Nat, DOMAIN b.body = 1..n,
         \A g \in DOMAIN b.body : \A j \in DOMAIN b.body[g] : Stays(h, g, b.body[g][j])
  PROVE  ~Crosses(b)
<1> SUFFICES ASSUME NEW g \in DOMAIN b.body, NEW j \in DOMAIN b.body[g],
                    CrossesAt(b, g, j)
             PROVE  FALSE
  BY DEF Crosses
<1>1. PICK r \in b.body[g][j].src : \E k \in 1..(g - 1) :
        \E l \in DOMAIN b.body[k] : r \in b.body[k][l].dst
  BY DEF CrossesAt
<1>2. PICK k \in 1..(g - 1) : \E l \in DOMAIN b.body[k] : r \in b.body[k][l].dst
  BY <1>1
<1>3. k \in DOMAIN b.body /\ k # g /\ k \in Nat \ {0} /\ g \in Nat \ {0}
  OBVIOUS
<1>4. h[r[1]][r[2]] \in {-1, g} /\ h[r[1]][r[2]] \in {0, k}
  BY <1>2, <1>3 DEF Stays, Homed
<1> QED
  BY <1>3, <1>4

\* Where a set of locations is at home.
LEMMA HomedIs ==
  ASSUME NEW h, NEW A
  PROVE  /\ \A i : /\ Homed(h, V(i), A) <=> h.v[i] \in A
                   /\ Homed(h, X(i), A) <=> h.x[i] \in A
                   /\ Homed(h, D(i), A) <=> h.d[i] \in A
                   /\ Homed(h, R(i), A) <=> h.r[i] \in A
                   /\ Homed(h, Q(i), A) <=> h.d[2 * i] \in A /\ h.d[2 * i + 1] \in A
         /\ Homed(h, Mem, A) <=> h.mem[0] \in A
         /\ Homed(h, {}, A)
         /\ \A S, T : Homed(h, S \cup T, A) <=> Homed(h, S, A) /\ Homed(h, T, A)
         /\ \A a, c \in Int : (\A i \in a..c : h.v[i] \in A) => Homed(h, Vs(a, c), A)
<1>0. /\ \A k, i : Homed(h, {<<k, i>>}, A) <=> h[k][i] \in A
      /\ \A k, i, j : Homed(h, {<<k, i>>, <<k, j>>}, A) <=> h[k][i] \in A /\ h[k][j] \in A
  BY DEF Homed
<1>1. ASSUME NEW i
      PROVE  /\ Homed(h, V(i), A) <=> h.v[i] \in A
             /\ Homed(h, X(i), A) <=> h.x[i] \in A
             /\ Homed(h, D(i), A) <=> h.d[i] \in A
             /\ Homed(h, R(i), A) <=> h.r[i] \in A
  BY <1>0 DEF V, X, D, R
<1>2. ASSUME NEW i PROVE Homed(h, Q(i), A) <=> h.d[2 * i] \in A /\ h.d[2 * i + 1] \in A
  <2>1. Q(i) = {<<"d", 2 * i>>, <<"d", 2 * i + 1>>}
    BY Single
  <2> QED
    BY <1>0, <2>1, Zenon
<1>3. Homed(h, Mem, A) <=> h.mem[0] \in A
  BY <1>0 DEF Mem
<1>4. \A a, c \in Int : (\A i \in a..c : h.v[i] \in A) => Homed(h, Vs(a, c), A)
  <2> SUFFICES ASSUME NEW a \in Int, NEW c \in Int, \A i \in a..c : h.v[i] \in A,
                      NEW r \in Vs(a, c)
               PROVE  h[r[1]][r[2]] \in A
    BY DEF Homed
  <2>1. PICK i \in a..c : r = <<"v", i>>
    BY Blocks
  <2> QED
    BY <2>1
<1>5. Homed(h, {}, A) /\ \A S, T : Homed(h, S \cup T, A) <=> Homed(h, S, A) /\ Homed(h, T, A)
  BY DEF Homed
<1> QED
  BY <1>1, <1>2, <1>3, <1>4, <1>5

\* Which instructions stay at home.
LEMMA StaysIs ==
  ASSUME NEW h, NEW g \in Nat \ {0}
  PROVE  /\ \A r : Homed(h, r, {0, g}) /\ Homed(h, Mem, {-1, g}) => Stays(h, g, Ldr(r))
         /\ \A r : Homed(h, r, {-1, g}) /\ Homed(h, Mem, {0, g}) => Stays(h, g, Str(r))
         /\ \A r : Homed(h, r, {g}) => Stays(h, g, Rmw(r))
         /\ \A r, s : Homed(h, r, {0, g}) /\ Homed(h, s, {-1, g}) => Stays(h, g, Move(r, s))
         /\ \A r, s : Homed(h, r, {g}) /\ Homed(h, s, {-1, g}) => Stays(h, g, Ins(r, s))
         /\ \A r, s : Homed(h, r, {g}) /\ Homed(h, s, {-1, g}) => Stays(h, g, Acc(r, s))
         /\ Stays(h, g, Nop)
BY DEF Stays, Homed, Ldr, Str, Rmw, Move, Ins, Acc, Nop, Op

\* The callbacks of an unrolled loop, for the n registers from o on.
Keep(h, f, n, o)     == \A k \in 1..n : Stays(h, k, f[k - 1 + o])
Keeping(h, cb, n, o) == \A j \in DOMAIN cb : Keep(h, cb[j], n, o)

LEMMA KeepingIs ==
  ASSUME NEW h, NEW n, NEW o
  PROVE  /\ \A f : Keep(h, f, n, o) => Keeping(h, <<f>>, n, o)
         /\ \A f, g : Keep(h, f, n, o) /\ Keep(h, g, n, o) => Keeping(h, <<f, g>>, n, o)
         /\ \A f, g, e : Keep(h, f, n, o) /\ Keep(h, g, n, o) /\ Keep(h, e, n, o)
                           => Keeping(h, <<f, g, e>>, n, o)
BY DEF Keeping

LEMMA UnrolledApart ==
  ASSUME NEW b, NEW n \in Nat, NEW cb, NEW h
  PROVE  /\ b.body = Unroll(n, cb) /\ Keeping(h, cb, n, 0) => ~Crosses(b)
         /\ b.body = UnrollStart6(n, cb) /\ Keeping(h, cb, n, 6) => ~Crosses(b)
<1>1. ASSUME b.body = Unroll(n, cb), Keeping(h, cb, n, 0) PROVE ~Crosses(b)
  <2>1. DOMAIN b.body = 1..n
    BY <1>1 DEF Unroll
  <2>2. ASSUME NEW g \in 1..n, NEW j \in DOMAIN b.body[g] PROVE Stays(h, g, b.body[g][j])
    <3>1. j \in DOMAIN cb /\ b.body[g][j] = cb[j][g - 1]
      BY <1>1 DEF Unroll
    <3>2. Stays(h, g, cb[j][g - 1 + 0])
      BY <1>1, <3>1 DEF Keeping, Keep
    <3> QED
      BY <3>1, <3>2, g - 1 + 0 = g - 1
  <2> QED
    BY <2>1, <2>2, StaysApart
<1>2. ASSUME b.body = UnrollStart6(n, cb), Keeping(h, cb, n, 6) PROVE ~Crosses(b)
  <2>1. DOMAIN b.body = 1..n
    BY <1>2 DEF UnrollStart6
  <2>2. ASSUME NEW g \in 1..n, NEW j \in DOMAIN b.body[g] PROVE Stays(h, g, b.body[g][j])
    <3>1. j \in DOMAIN cb /\ b.body[g][j] = cb[j][g + 5]
      BY <1>2 DEF UnrollStart6
    <3>2. Stays(h, g, cb[j][g - 1 + 6])
      BY <1>2, <3>1 DEF Keeping, Keep
    <3> QED
      BY <3>1, <3>2, g - 1 + 6 = g + 5
  <2> QED
    BY <2>1, <2>2, StaysApart
<1> QED
  BY <1>1, <1>2

\* A callback that ignores the number writes only what nobody reads, and reads
\* only what nobody writes.
LEMMA FixedKeeps ==
  ASSUME NEW h, NEW n \in 1..20, NEW o \in {0, 6}, NEW x,
         Homed(h, x.dst, {0}), Homed(h, x.src, {-1})
  PROVE  Keep(h, Fixed(x), n, o)
BY DEF Keep, Fixed, Reg, Stays, Homed

\* The callbacks of AArch64, LoongArch and x86, at home in the first n vector registers.
LEMMA VKeeps ==
  ASSUME NEW h, NEW n \in 1..20, \A i \in 0..(n - 1) : h.v[i] = i + 1
  PROVE  /\ Keep(h, RmwV, n, 0)
         /\ h.mem[0] = -1 => Keep(h, LdrV, n, 0)
         /\ h.mem[0] = 0 => Keep(h, StrV, n, 0)
         /\ \A s : Homed(h, s, {-1}) => /\ Keep(h, MoveV(s), n, 0)
                                        /\ Keep(h, InsV(s), n, 0)
                                        /\ Keep(h, AccV(s), n, 0)
         /\ h.mem[0] = -1 /\ (\A i \in 0..(n - 1) : h.x[i] = 0) => Keep(h, LdrX, n, 0)
<1>0. ASSUME NEW k \in 1..n
      PROVE  /\ k \in Nat \ {0} /\ k - 1 + 0 = k - 1 /\ k - 1 \in Reg /\ k - 1 \in 0..(n - 1)
             /\ Homed(h, V(k - 1), {k}) /\ Homed(h, V(k - 1), {0, k})
             /\ Homed(h, V(k - 1), {-1, k})
  <2>1. k \in Nat \ {0} /\ k - 1 + 0 = k - 1 /\ k - 1 \in Reg /\ k - 1 \in 0..(n - 1)
    BY DEF Reg
  <2>2. h.v[k - 1] = k
    BY <2>1
  <2> QED
    BY <2>1, <2>2, HomedIs
<1>1. Keep(h, RmwV, n, 0)
  BY <1>0, StaysIs DEF Keep, RmwV
<1>2. h.mem[0] = -1 => Keep(h, LdrV, n, 0)
  BY <1>0, StaysIs, HomedIs DEF Keep, LdrV
<1>3. h.mem[0] = 0 => Keep(h, StrV, n, 0)
  BY <1>0, StaysIs, HomedIs, ZenonT(40) DEF Keep, StrV
<1>4. ASSUME NEW s, Homed(h, s, {-1})
      PROVE  Keep(h, MoveV(s), n, 0) /\ Keep(h, InsV(s), n, 0) /\ Keep(h, AccV(s), n, 0)
  <2>1. \A k \in 1..n : Homed(h, s, {-1, k})
    BY <1>4 DEF Homed
  <2> QED
    BY <1>0, <2>1, StaysIs DEF Keep, MoveV, InsV, AccV
<1>5. h.mem[0] = -1 /\ (\A i \in 0..(n - 1) : h.x[i] = 0) => Keep(h, LdrX, n, 0)
  <2> SUFFICES ASSUME h.mem[0] = -1, \A i \in 0..(n - 1) : h.x[i] = 0, NEW k \in 1..n
               PROVE  Stays(h, k, LdrX[k - 1 + 0])
    BY DEF Keep
  <2>1. Homed(h, X(k - 1), {0, k}) /\ Homed(h, Mem, {-1, k})
    <3>1. h.x[k - 1] \in {0, k} /\ h.mem[0] \in {-1, k}
      BY <1>0
    <3> QED
      BY <3>1, HomedIs
  <2>2. Stays(h, k, Ldr(X(k - 1)))
    BY <1>0, <2>1, StaysIs
  <2> QED
    BY <1>0, <2>2 DEF LdrX
<1> QED
  BY <1>1, <1>2, <1>3, <1>4, <1>5

\* What each instruction reads.
LEMMA Reads ==
  /\ \A r : Ldr(r).src = Mem
  /\ \A r : Rmw(r).src = r
  /\ \A r : Str(r).src = r
  /\ \A r, s : Acc(r, s).src = r \cup s
  /\ \A r, s : Move(r, s).src = s
  /\ \A r, s : Ins(r, s).src = r \cup s
  /\ Nop.src = {}
BY DEF Ldr, Rmw, Str, Acc, Move, Ins, Nop, Op

\* The groups of the latency loops: of AArch64, LoongArch and x86, and of ARMv7.
LEMMA VShapes ==
  ASSUME NEW b
  PROVE  /\ Repeating(b, <<Move(V(0), V(0))>>) => Threaded(b)
         /\ Repeating(b, <<Rmw(V(0))>>) => Threaded(b)
         /\ Repeating(b, <<Ins(V(0), X(0))>>) => Threaded(b)
         /\ Repeating(b, <<Ins(V(0), X(0)), Rmw(V(1))>>) => Threaded(b)
         /\ Repeating(b, <<Move(V(0), X(0)), Rmw(V(1))>>) => Threaded(b)
         /\ Repeating(b, <<Move(V(0), V(0)), Rmw(V(0))>>) => Threaded(b)
         /\ Repeating(b, <<Ldr(V(0)), Rmw(V(1))>>) => Threaded(b)
         /\ Repeating(b, <<Ldr(X(0)), Rmw(V(1))>>) => Threaded(b)
         /\ Repeating(b, <<Str(V(0)), Rmw(V(0))>>) => Threaded(b)
         /\ Repeating(b, <<Ins(V(1), X(0)), Rmw(V(1))>>) => Threaded(b)
         /\ Repeating(b, <<Rmw(V(0)), Rmw(V(0))>>) => Threaded(b)
         /\ Repeating(b, <<Rmw(V(0)), Rmw(V(0)), Rmw(V(0))>>) => Threaded(b)
         /\ Repeating(b, <<Ldr(X(0)), Ins(V(1), X(0)), Rmw(V(1))>>) => Threaded(b)
         /\ Repeating(b, <<Ldr(V(0)), Str(V(0))>>) => Threaded(b)
         /\ Repeating(b, <<Nop>>) => Shallow(b)
         /\ Repeating(b, <<Ldr(V(0))>>) => Shallow(b)
         /\ Repeating(b, <<Ldr(Vs(0, 1))>>) => Shallow(b)
         /\ Repeating(b, <<Str(V(0))>>) => Shallow(b)
         /\ Repeating(b, <<Ldr(V(0)), Rmw(V(0))>>) => Shallow(b)
         /\ Repeating(b, <<Ldr(V(1)), Rmw(V(1))>>) => Shallow(b)
         /\ Repeating(b, <<Ldr(Vs(0, 1)), Rmw(V(1))>>) => Shallow(b)
         /\ Repeating(b, <<Ins(V(0), X(0)), Ldr(V(0))>>) => Shallow(b)
         /\ Repeating(b, <<Ldr(V(0)), Ldr(X(0)), Ins(V(0), X(0))>>) => Shallow(b)
<1>1. ASSUME Repeating(b, <<Move(V(0), V(0))>>) PROVE Threaded(b)
  <2>1. <<"v", 0>> \in Move(V(0), V(0)).dst /\ <<"v", 0>> \in Move(V(0), V(0)).src
    BY Writes, Reads, Single
  <2> QED
    BY <1>1, <2>1, OneThreads
<1>2. ASSUME Repeating(b, <<Rmw(V(0))>>) PROVE Threaded(b)
  <2>1. <<"v", 0>> \in Rmw(V(0)).dst /\ <<"v", 0>> \in Rmw(V(0)).src
    BY Writes, Reads, Single
  <2> QED
    BY <1>2, <2>1, OneThreads
<1>3. ASSUME Repeating(b, <<Ins(V(0), X(0))>>) PROVE Threaded(b)
  <2>1. <<"v", 0>> \in Ins(V(0), X(0)).dst /\ <<"v", 0>> \in Ins(V(0), X(0)).src
    BY Writes, Reads, Single
  <2> QED
    BY <1>3, <2>1, OneThreads
<1>4. ASSUME Repeating(b, <<Ins(V(0), X(0)), Rmw(V(1))>>) PROVE Threaded(b)
  <2>1. /\ <<"v", 1>> \in Rmw(V(1)).dst /\ <<"v", 1>> \in Rmw(V(1)).src
        /\ <<"v", 1>> \in Ins(V(0), X(0)).dst => <<"v", 1>> \in Ins(V(0), X(0)).src
    BY Writes, Reads, Single
  <2> QED
    BY <1>4, <2>1, TwoThread
<1>5. ASSUME Repeating(b, <<Move(V(0), X(0)), Rmw(V(1))>>) PROVE Threaded(b)
  <2>1. /\ <<"v", 1>> \in Rmw(V(1)).dst /\ <<"v", 1>> \in Rmw(V(1)).src
        /\ <<"v", 1>> \in Move(V(0), X(0)).dst => <<"v", 1>> \in Move(V(0), X(0)).src
    BY Writes, Reads, Single
  <2> QED
    BY <1>5, <2>1, TwoThread
<1>6. ASSUME Repeating(b, <<Move(V(0), V(0)), Rmw(V(0))>>) PROVE Threaded(b)
  <2>1. /\ <<"v", 0>> \in Rmw(V(0)).dst /\ <<"v", 0>> \in Rmw(V(0)).src
        /\ <<"v", 0>> \in Move(V(0), V(0)).dst => <<"v", 0>> \in Move(V(0), V(0)).src
    BY Writes, Reads, Single
  <2> QED
    BY <1>6, <2>1, TwoThread
<1>7. ASSUME Repeating(b, <<Ldr(V(0)), Rmw(V(1))>>) PROVE Threaded(b)
  <2>1. /\ <<"v", 1>> \in Rmw(V(1)).dst /\ <<"v", 1>> \in Rmw(V(1)).src
        /\ <<"v", 1>> \in Ldr(V(0)).dst => <<"v", 1>> \in Ldr(V(0)).src
    BY Writes, Reads, Single
  <2> QED
    BY <1>7, <2>1, TwoThread
<1>8. ASSUME Repeating(b, <<Ldr(X(0)), Rmw(V(1))>>) PROVE Threaded(b)
  <2>1. /\ <<"v", 1>> \in Rmw(V(1)).dst /\ <<"v", 1>> \in Rmw(V(1)).src
        /\ <<"v", 1>> \in Ldr(X(0)).dst => <<"v", 1>> \in Ldr(X(0)).src
    BY Writes, Reads, Single
  <2> QED
    BY <1>8, <2>1, TwoThread
<1>9. ASSUME Repeating(b, <<Str(V(0)), Rmw(V(0))>>) PROVE Threaded(b)
  <2>1. /\ <<"v", 0>> \in Rmw(V(0)).dst /\ <<"v", 0>> \in Rmw(V(0)).src
        /\ <<"v", 0>> \in Str(V(0)).dst => <<"v", 0>> \in Str(V(0)).src
    BY Writes, Reads, Single
  <2> QED
    BY <1>9, <2>1, TwoThread
<1>10. ASSUME Repeating(b, <<Ins(V(1), X(0)), Rmw(V(1))>>) PROVE Threaded(b)
  <2>1. /\ <<"v", 1>> \in Rmw(V(1)).dst /\ <<"v", 1>> \in Rmw(V(1)).src
        /\ <<"v", 1>> \in Ins(V(1), X(0)).dst => <<"v", 1>> \in Ins(V(1), X(0)).src
    BY Writes, Reads, Single
  <2> QED
    BY <1>10, <2>1, TwoThread
<1>11. ASSUME Repeating(b, <<Rmw(V(0)), Rmw(V(0))>>) PROVE Threaded(b)
  <2>1. /\ <<"v", 0>> \in Rmw(V(0)).dst /\ <<"v", 0>> \in Rmw(V(0)).src
        /\ <<"v", 0>> \in Rmw(V(0)).dst => <<"v", 0>> \in Rmw(V(0)).src
    BY Writes, Reads, Single
  <2> QED
    BY <1>11, <2>1, TwoThread
<1>12. ASSUME Repeating(b, <<Rmw(V(0)), Rmw(V(0)), Rmw(V(0))>>) PROVE Threaded(b)
  <2>1. /\ <<"v", 0>> \in Rmw(V(0)).dst /\ <<"v", 0>> \in Rmw(V(0)).src
        /\ <<"v", 0>> \in Rmw(V(0)).dst => <<"v", 0>> \in Rmw(V(0)).src
        /\ <<"v", 0>> \in Rmw(V(0)).dst => <<"v", 0>> \in Rmw(V(0)).src
    BY Writes, Reads, Single
  <2> QED
    BY <1>12, <2>1, ThreeThread
<1>13. ASSUME Repeating(b, <<Ldr(X(0)), Ins(V(1), X(0)), Rmw(V(1))>>) PROVE Threaded(b)
  <2>1. /\ <<"v", 1>> \in Rmw(V(1)).dst /\ <<"v", 1>> \in Rmw(V(1)).src
        /\ <<"v", 1>> \in Ldr(X(0)).dst => <<"v", 1>> \in Ldr(X(0)).src
        /\ <<"v", 1>> \in Ins(V(1), X(0)).dst => <<"v", 1>> \in Ins(V(1), X(0)).src
    BY Writes, Reads, Single
  <2> QED
    BY <1>13, <2>1, ThreeThread
<1>14. ASSUME Repeating(b, <<Ldr(V(0)), Str(V(0))>>) PROVE Threaded(b)
  <2>1. <<"v", 0>> \in V(0)
    BY Single
  <2> QED
    BY <1>14, <2>1, ThroughMemory
<1>15. ASSUME Repeating(b, <<Nop>>) PROVE Shallow(b)
  <2>1. Nop.src \cap Nop.dst = {}
    BY Writes, Reads, Single, Blocks
  <2> QED
    BY <1>15, <2>1, OneCeiling
<1>16. ASSUME Repeating(b, <<Ldr(V(0))>>) PROVE Shallow(b)
  <2>1. Ldr(V(0)).src \cap Ldr(V(0)).dst = {}
    BY Writes, Reads, Single, Blocks
  <2> QED
    BY <1>16, <2>1, OneCeiling
<1>17. ASSUME Repeating(b, <<Ldr(Vs(0, 1))>>) PROVE Shallow(b)
  <2>1. Ldr(Vs(0, 1)).src \cap Ldr(Vs(0, 1)).dst = {}
    BY Writes, Reads, Single, Blocks
  <2> QED
    BY <1>17, <2>1, OneCeiling
<1>18. ASSUME Repeating(b, <<Str(V(0))>>) PROVE Shallow(b)
  <2>1. Str(V(0)).src \cap Str(V(0)).dst = {}
    BY Writes, Reads, Single, Blocks
  <2> QED
    BY <1>18, <2>1, OneCeiling
<1>19. ASSUME Repeating(b, <<Ldr(V(0)), Rmw(V(0))>>) PROVE Shallow(b)
  <2>1. V(0) \in SUBSET V(0) /\ Mem \cap V(0) = {}
    BY Single, Blocks
  <2> QED
    BY <1>19, <2>1, LoadedCeiling
<1>20. ASSUME Repeating(b, <<Ldr(V(1)), Rmw(V(1))>>) PROVE Shallow(b)
  <2>1. V(1) \in SUBSET V(1) /\ Mem \cap V(1) = {}
    BY Single, Blocks
  <2> QED
    BY <1>20, <2>1, LoadedCeiling
<1>21. ASSUME Repeating(b, <<Ldr(Vs(0, 1)), Rmw(V(1))>>) PROVE Shallow(b)
  <2>1. V(1) \in SUBSET Vs(0, 1) /\ Mem \cap Vs(0, 1) = {}
    BY Single, Blocks
  <2> QED
    BY <1>21, <2>1, LoadedCeiling
<1>22. ASSUME Repeating(b, <<Ins(V(0), X(0)), Ldr(V(0))>>) PROVE Shallow(b)
  BY <1>22, InsertedCeiling
<1>23. ASSUME Repeating(b, <<Ldr(V(0)), Ldr(X(0)), Ins(V(0), X(0))>>) PROVE Shallow(b)
  BY <1>23, LoadedLaneCeiling
<1> QED
  BY <1>1, <1>2, <1>3, <1>4, <1>5, <1>6, <1>7, <1>8, <1>9, <1>10, <1>11, <1>12, <1>13, <1>14,
     <1>15, <1>16, <1>17, <1>18, <1>19, <1>20, <1>21, <1>22, <1>23

LEMMA DShapes ==
  ASSUME NEW b
  PROVE  /\ Repeating(b, <<Rmw(D(0))>>) => Threaded(b)
         /\ Repeating(b, <<Rmw(Q(0))>>) => Threaded(b)
         /\ Repeating(b, <<Rmw(R(1))>>) => Threaded(b)
         /\ Repeating(b, <<Acc(Q(1), D(0))>>) => Threaded(b)
         /\ Repeating(b, <<Move(Q(0), D(0))>>) => Threaded(b)
         /\ Repeating(b, <<Acc(Q(1), Q(0))>>) => Threaded(b)
         /\ Repeating(b, <<Acc(D(1), D(0))>>) => Threaded(b)
         /\ Repeating(b, <<Ldr(D(0)), Acc(Q(1), Q(0))>>) => Threaded(b)
         /\ Repeating(b, <<Ldr(D(0)), Rmw(Q(0))>>) => Threaded(b)
         /\ Repeating(b, <<Ldr(D(0)), Str(D(0))>>) => Threaded(b)
         /\ Repeating(b, <<Ldr(D(0))>>) => Shallow(b)
         /\ Repeating(b, <<Ldr(Q(0))>>) => Shallow(b)
         /\ Repeating(b, <<Str(D(0))>>) => Shallow(b)
         /\ Repeating(b, <<Ldr(D(0)), Rmw(D(0))>>) => Shallow(b)
         /\ Repeating(b, <<Ldr(Q(0)), Rmw(Q(0))>>) => Shallow(b)
         /\ Repeating(b, <<Ldr(Q(0)), Rmw(D(0))>>) => Shallow(b)
<1>1. ASSUME Repeating(b, <<Rmw(D(0))>>) PROVE Threaded(b)
  <2>1. <<"d", 0>> \in Rmw(D(0)).dst /\ <<"d", 0>> \in Rmw(D(0)).src
    BY Writes, Reads, Single
  <2> QED
    BY <1>1, <2>1, OneThreads
<1>2. ASSUME Repeating(b, <<Rmw(Q(0))>>) PROVE Threaded(b)
  <2>1. <<"d", 0>> \in Rmw(Q(0)).dst /\ <<"d", 0>> \in Rmw(Q(0)).src
    BY Writes, Reads, Single
  <2> QED
    BY <1>2, <2>1, OneThreads
<1>3. ASSUME Repeating(b, <<Rmw(R(1))>>) PROVE Threaded(b)
  <2>1. <<"r", 1>> \in Rmw(R(1)).dst /\ <<"r", 1>> \in Rmw(R(1)).src
    BY Writes, Reads, Single
  <2> QED
    BY <1>3, <2>1, OneThreads
<1>4. ASSUME Repeating(b, <<Acc(Q(1), D(0))>>) PROVE Threaded(b)
  <2>1. <<"d", 2>> \in Acc(Q(1), D(0)).dst /\ <<"d", 2>> \in Acc(Q(1), D(0)).src
    BY Writes, Reads, Single
  <2> QED
    BY <1>4, <2>1, OneThreads
<1>5. ASSUME Repeating(b, <<Move(Q(0), D(0))>>) PROVE Threaded(b)
  <2>1. <<"d", 0>> \in Move(Q(0), D(0)).dst /\ <<"d", 0>> \in Move(Q(0), D(0)).src
    BY Writes, Reads, Single
  <2> QED
    BY <1>5, <2>1, OneThreads
<1>6. ASSUME Repeating(b, <<Acc(Q(1), Q(0))>>) PROVE Threaded(b)
  <2>1. <<"d", 2>> \in Acc(Q(1), Q(0)).dst /\ <<"d", 2>> \in Acc(Q(1), Q(0)).src
    BY Writes, Reads, Single
  <2> QED
    BY <1>6, <2>1, OneThreads
<1>7. ASSUME Repeating(b, <<Acc(D(1), D(0))>>) PROVE Threaded(b)
  <2>1. <<"d", 1>> \in Acc(D(1), D(0)).dst /\ <<"d", 1>> \in Acc(D(1), D(0)).src
    BY Writes, Reads, Single
  <2> QED
    BY <1>7, <2>1, OneThreads
<1>8. ASSUME Repeating(b, <<Ldr(D(0)), Acc(Q(1), Q(0))>>) PROVE Threaded(b)
  <2>1. /\ <<"d", 2>> \in Acc(Q(1), Q(0)).dst /\ <<"d", 2>> \in Acc(Q(1), Q(0)).src
        /\ <<"d", 2>> \in Ldr(D(0)).dst => <<"d", 2>> \in Ldr(D(0)).src
    BY Writes, Reads, Single
  <2> QED
    BY <1>8, <2>1, TwoThread
<1>9. ASSUME Repeating(b, <<Ldr(D(0)), Rmw(Q(0))>>) PROVE Threaded(b)
  <2>1. /\ <<"d", 1>> \in Rmw(Q(0)).dst /\ <<"d", 1>> \in Rmw(Q(0)).src
        /\ <<"d", 1>> \in Ldr(D(0)).dst => <<"d", 1>> \in Ldr(D(0)).src
    BY Writes, Reads, Single
  <2> QED
    BY <1>9, <2>1, TwoThread
<1>10. ASSUME Repeating(b, <<Ldr(D(0)), Str(D(0))>>) PROVE Threaded(b)
  <2>1. <<"d", 0>> \in D(0)
    BY Single
  <2> QED
    BY <1>10, <2>1, ThroughMemory
<1>11. ASSUME Repeating(b, <<Ldr(D(0))>>) PROVE Shallow(b)
  <2>1. Ldr(D(0)).src \cap Ldr(D(0)).dst = {}
    BY Writes, Reads, Single, Blocks
  <2> QED
    BY <1>11, <2>1, OneCeiling
<1>12. ASSUME Repeating(b, <<Ldr(Q(0))>>) PROVE Shallow(b)
  <2>1. Ldr(Q(0)).src \cap Ldr(Q(0)).dst = {}
    BY Writes, Reads, Single, Blocks
  <2> QED
    BY <1>12, <2>1, OneCeiling
<1>13. ASSUME Repeating(b, <<Str(D(0))>>) PROVE Shallow(b)
  <2>1. Str(D(0)).src \cap Str(D(0)).dst = {}
    BY Writes, Reads, Single, Blocks
  <2> QED
    BY <1>13, <2>1, OneCeiling
<1>14. ASSUME Repeating(b, <<Ldr(D(0)), Rmw(D(0))>>) PROVE Shallow(b)
  <2>1. D(0) \in SUBSET D(0) /\ Mem \cap D(0) = {}
    BY Single, Blocks
  <2> QED
    BY <1>14, <2>1, LoadedCeiling
<1>15. ASSUME Repeating(b, <<Ldr(Q(0)), Rmw(Q(0))>>) PROVE Shallow(b)
  <2>1. Q(0) \in SUBSET Q(0) /\ Mem \cap Q(0) = {}
    BY Single, Blocks
  <2> QED
    BY <1>15, <2>1, LoadedCeiling
<1>16. ASSUME Repeating(b, <<Ldr(Q(0)), Rmw(D(0))>>) PROVE Shallow(b)
  <2>1. D(0) \in SUBSET Q(0) /\ Mem \cap Q(0) = {}
    BY Single, Blocks
  <2> QED
    BY <1>16, <2>1, LoadedCeiling
<1> QED
  BY <1>1, <1>2, <1>3, <1>4, <1>5, <1>6, <1>7, <1>8, <1>9, <1>10, <1>11, <1>12, <1>13, <1>14,
     <1>15, <1>16

------------------------------------------------------------------------------
\* The entries of a table, as Entangled and Unchained have them.
Measured(n, e) == /\ Crosses(e.throughput) <=> n \in Entangled
                  /\ IF n \in Unchained THEN Shallow(e.latency) ELSE Threaded(e.latency)
TableMeasured(T) == \A n \in DOMAIN T : Measured(n, T[n])

LEMMA BothMeasured ==
  ASSUME NEW n, NEW t, NEW l, Crosses(t) <=> n \in Entangled,
         IF n \in Unchained THEN Shallow(l) ELSE Threaded(l)
  PROVE  Measured(n, Both(t, l))
BY DEF Measured, Both

\* The loops that the macros unroll.
LEMMA MacroApart ==
  ASSUME NEW cb, NEW h
  PROVE  /\ Keeping(h, cb, 20, 0) => ~Crosses(THROUGHPUT(cb)) /\ ~Crosses(THROUGHPUT_MEM(cb))
         /\ Keeping(h, cb, 15, 0) => ~Crosses(THROUGHPUT_MEM_ITER(cb, 15))
         /\ Keeping(h, cb, 10, 0) => ~Crosses(V7Throughput(cb))
                                     /\ ~Crosses(V7ThroughputMem(cb, 10))
         /\ Keeping(h, cb, 9, 0) => ~Crosses(V7ThroughputMem(cb, 9))
         /\ Keeping(h, cb, 10, 6) => ~Crosses(V7ThroughputStart6(cb))
                                     /\ ~Crosses(V7ThroughputMemStart6(cb))
         /\ \A z, l, m : Keeping(h, cb, 20, 0) => ~Crosses(LA(20, cb, z, l, m))
         /\ \A z, l, m : Keeping(h, cb, 10, 0) => ~Crosses(LA(10, cb, z, l, m))
         /\ \A z : Keeping(h, cb, 10, 0) => ~Crosses(X86(cb, z))
<1>1. /\ THROUGHPUT(cb).body = Unroll(20, cb) /\ THROUGHPUT_MEM(cb).body = Unroll(20, cb)
      /\ THROUGHPUT_MEM_ITER(cb, 15).body = Unroll(15, cb)
  BY DEF THROUGHPUT, THROUGHPUT_MEM, THROUGHPUT_MEM_ITER, A64
<1>2. /\ V7Throughput(cb).body = Unroll(10, cb)
      /\ V7ThroughputMem(cb, 10).body = Unroll(10, cb)
      /\ V7ThroughputMem(cb, 9).body = Unroll(9, cb)
      /\ V7ThroughputStart6(cb).body = UnrollStart6(10, cb)
      /\ V7ThroughputMemStart6(cb).body = UnrollStart6(10, cb)
  BY DEF V7Throughput, V7ThroughputMem, V7ThroughputStart6, V7ThroughputMemStart6, V7
<1>3. /\ \A n, z, l, m : LA(n, cb, z, l, m).body = Unroll(n, cb)
      /\ \A z : X86(cb, z).body = Unroll(10, cb)
  BY DEF LA, X86
<1>4. 20 \in Nat /\ 15 \in Nat /\ 10 \in Nat /\ 9 \in Nat
  OBVIOUS
<1>5. \A b : /\ b.body = Unroll(20, cb) /\ Keeping(h, cb, 20, 0) => ~Crosses(b)
             /\ b.body = Unroll(15, cb) /\ Keeping(h, cb, 15, 0) => ~Crosses(b)
             /\ b.body = Unroll(10, cb) /\ Keeping(h, cb, 10, 0) => ~Crosses(b)
             /\ b.body = Unroll(9, cb) /\ Keeping(h, cb, 9, 0) => ~Crosses(b)
             /\ b.body = UnrollStart6(10, cb) /\ Keeping(h, cb, 10, 6) => ~Crosses(b)
  BY <1>4, UnrolledApart
<1> QED
  BY <1>1, <1>2, <1>3, <1>5

\* Homes on AArch64: the first n vector registers belong to a group each, t is
\* written only, the others are read only.
HomeV(n, t, x, m) ==
  [v |-> [i \in 0..31 |-> IF i < n THEN i + 1 ELSE IF i \in t THEN 0 ELSE -1],
   x |-> [i \in 0..31 |-> x],
   mem |-> [i \in {0} |-> m]]

LEMMA HomeVIs ==
  ASSUME NEW n \in 0..20, NEW t, NEW x, NEW m
  PROVE  /\ \A i \in 0..(n - 1) : HomeV(n, t, x, m).v[i] = i + 1
         /\ \A i \in n..31 : HomeV(n, t, x, m).v[i] = IF i \in t THEN 0 ELSE -1
         /\ \A i \in 0..31 : HomeV(n, t, x, m).x[i] = x
         /\ HomeV(n, t, x, m).mem[0] = m
BY DEF HomeV

\* The callbacks of the macros there: what each of them needs of the others.
LEMMA MacroKeeps ==
  ASSUME NEW t, NEW x \in {-1, 0}, NEW m \in {-1, 0}, NEW h, h = HomeV(20, t, x, m)
  PROVE  /\ Keep(h, RmwV, 20, 0) /\ Keep(h, RmwV, 10, 0)
         /\ m = -1 => Keep(h, LdrV, 20, 0)
         /\ m = 0 => Keep(h, StrV, 20, 0)
         /\ m = -1 /\ x = 0 => Keep(h, LdrX, 20, 0)
         /\ 21 \notin t => Keep(h, MoveV(V(21)), 20, 0)
         /\ x = -1 => Keep(h, InsV(X(1)), 20, 0)
         /\ 21 \in t /\ x = -1 => Keep(h, Fixed(Move(V(21), X(1))), 20, 0)
         /\ 20 \in t /\ 21 \notin t => Keep(h, Fixed(Move(V(20), V(21))), 20, 0)
         /\ 21 \in t /\ 22 \notin t => Keep(h, Fixed(Move(V(21), V(22))), 20, 0)
         /\ 21 \in t /\ m = -1 => Keep(h, Fixed(Ldr(V(21))), 20, 0)
         /\ 21 \in t /\ 22 \in t /\ m = -1 => Keep(h, Fixed(Ldr(Vs(21, 22))), 20, 0)
<1>1. /\ \A i \in 0..19 : h.v[i] = i + 1 /\ h.x[i] = x
      /\ \A i \in {20, 21, 22} : h.v[i] = IF i \in t THEN 0 ELSE -1
      /\ h.x[1] = x /\ h.mem[0] = m
  <2>1. 20 \in 0..20 /\ 20 - 1 = 19
    OBVIOUS
  <2>2. /\ \A i \in 0..19 : HomeV(20, t, x, m).v[i] = i + 1
        /\ \A i \in 20..31 : HomeV(20, t, x, m).v[i] = IF i \in t THEN 0 ELSE -1
        /\ \A i \in 0..31 : HomeV(20, t, x, m).x[i] = x
        /\ HomeV(20, t, x, m).mem[0] = m
    BY <2>1, HomeVIs
  <2> QED
    BY <2>2
<1>2. /\ Homed(h, V(20), {IF 20 \in t THEN 0 ELSE -1})
      /\ Homed(h, V(21), {IF 21 \in t THEN 0 ELSE -1})
      /\ Homed(h, V(22), {IF 22 \in t THEN 0 ELSE -1})
      /\ Homed(h, X(1), {x}) /\ Homed(h, Mem, {m})
      /\ 21 \in t /\ 22 \in t => Homed(h, Vs(21, 22), {0})
  <2>1. 21 \in t /\ 22 \in t => \A i \in 21..22 : h.v[i] \in {0}
    BY <1>1
  <2> QED
    BY <1>1, <2>1, HomedIs, 21 \in Int, 22 \in Int
<1>3. /\ Keep(h, RmwV, 20, 0) /\ Keep(h, RmwV, 10, 0)
      /\ m = -1 => Keep(h, LdrV, 20, 0)
      /\ m = 0 => Keep(h, StrV, 20, 0)
      /\ m = -1 /\ x = 0 => Keep(h, LdrX, 20, 0)
      /\ 21 \notin t => Keep(h, MoveV(V(21)), 20, 0)
      /\ x = -1 => Keep(h, InsV(X(1)), 20, 0)
  <2>1. /\ 20 \in 1..20 /\ \A i \in 0..(20 - 1) : h.v[i] = i + 1 /\ h.x[i] = x
        /\ 10 \in 1..20 /\ \A i \in 0..(10 - 1) : h.v[i] = i + 1
    BY <1>1
  <2> QED
    BY <1>1, <1>2, <2>1, VKeeps
<1>4. /\ 20 \in 1..20 /\ 0 \in {0, 6}
  OBVIOUS
<1>5. 21 \in t /\ x = -1 => Keep(h, Fixed(Move(V(21), X(1))), 20, 0)
  BY <1>2, <1>4, FixedKeeps, Writes, Reads
<1>6. 20 \in t /\ 21 \notin t => Keep(h, Fixed(Move(V(20), V(21))), 20, 0)
  BY <1>2, <1>4, FixedKeeps, Writes, Reads
<1>7. 21 \in t /\ 22 \notin t => Keep(h, Fixed(Move(V(21), V(22))), 20, 0)
  BY <1>2, <1>4, FixedKeeps, Writes, Reads
<1>8. 21 \in t /\ m = -1 => Keep(h, Fixed(Ldr(V(21))), 20, 0)
  BY <1>2, <1>4, FixedKeeps, Writes, Reads
<1>9. 21 \in t /\ 22 \in t /\ m = -1 => Keep(h, Fixed(Ldr(Vs(21, 22))), 20, 0)
  BY <1>2, <1>4, FixedKeeps, Writes, Reads
<1> QED
  BY <1>3, <1>5, <1>6, <1>7, <1>8, <1>9

\* An instruction of the callback that reads what one of the group before has
\* written and its own group has not written again.
LEMMA UnrolledCrosses ==
  ASSUME NEW b, NEW n \in Nat \ {0, 1}, NEW cb, b.body = Unroll(n, cb),
         NEW j \in DOMAIN cb, NEW k \in DOMAIN cb, NEW r, r \in cb[j][0].dst,
         r \in cb[k][1].src, \A l \in 1..(k - 1) : l \in DOMAIN cb /\ r \notin cb[l][1].dst
  PROVE  Crosses(b)
<1>1. 1 \in DOMAIN b.body /\ 2 \in DOMAIN b.body /\ 2 \in 1..n /\ 1 \in 1..n
  BY DEF Unroll
<1>2. /\ \A l \in DOMAIN cb : b.body[1][l] = cb[l][0] /\ b.body[2][l] = cb[l][1]
      /\ DOMAIN b.body[1] = DOMAIN cb /\ DOMAIN b.body[2] = DOMAIN cb
  BY <1>1, 1 - 1 = 0, 2 - 1 = 1 DEF Unroll
<1>3. \E h \in 1..(2 - 1) : \E l \in DOMAIN b.body[h] : r \in b.body[h][l].dst
  BY <1>2, 1 \in 1..(2 - 1)
<1>4. CrossesAt(b, 2, k)
  BY <1>2, <1>3 DEF CrossesAt
<1> QED
  BY <1>1, <1>2, <1>4 DEF Crosses

\* Tables of aarch64.h and aarch64_dual_issue.h built by the macros alone.
LEMMA A64FloatMeasured == TableMeasured(A64Float)
<1>1. Measured("fmla", A64Float.fmla)
  <2>1. ~Crosses(THROUGHPUT(<<RmwV>>))
    <3> DEFINE h == HomeV(20, {}, -1, -1)
    <3>1. Keep(h, RmwV, 20, 0)
      BY MacroKeeps, -1 \in {-1, 0}, 0 \in {-1, 0}
    <3>2. Keeping(h, <<RmwV>>, 20, 0)
      BY <3>1, KeepingIs
    <3> QED
      BY <3>2, MacroApart
  <2>2. Threaded(LATENCY(<<Rmw(V(0))>>))
    BY MacroRepeats, VShapes
  <2>3. "fmla" \notin Entangled /\ "fmla" \notin Unchained
    BY DEF Entangled, Unchained
  <2> QED
    BY <2>1, <2>2, <2>3, BothMeasured DEF A64Float
<1>2. Measured("fmla_x2", A64Float.fmla_x2)
  <2>1. ~Crosses(THROUGHPUT(<<RmwV, RmwV>>))
    <3> DEFINE h == HomeV(20, {}, -1, -1)
    <3>1. Keep(h, RmwV, 20, 0)
      BY MacroKeeps, -1 \in {-1, 0}, 0 \in {-1, 0}
    <3>2. Keeping(h, <<RmwV, RmwV>>, 20, 0)
      BY <3>1, KeepingIs
    <3> QED
      BY <3>2, MacroApart
  <2>2. Threaded(LATENCY(<<Rmw(V(0)), Rmw(V(0))>>))
    BY MacroRepeats, VShapes
  <2>3. "fmla_x2" \notin Entangled /\ "fmla_x2" \notin Unchained
    BY DEF Entangled, Unchained
  <2> QED
    BY <2>1, <2>2, <2>3, BothMeasured DEF A64Float
<1> QED
  BY <1>1, <1>2 DEF A64Float, TableMeasured

LEMMA A64IntegerMeasured == TableMeasured(A64Integer)
<1>1. Measured("tbl", A64Integer.tbl)
  <2>1. Measured("fmla", A64Float.fmla)
    BY A64FloatMeasured DEF TableMeasured, A64Float
  <2>2. /\ "tbl" \notin Entangled /\ "tbl" \notin Unchained
        /\ "fmla" \notin Entangled /\ "fmla" \notin Unchained
    BY DEF Entangled, Unchained
  <2> QED
    BY <2>1, <2>2 DEF A64Integer, Measured
<1>2. Measured("ins", A64Integer.ins)
  <2>1. ~Crosses(THROUGHPUT_MEM(<<InsV(X(1))>>))
    <3> DEFINE h == HomeV(20, {}, -1, -1)
    <3>1. Keep(h, InsV(X(1)), 20, 0)
      BY MacroKeeps, -1 \in {-1, 0}, 0 \in {-1, 0}
    <3>2. Keeping(h, <<InsV(X(1))>>, 20, 0)
      BY <3>1, KeepingIs
    <3> QED
      BY <3>2, MacroApart
  <2>2. Threaded(LATENCY_MEM(<<Ins(V(0), X(0))>>))
    BY MacroRepeats, VShapes
  <2>3. "ins" \notin Entangled /\ "ins" \notin Unchained
    BY DEF Entangled, Unchained
  <2> QED
    BY <2>1, <2>2, <2>3, BothMeasured DEF A64Integer
<1> QED
  BY <1>1, <1>2 DEF A64Integer, TableMeasured

LEMMA LdPairsMeasured == TableMeasured(LdPairs)
<1>1. Measured("ldd_ldx_ins", LdPairs.ldd_ldx_ins)
  <2>1. Crosses(THROUGHPUT_MEM(<<LdrV, LdrX, Fixed(Ins(V(20), X(20)))>>))
    <3> DEFINE cb == <<LdrV, LdrX, Fixed(Ins(V(20), X(20)))>>
    <3>1. DOMAIN cb = 1..3 /\ 0 \in Reg /\ 1 \in Reg
      BY DEF Reg
    <3>2. <<"v", 20>> \in cb[3][0].dst /\ <<"v", 20>> \in cb[3][1].src
      BY <3>1, Writes, Reads, Single DEF LdrV, StrV, LdrX, Fixed
    <3>3. \A l \in 1..(3 - 1) : l \in DOMAIN cb /\ <<"v", 20>> \notin cb[l][1].dst
      BY <3>1, Writes, Single DEF LdrV, StrV, LdrX, Fixed
    <3>4. THROUGHPUT_MEM(cb).body = Unroll(20, cb)
      BY DEF THROUGHPUT_MEM, THROUGHPUT_MEM_ITER, A64
    <3> HIDE DEF cb
    <3> QED
      BY <3>1, <3>2, <3>3, <3>4, UnrolledCrosses, 20 \in Nat \ {0, 1}, 3 \in 1..3,
         3 \in 1..3 DEF cb
  <2>2. Shallow(LATENCY_MEM(<<Ldr(V(0)), Ldr(X(0)), Ins(V(0), X(0))>>))
    BY MacroRepeats, VShapes
  <2>3. "ldd_ldx_ins" \in Entangled /\ "ldd_ldx_ins" \in Unchained
    BY DEF Entangled, Unchained
  <2> QED
    BY <2>1, <2>2, <2>3, BothMeasured DEF LdPairs
<1>2. Measured("ldq_fmlaq", LdPairs.ldq_fmlaq)
  <2>1. ~Crosses(THROUGHPUT_MEM(<<LdrV, RmwV>>))
    <3> DEFINE h == HomeV(20, {}, -1, -1)
    <3>1. Keep(h, LdrV, 20, 0) /\ Keep(h, RmwV, 20, 0)
      BY MacroKeeps, -1 \in {-1, 0}, 0 \in {-1, 0}
    <3>2. Keeping(h, <<LdrV, RmwV>>, 20, 0)
      BY <3>1, KeepingIs
    <3> QED
      BY <3>2, MacroApart
  <2>2. Shallow(LATENCY_MEM(<<Ldr(V(0)), Rmw(V(0))>>))
    BY MacroRepeats, VShapes
  <2>3. "ldq_fmlaq" \notin Entangled /\ "ldq_fmlaq" \in Unchained
    BY DEF Entangled, Unchained
  <2> QED
    BY <2>1, <2>2, <2>3, BothMeasured DEF LdPairs
<1> QED
  BY <1>1, <1>2 DEF LdPairs, TableMeasured

LEMMA SepPairsMeasured == TableMeasured(SepPairs)
<1>1. Measured("ins_fmlaq_lane_sep", SepPairs.ins_fmlaq_lane_sep)
  <2>1. Crosses(THROUGHPUT_MEM(<<Fixed(Ins(V(21), X(1))), RmwV>>))
    <3> DEFINE cb == <<Fixed(Ins(V(21), X(1))), RmwV>>
    <3>1. DOMAIN cb = 1..2 /\ 0 \in Reg /\ 1 \in Reg
      BY DEF Reg
    <3>2. <<"v", 21>> \in cb[1][0].dst /\ <<"v", 21>> \in cb[1][1].src
      BY <3>1, Writes, Reads, Single DEF LdrV, StrV, LdrX, Fixed
    <3>3. \A l \in 1..(1 - 1) : l \in DOMAIN cb /\ <<"v", 21>> \notin cb[l][1].dst
      BY <3>1, Writes, Single DEF LdrV, StrV, LdrX, Fixed
    <3>4. THROUGHPUT_MEM(cb).body = Unroll(20, cb)
      BY DEF THROUGHPUT_MEM, THROUGHPUT_MEM_ITER, A64
    <3> HIDE DEF cb
    <3> QED
      BY <3>1, <3>2, <3>3, <3>4, UnrolledCrosses, 20 \in Nat \ {0, 1}, 1 \in 1..2,
         1 \in 1..2 DEF cb
  <2>2. Threaded(LATENCY_MEM(<<Ins(V(0), X(0)), Rmw(V(1))>>))
    BY MacroRepeats, VShapes
  <2>3. "ins_fmlaq_lane_sep" \in Entangled /\ "ins_fmlaq_lane_sep" \notin Unchained
    BY DEF Entangled, Unchained
  <2> QED
    BY <2>1, <2>2, <2>3, BothMeasured DEF SepPairs
<1>2. Measured("dupd_fmlaq_lane_sep", SepPairs.dupd_fmlaq_lane_sep)
  <2>1. ~Crosses(THROUGHPUT_MEM(<<Fixed(Move(V(21), X(1))), RmwV>>))
    <3> DEFINE h == HomeV(20, {21}, -1, -1)
    <3>1. Keep(h, Fixed(Move(V(21), X(1))), 20, 0) /\ Keep(h, RmwV, 20, 0)
      BY MacroKeeps, -1 \in {-1, 0}, 0 \in {-1, 0}
    <3>2. Keeping(h, <<Fixed(Move(V(21), X(1))), RmwV>>, 20, 0)
      BY <3>1, KeepingIs
    <3> QED
      BY <3>2, MacroApart
  <2>2. Threaded(LATENCY_MEM(<<Move(V(0), X(0)), Rmw(V(1))>>))
    BY MacroRepeats, VShapes
  <2>3. "dupd_fmlaq_lane_sep" \notin Entangled /\ "dupd_fmlaq_lane_sep" \notin Unchained
    BY DEF Entangled, Unchained
  <2> QED
    BY <2>1, <2>2, <2>3, BothMeasured DEF SepPairs
<1>3. Measured("ldqstq", SepPairs.ldqstq)
  <2>1. Crosses(THROUGHPUT_MEM(<<LdrV, StrV>>))
    <3> DEFINE cb == <<LdrV, StrV>>
    <3>1. DOMAIN cb = 1..2 /\ 0 \in Reg /\ 1 \in Reg
      BY DEF Reg
    <3>2. <<"mem", 0>> \in cb[2][0].dst /\ <<"mem", 0>> \in cb[1][1].src
      BY <3>1, Writes, Reads, Single DEF LdrV, StrV, LdrX, Fixed
    <3>3. \A l \in 1..(1 - 1) : l \in DOMAIN cb /\ <<"mem", 0>> \notin cb[l][1].dst
      BY <3>1, Writes, Single DEF LdrV, StrV, LdrX, Fixed
    <3>4. THROUGHPUT_MEM(cb).body = Unroll(20, cb)
      BY DEF THROUGHPUT_MEM, THROUGHPUT_MEM_ITER, A64
    <3> HIDE DEF cb
    <3> QED
      BY <3>1, <3>2, <3>3, <3>4, UnrolledCrosses, 20 \in Nat \ {0, 1}, 2 \in 1..2,
         1 \in 1..2 DEF cb
  <2>2. Threaded(LATENCY_MEM(<<Ldr(V(0)), Str(V(0))>>))
    BY MacroRepeats, VShapes
  <2>3. "ldqstq" \in Entangled /\ "ldqstq" \notin Unchained
    BY DEF Entangled, Unchained
  <2> QED
    BY <2>1, <2>2, <2>3, BothMeasured DEF SepPairs
<1>4. Measured("dupd_lane_smlal_s8", SepPairs.dupd_lane_smlal_s8)
  <2>1. ~Crosses(THROUGHPUT_MEM(<<Fixed(Move(V(20), V(21))), RmwV>>))
    <3> DEFINE h == HomeV(20, {20}, -1, -1)
    <3>1. Keep(h, Fixed(Move(V(20), V(21))), 20, 0) /\ Keep(h, RmwV, 20, 0)
      BY MacroKeeps, -1 \in {-1, 0}, 0 \in {-1, 0}
    <3>2. Keeping(h, <<Fixed(Move(V(20), V(21))), RmwV>>, 20, 0)
      BY <3>1, KeepingIs
    <3> QED
      BY <3>2, MacroApart
  <2>2. Threaded(LATENCY_MEM(<<Move(V(0), V(0)), Rmw(V(0))>>))
    BY MacroRepeats, VShapes
  <2>3. "dupd_lane_smlal_s8" \notin Entangled /\ "dupd_lane_smlal_s8" \notin Unchained
    BY DEF Entangled, Unchained
  <2> QED
    BY <2>1, <2>2, <2>3, BothMeasured DEF SepPairs
<1>5. Measured("ldd_fmlaq_lane_sep", SepPairs.ldd_fmlaq_lane_sep)
  <2>1. ~Crosses(THROUGHPUT_MEM(<<Fixed(Ldr(V(21))), RmwV>>))
    <3> DEFINE h == HomeV(20, {21}, -1, -1)
    <3>1. Keep(h, Fixed(Ldr(V(21))), 20, 0) /\ Keep(h, RmwV, 20, 0)
      BY MacroKeeps, -1 \in {-1, 0}, 0 \in {-1, 0}
    <3>2. Keeping(h, <<Fixed(Ldr(V(21))), RmwV>>, 20, 0)
      BY <3>1, KeepingIs
    <3> QED
      BY <3>2, MacroApart
  <2>2. Threaded(LATENCY_MEM(<<Ldr(V(0)), Rmw(V(1))>>))
    BY MacroRepeats, VShapes
  <2>3. "ldd_fmlaq_lane_sep" \notin Entangled /\ "ldd_fmlaq_lane_sep" \notin Unchained
    BY DEF Entangled, Unchained
  <2> QED
    BY <2>1, <2>2, <2>3, BothMeasured DEF SepPairs
<1>6. Measured("ldd_smlalq_sep", SepPairs.ldd_smlalq_sep)
  <2>1. ~Crosses(THROUGHPUT_MEM(<<Fixed(Ldr(V(21))), RmwV>>))
    <3> DEFINE h == HomeV(20, {21}, -1, -1)
    <3>1. Keep(h, Fixed(Ldr(V(21))), 20, 0) /\ Keep(h, RmwV, 20, 0)
      BY MacroKeeps, -1 \in {-1, 0}, 0 \in {-1, 0}
    <3>2. Keeping(h, <<Fixed(Ldr(V(21))), RmwV>>, 20, 0)
      BY <3>1, KeepingIs
    <3> QED
      BY <3>2, MacroApart
  <2>2. Shallow(LATENCY_MEM(<<Ldr(V(1)), Rmw(V(1))>>))
    BY MacroRepeats, VShapes
  <2>3. "ldd_smlalq_sep" \notin Entangled /\ "ldd_smlalq_sep" \in Unchained
    BY DEF Entangled, Unchained
  <2> QED
    BY <2>1, <2>2, <2>3, BothMeasured DEF SepPairs
<1>7. Measured("lddx2_smlalq_sep", SepPairs.lddx2_smlalq_sep)
  <2>1. ~Crosses(THROUGHPUT_MEM(<<Fixed(Ldr(Vs(21, 22))), RmwV>>))
    <3> DEFINE h == HomeV(20, {21, 22}, -1, -1)
    <3>1. Keep(h, Fixed(Ldr(Vs(21, 22))), 20, 0) /\ Keep(h, RmwV, 20, 0)
      BY MacroKeeps, -1 \in {-1, 0}, 0 \in {-1, 0}
    <3>2. Keeping(h, <<Fixed(Ldr(Vs(21, 22))), RmwV>>, 20, 0)
      BY <3>1, KeepingIs
    <3> QED
      BY <3>2, MacroApart
  <2>2. Shallow(LATENCY_MEM(<<Ldr(Vs(0, 1)), Rmw(V(1))>>))
    BY MacroRepeats, VShapes
  <2>3. "lddx2_smlalq_sep" \notin Entangled /\ "lddx2_smlalq_sep" \in Unchained
    BY DEF Entangled, Unchained
  <2> QED
    BY <2>1, <2>2, <2>3, BothMeasured DEF SepPairs
<1> QED
  BY <1>1, <1>2, <1>3, <1>4, <1>5, <1>6, <1>7 DEF SepPairs, TableMeasured

LEMMA LdxPairMeasured == TableMeasured(LdxPair)
<1>1. Measured("ldx_fmlaq_lane_sep", LdxPair.ldx_fmlaq_lane_sep)
  <2>1. ~Crosses(THROUGHPUT_MEM(<<LdrX, RmwV>>))
    <3> DEFINE h == HomeV(20, {}, 0, -1)
    <3>1. Keep(h, LdrX, 20, 0) /\ Keep(h, RmwV, 20, 0)
      BY MacroKeeps, -1 \in {-1, 0}, 0 \in {-1, 0}
    <3>2. Keeping(h, <<LdrX, RmwV>>, 20, 0)
      BY <3>1, KeepingIs
    <3> QED
      BY <3>2, MacroApart
  <2>2. Threaded(LATENCY_MEM(<<Ldr(X(0)), Rmw(V(1))>>))
    BY MacroRepeats, VShapes
  <2>3. "ldx_fmlaq_lane_sep" \notin Entangled /\ "ldx_fmlaq_lane_sep" \notin Unchained
    BY DEF Entangled, Unchained
  <2> QED
    BY <2>1, <2>2, <2>3, BothMeasured DEF LdxPair
<1> QED
  BY <1>1 DEF LdxPair, TableMeasured

LEMMA SmlalPairsMeasured == TableMeasured(SmlalPairs)
<1>1. Measured("smlal_8b_addp", SmlalPairs.smlal_8b_addp)
  <2>1. ~Crosses(THROUGHPUT(<<Fixed(Move(V(21), V(22))), RmwV>>))
    <3> DEFINE h == HomeV(20, {21}, -1, -1)
    <3>1. Keep(h, Fixed(Move(V(21), V(22))), 20, 0) /\ Keep(h, RmwV, 20, 0)
      BY MacroKeeps, -1 \in {-1, 0}, 0 \in {-1, 0}
    <3>2. Keeping(h, <<Fixed(Move(V(21), V(22))), RmwV>>, 20, 0)
      BY <3>1, KeepingIs
    <3> QED
      BY <3>2, MacroApart
  <2>2. Threaded(LATENCY(<<Rmw(V(0)), Rmw(V(0))>>))
    BY MacroRepeats, VShapes
  <2>3. "smlal_8b_addp" \notin Entangled /\ "smlal_8b_addp" \notin Unchained
    BY DEF Entangled, Unchained
  <2> QED
    BY <2>1, <2>2, <2>3, BothMeasured DEF SmlalPairs
<1>2. Measured("smlal_8b_dupd", SmlalPairs.smlal_8b_dupd)
  <2>1. ~Crosses(THROUGHPUT(<<Fixed(Move(V(21), V(22))), RmwV>>))
    <3> DEFINE h == HomeV(20, {21}, -1, -1)
    <3>1. Keep(h, Fixed(Move(V(21), V(22))), 20, 0) /\ Keep(h, RmwV, 20, 0)
      BY MacroKeeps, -1 \in {-1, 0}, 0 \in {-1, 0}
    <3>2. Keeping(h, <<Fixed(Move(V(21), V(22))), RmwV>>, 20, 0)
      BY <3>1, KeepingIs
    <3> QED
      BY <3>2, MacroApart
  <2>2. Threaded(LATENCY(<<Move(V(0), V(0)), Rmw(V(0))>>))
    BY MacroRepeats, VShapes
  <2>3. "smlal_8b_dupd" \notin Entangled /\ "smlal_8b_dupd" \notin Unchained
    BY DEF Entangled, Unchained
  <2> QED
    BY <2>1, <2>2, <2>3, BothMeasured DEF SmlalPairs
<1>3. Measured("smlal_sadalp", SmlalPairs.smlal_sadalp)
  <2>1. ~Crosses(THROUGHPUT(<<RmwV, RmwV>>))
    <3> DEFINE h == HomeV(20, {}, -1, -1)
    <3>1. Keep(h, RmwV, 20, 0)
      BY MacroKeeps, -1 \in {-1, 0}, 0 \in {-1, 0}
    <3>2. Keeping(h, <<RmwV, RmwV>>, 20, 0)
      BY <3>1, KeepingIs
    <3> QED
      BY <3>2, MacroApart
  <2>2. Threaded(LATENCY(<<Rmw(V(0)), Rmw(V(0))>>))
    BY MacroRepeats, VShapes
  <2>3. "smlal_sadalp" \notin Entangled /\ "smlal_sadalp" \notin Unchained
    BY DEF Entangled, Unchained
  <2> QED
    BY <2>1, <2>2, <2>3, BothMeasured DEF SmlalPairs
<1>4. Measured("smull_smlal_sadalp", SmlalPairs.smull_smlal_sadalp)
  <2>1. ~Crosses(THROUGHPUT(<<RmwV, RmwV, RmwV>>))
    <3> DEFINE h == HomeV(20, {}, -1, -1)
    <3>1. Keep(h, RmwV, 20, 0)
      BY MacroKeeps, -1 \in {-1, 0}, 0 \in {-1, 0}
    <3>2. Keeping(h, <<RmwV, RmwV, RmwV>>, 20, 0)
      BY <3>1, KeepingIs
    <3> QED
      BY <3>2, MacroApart
  <2>2. Threaded(LATENCY(<<Rmw(V(0)), Rmw(V(0)), Rmw(V(0))>>))
    BY MacroRepeats, VShapes
  <2>3. "smull_smlal_sadalp" \notin Entangled /\ "smull_smlal_sadalp" \notin Unchained
    BY DEF Entangled, Unchained
  <2> QED
    BY <2>1, <2>2, <2>3, BothMeasured DEF SmlalPairs
<1> QED
  BY <1>1, <1>2, <1>3, <1>4 DEF SmlalPairs, TableMeasured

LEMMA LdrPairsMeasured == TableMeasured(LdrPairs)
<1>1. Measured("ldrd_sshll", LdrPairs.ldrd_sshll)
  <2>1. ~Crosses(THROUGHPUT_MEM(<<Fixed(Ldr(V(21))), RmwV>>))
    <3> DEFINE h == HomeV(20, {21}, -1, -1)
    <3>1. Keep(h, Fixed(Ldr(V(21))), 20, 0) /\ Keep(h, RmwV, 20, 0)
      BY MacroKeeps, -1 \in {-1, 0}, 0 \in {-1, 0}
    <3>2. Keeping(h, <<Fixed(Ldr(V(21))), RmwV>>, 20, 0)
      BY <3>1, KeepingIs
    <3> QED
      BY <3>2, MacroApart
  <2>2. Shallow(LATENCY_MEM(<<Ldr(V(0)), Rmw(V(0))>>))
    BY MacroRepeats, VShapes
  <2>3. "ldrd_sshll" \notin Entangled /\ "ldrd_sshll" \in Unchained
    BY DEF Entangled, Unchained
  <2> QED
    BY <2>1, <2>2, <2>3, BothMeasured DEF LdrPairs
<1>2. Measured("ldrd_sdot_lane", LdrPairs.ldrd_sdot_lane)
  <2>1. ~Crosses(THROUGHPUT_MEM(<<Fixed(Ldr(V(21))), RmwV>>))
    <3> DEFINE h == HomeV(20, {21}, -1, -1)
    <3>1. Keep(h, Fixed(Ldr(V(21))), 20, 0) /\ Keep(h, RmwV, 20, 0)
      BY MacroKeeps, -1 \in {-1, 0}, 0 \in {-1, 0}
    <3>2. Keeping(h, <<Fixed(Ldr(V(21))), RmwV>>, 20, 0)
      BY <3>1, KeepingIs
    <3> QED
      BY <3>2, MacroApart
  <2>2. Shallow(LATENCY_MEM(<<Ldr(V(1)), Rmw(V(1))>>))
    BY MacroRepeats, VShapes
  <2>3. "ldrd_sdot_lane" \notin Entangled /\ "ldrd_sdot_lane" \in Unchained
    BY DEF Entangled, Unchained
  <2> QED
    BY <2>1, <2>2, <2>3, BothMeasured DEF LdrPairs
<1> QED
  BY <1>1, <1>2 DEF LdrPairs, TableMeasured

LEMMA A64SingleMeasured == TableMeasured(A64Single)
<1>1. Measured("ldq", A64Single.ldq)
  <2>1. ~Crosses(THROUGHPUT_MEM(<<LdrV>>))
    <3> DEFINE h == HomeV(20, {}, -1, -1)
    <3>1. Keep(h, LdrV, 20, 0)
      BY MacroKeeps, -1 \in {-1, 0}, 0 \in {-1, 0}
    <3>2. Keeping(h, <<LdrV>>, 20, 0)
      BY <3>1, KeepingIs
    <3> QED
      BY <3>2, MacroApart
  <2>2. Shallow(LATENCY_MEM(<<Ldr(V(0))>>))
    BY MacroRepeats, VShapes
  <2>3. "ldq" \notin Entangled /\ "ldq" \in Unchained
    BY DEF Entangled, Unchained
  <2> QED
    BY <2>1, <2>2, <2>3, BothMeasured DEF A64Single
<1>2. Measured("lddx2", A64Single.lddx2)
  <2>1. ~Crosses(THROUGHPUT_MEM(<<Fixed(Ldr(Vs(0, 1)))>>))
    <3> DEFINE h == HomeV(0, {0, 1}, -1, -1)
    <3>1. h.v[0] = 0 /\ h.v[1] = 0 /\ h.mem[0] = -1
      BY DEF HomeV
    <3> HIDE DEF h
    <3>2. Homed(h, Vs(0, 1), {0}) /\ Homed(h, Mem, {-1})
      <4>1. (\A i \in 0..1 : h.v[i] \in {0}) /\ 0 \in Int /\ 1 \in Int
        BY <3>1
      <4> QED
        BY <3>1, <4>1, HomedIs
    <3>3. Keep(h, Fixed(Ldr(Vs(0, 1))), 20, 0)
      BY <3>2, FixedKeeps, Writes, Reads, 20 \in 1..20, 0 \in {0, 6}
    <3> QED
      BY <3>3, KeepingIs, MacroApart
  <2>2. Shallow(LATENCY_MEM(<<Ldr(Vs(0, 1))>>))
    BY MacroRepeats, VShapes
  <2>3. "lddx2" \notin Entangled /\ "lddx2" \in Unchained
    BY DEF Entangled, Unchained
  <2> QED
    BY <2>1, <2>2, <2>3, BothMeasured DEF A64Single
<1>3. Measured("nop", A64Single.nop)
  <2>1. ~Crosses(THROUGHPUT_MEM(<<Fixed(Nop)>>))
    <3> DEFINE h == HomeV(20, {}, -1, -1)
    <3>1. Keep(h, Fixed(Nop), 20, 0)
      BY HomedIs, FixedKeeps, Writes, Reads, 20 \in 1..20, 0 \in {0, 6}
    <3> QED
      BY <3>1, KeepingIs, MacroApart
  <2>2. Shallow(LATENCY_MEM(<<Nop>>))
    BY MacroRepeats, VShapes
  <2>3. "nop" \notin Entangled /\ "nop" \in Unchained
    BY DEF Entangled, Unchained
  <2> QED
    BY <2>1, <2>2, <2>3, BothMeasured DEF A64Single
<1>4. Measured("stq", A64Single.stq)
  <2>1. ~Crosses(THROUGHPUT_MEM(<<StrV>>))
    <3> DEFINE h == HomeV(20, {}, -1, 0)
    <3>1. Keep(h, StrV, 20, 0)
      BY MacroKeeps, -1 \in {-1, 0}, 0 \in {-1, 0}
    <3>2. Keeping(h, <<StrV>>, 20, 0)
      BY <3>1, KeepingIs
    <3> QED
      BY <3>2, MacroApart
  <2>2. Shallow(LATENCY_MEM(<<Str(V(0))>>))
    BY MacroRepeats, VShapes
  <2>3. "stq" \notin Entangled /\ "stq" \in Unchained
    BY DEF Entangled, Unchained
  <2> QED
    BY <2>1, <2>2, <2>3, BothMeasured DEF A64Single
<1>5. Measured("dupd_lane_s8", A64Single.dupd_lane_s8)
  <2>1. ~Crosses(THROUGHPUT_MEM(<<MoveV(V(21))>>))
    <3> DEFINE h == HomeV(20, {}, -1, -1)
    <3>1. Keep(h, MoveV(V(21)), 20, 0)
      BY MacroKeeps, -1 \in {-1, 0}, 0 \in {-1, 0}
    <3>2. Keeping(h, <<MoveV(V(21))>>, 20, 0)
      BY <3>1, KeepingIs
    <3> QED
      BY <3>2, MacroApart
  <2>2. Threaded(LATENCY_MEM(<<Move(V(0), V(0))>>))
    BY MacroRepeats, VShapes
  <2>3. "dupd_lane_s8" \notin Entangled /\ "dupd_lane_s8" \notin Unchained
    BY DEF Entangled, Unchained
  <2> QED
    BY <2>1, <2>2, <2>3, BothMeasured DEF A64Single
<1>6. Measured("mlaq_lane_s16", A64Single.mlaq_lane_s16)
  <2>1. ~Crosses(THROUGHPUT_MEM_ITER(<<AccV(V(15))>>, 15))
    <3> DEFINE h == HomeV(15, {}, -1, -1)
    <3>1. (\A i \in 0..(15 - 1) : h.v[i] = i + 1) /\ h.v[15] = -1
      BY DEF HomeV
    <3> HIDE DEF h
    <3>2. Homed(h, V(15), {-1})
      BY <3>1, HomedIs
    <3>3. Keep(h, AccV(V(15)), 15, 0)
      BY <3>1, <3>2, VKeeps, 15 \in 1..20
    <3> QED
      BY <3>3, KeepingIs, MacroApart
  <2>2. Threaded(LATENCY_MEM(<<Rmw(V(0))>>))
    BY MacroRepeats, VShapes
  <2>3. "mlaq_lane_s16" \notin Entangled /\ "mlaq_lane_s16" \notin Unchained
    BY DEF Entangled, Unchained
  <2> QED
    BY <2>1, <2>2, <2>3, BothMeasured DEF A64Single
<1>7. Measured("ldpq", A64Single.ldpq)
  <2> DEFINE body == [k \in 1..16 |-> <<Ldr(Vs(2 * k - 2, 2 * k - 1))>>]
  <2>1. ~Crosses(ByHand(body, X(0), {}, 16))
    <3> DEFINE h == HomeV(0, 0..31, -1, -1)
    <3>1. (\A i \in 0..31 : h.v[i] = 0) /\ h.mem[0] = -1
      BY DEF HomeV
    <3> HIDE DEF h
    <3>2. ASSUME NEW k \in 1..16 PROVE Stays(h, k, Ldr(Vs(2 * k - 2, 2 * k - 1)))
      <4>1. /\ 2 * k - 2 \in Int /\ 2 * k - 1 \in Int /\ k \in Nat \ {0}
            /\ \A i \in (2 * k - 2)..(2 * k - 1) : h.v[i] \in {0, k}
        BY <3>1
      <4>2. Homed(h, Vs(2 * k - 2, 2 * k - 1), {0, k}) /\ Homed(h, Mem, {-1, k})
        BY <3>1, <4>1, HomedIs
      <4> QED
        BY <4>1, <4>2, StaysIs
    <3>3. /\ DOMAIN body = 1..16
          /\ \A k \in 1..16 : \A j \in DOMAIN body[k] : Stays(h, k, body[k][j])
      BY <3>2
    <3>4. ByHand(body, X(0), {}, 16).body = body /\ 16 \in Nat
      BY DEF ByHand, A64
    <3> HIDE DEF body
    <3> QED
      BY <3>3, <3>4, StaysApart
  <2>2. Shallow(LATENCY_MEM(<<Ldr(Vs(0, 1))>>))
    BY MacroRepeats, VShapes
  <2>3. "ldpq" \notin Entangled /\ "ldpq" \in Unchained
    BY DEF Entangled, Unchained
  <2> QED
    BY <2>1, <2>2, <2>3, BothMeasured DEF A64Single
<1> QED
  BY <1>1, <1>2, <1>3, <1>4, <1>5, <1>6, <1>7 DEF A64Single, TableMeasured

------------------------------------------------------------------------------
\* The loops written out by hand.
LEMMA HandApart ==
  ASSUME NEW body, NEW n \in 1..16, DOMAIN body = 1..n, NEW h,
         \A k \in 1..n : \A j \in DOMAIN body[k] : Stays(h, k, body[k][j]),
         NEW cnt, NEW xs, NEW per
  PROVE  ~Crosses(ByHand(body, cnt, xs, per))
<1>1. ByHand(body, cnt, xs, per).body = body /\ n \in Nat
  BY DEF ByHand, A64
<1> QED
  BY <1>1, StaysApart

\* What a group reads that an earlier one has written.
LEMMA HandCrosses ==
  ASSUME NEW body, NEW g \in DOMAIN body, NEW j \in DOMAIN body[g],
         NEW k \in 1..(g - 1), NEW l \in DOMAIN body[k], NEW r,
         r \in body[k][l].dst, r \in body[g][j].src,
         \A i \in 1..(j - 1) : r \notin body[g][i].dst, NEW cnt, NEW xs, NEW per
  PROVE  Crosses(ByHand(body, cnt, xs, per))
<1>1. ByHand(body, cnt, xs, per).body = body
  BY DEF ByHand, A64
<1>2. CrossesAt(ByHand(body, cnt, xs, per), g, j)
  BY <1>1 DEF CrossesAt
<1> QED
  BY <1>1, <1>2 DEF Crosses

\* Groups of one, two or three instructions.
StayTogether(h, g, gp) == \A j \in DOMAIN gp : Stays(h, g, gp[j])

LEMMA StayTogetherIs ==
  ASSUME NEW h, NEW g
  PROVE  /\ \A x : Stays(h, g, x) => StayTogether(h, g, <<x>>)
         /\ \A x, y : Stays(h, g, x) /\ Stays(h, g, y) => StayTogether(h, g, <<x, y>>)
         /\ \A x, y, z : Stays(h, g, x) /\ Stays(h, g, y) /\ Stays(h, g, z)
                          => StayTogether(h, g, <<x, y, z>>)
BY DEF StayTogether

\* The k-th group multiplies into v(15 + k), which is its own; f and x are the
\* homes of the other registers.
HandHome(f, x, m) == [v |-> [i \in 0..31 |-> IF i > 15 THEN i - 15 ELSE f[i]],
                      x |-> x, mem |-> [i \in {0} |-> m]]

LEMMA OwnStays ==
  ASSUME NEW h, NEW k \in 1..16
  PROVE  k \in Nat \ {0} /\ \A r : h.v[r] = k => Stays(h, k, Rmw(V(r)))
<1> SUFFICES ASSUME NEW r, h.v[r] = k PROVE k \in Nat \ {0} /\ Stays(h, k, Rmw(V(r)))
  OBVIOUS
<1>1. k \in Nat \ {0} /\ h.v[r] \in {k}
  OBVIOUS
<1>2. Homed(h, V(r), {k})
  BY <1>1, HomedIs
<1> QED
  BY <1>1, <1>2, StaysIs

LEMMA HandStays ==
  ASSUME NEW f, NEW x, NEW m, NEW h, h = HandHome(f, x, m), NEW k \in 1..16
  PROVE  /\ Stays(h, k, Rmw(V(15 + k))) /\ Stays(h, k, RmwV[15 + k])
         /\ f[1] = -1 => Stays(h, k, AccV(V(1))[15 + k])
         /\ \A r \in 0..15 : /\ m = -1 /\ f[r] \in {0, k} => Stays(h, k, Ldr(V(r)))
                             /\ m = 0 /\ f[r] = -1 => Stays(h, k, Str(V(r)))
                             /\ \A s : f[r] = k /\ x[s] \in {-1, k}
                                        => Stays(h, k, Ins(V(r), X(s)))
         /\ \A s : m = -1 /\ x[s] \in {0, k} => Stays(h, k, Ldr(X(s)))
         /\ Stays(h, k, Nop)
<1>1. /\ 15 + k \in Reg /\ h.v[15 + k] = k /\ k \in Nat \ {0}
      /\ \A r \in 0..15 : h.v[r] = f[r]
      /\ h.x = x /\ h.mem[0] = m
  BY DEF HandHome, Reg
<1>2. /\ Homed(h, V(15 + k), {k})
      /\ \A r \in 0..15 : /\ f[r] \in {0, k} => Homed(h, V(r), {0, k})
                          /\ f[r] = -1 => Homed(h, V(r), {-1, k})
                          /\ f[r] = k => Homed(h, V(r), {k})
      /\ \A s : /\ x[s] \in {0, k} => Homed(h, X(s), {0, k})
               /\ x[s] \in {-1, k} => Homed(h, X(s), {-1, k})
      /\ m = -1 => Homed(h, Mem, {-1, k})
      /\ m = 0 => Homed(h, Mem, {0, k})
  BY <1>1, HomedIs
<1>3. Stays(h, k, Rmw(V(15 + k))) /\ Stays(h, k, RmwV[15 + k])
  BY <1>1, <1>2, StaysIs DEF RmwV
<1>4. f[1] = -1 => Stays(h, k, AccV(V(1))[15 + k])
  <2> SUFFICES ASSUME f[1] = -1 PROVE Stays(h, k, AccV(V(1))[15 + k])
    OBVIOUS
  <2>1. 1 \in 0..15 /\ AccV(V(1))[15 + k] = Acc(V(15 + k), V(1))
    BY <1>1 DEF AccV
  <2>2. Homed(h, V(15 + k), {k}) /\ Homed(h, V(1), {-1, k})
    BY <1>2, <2>1
  <2>3. Stays(h, k, Acc(V(15 + k), V(1)))
    BY <1>1, <2>2, StaysIs
  <2> QED
    BY <2>1, <2>3
<1>5. ASSUME NEW r \in 0..15
      PROVE  /\ m = -1 /\ f[r] \in {0, k} => Stays(h, k, Ldr(V(r)))
             /\ m = 0 /\ f[r] = -1 => Stays(h, k, Str(V(r)))
  BY <1>1, <1>2, StaysIs
<1>6. ASSUME NEW r \in 0..15, NEW s, f[r] = k, x[s] \in {-1, k}
      PROVE  Stays(h, k, Ins(V(r), X(s)))
  <2>1. h.v[r] \in {k} /\ h.x[s] \in {-1, k}
    BY <1>1, <1>6
  <2>2. Homed(h, V(r), {k}) /\ Homed(h, X(s), {-1, k})
    BY <2>1, HomedIs
  <2> QED
    BY <1>1, <2>2, StaysIs
<1>7. ASSUME NEW s, m = -1, x[s] \in {0, k} PROVE Stays(h, k, Ldr(X(s)))
  <2>1. h.x[s] \in {0, k} /\ h.mem[0] \in {-1, k}
    BY <1>1, <1>7
  <2>2. Homed(h, X(s), {0, k}) /\ Homed(h, Mem, {-1, k})
    BY <2>1, HomedIs
  <2> QED
    BY <1>1, <2>2, StaysIs
<1>8. Stays(h, k, Nop)
  BY <1>1, StaysIs
<1> QED
  BY <1>3, <1>4, <1>5, <1>6, <1>7, <1>8

LEMMA PackedApart ==
  ASSUME NEW n \in 1..16, NEW m \in 1..16, NEW pre, NEW op, NEW h,
         \A k \in 1..n : Stays(h, k, op[15 + k]),
         \A k \in 1..n : (k - 1) % m = 0 => Stays(h, k, pre[1 + (k - 1) \div m]),
         NEW cnt, NEW xs, NEW per
  PROVE  ~Crosses(ByHand(Packed(n, m, pre, op), cnt, xs, per))
<1> DEFINE body == Packed(n, m, pre, op)
<1>1. ASSUME NEW k \in 1..n PROVE StayTogether(h, k, body[k])
  <2>1. CASE (k - 1) % m = 0
    <3>1. body[k] = <<pre[1 + (k - 1) \div m], op[15 + k]>>
      BY <2>1 DEF Packed
    <3> QED
      BY <2>1, <3>1, StayTogetherIs
  <2>2. CASE (k - 1) % m # 0
    <3>1. body[k] = <<op[15 + k]>>
      BY <2>2 DEF Packed
    <3> QED
      BY <3>1, StayTogetherIs
  <2> QED
    BY <2>1, <2>2
<1>2. DOMAIN body = 1..n
  BY DEF Packed
<1> HIDE DEF body
<1>3. ~Crosses(ByHand(body, cnt, xs, per))
  BY <1>1, <1>2, HandApart DEF StayTogether
<1> QED
  BY <1>3 DEF body

\* The registers that are only loaded are no group's.
LEMMA PackedLoads ==
  ASSUME NEW regs, NEW n \in 1..16, NEW m \in 1..16,
         \A k \in 1..n : 1 + (k - 1) \div m \in DOMAIN regs,
         \A j \in DOMAIN regs : regs[j] \in 0..15, NEW cnt, NEW xs, NEW per
  PROVE  /\ ~Crosses(ByHand(Packed(n, m, Loads(regs), RmwV), cnt, xs, per))
         /\ (\A j \in DOMAIN regs : regs[j] # 1)
              => ~Crosses(ByHand(Packed(n, m, Loads(regs), AccV(V(1))), cnt, xs, per))
<1> DEFINE f == [i \in 0..15 |-> IF i = 1 /\ \A j \in DOMAIN regs : regs[j] # 1
                                THEN -1 ELSE 0]
           h == HandHome(f, [i \in 0..31 |-> -1], -1)
<1>1. /\ \A j \in DOMAIN regs : f[regs[j]] = 0
      /\ (\A j \in DOMAIN regs : regs[j] # 1) => f[1] = -1
  OBVIOUS
<1> HIDE DEF f
<1>2. ASSUME NEW k \in 1..16
      PROVE  /\ Stays(h, k, RmwV[15 + k])
             /\ (\A j \in DOMAIN regs : regs[j] # 1) => Stays(h, k, AccV(V(1))[15 + k])
             /\ \A j \in DOMAIN regs : Stays(h, k, Loads(regs)[j])
  BY <1>1, HandStays DEF Loads
<1> HIDE DEF h
<1>3. 1..n \subseteq 1..16
  OBVIOUS
<1> QED
  BY <1>2, <1>3, PackedApart

\* Tables of aarch64.h and aarch64_dual_issue.h with loops of this kind.
LEMMA A64PrefetchMeasured == TableMeasured(A64Prefetch)
<1>1. Measured("prefetch_very_long", A64Prefetch.prefetch_very_long)
  <2> DEFINE body == [k \in 1..11 |-> <<Nop>>]
  <2>1. ~Crosses(ByHand(body, X(20), Xs(0, 19), 16))
    <3> DEFINE h == HandHome([i \in 0..15 |-> -1], [i \in 0..31 |-> -1], -1)
    <3>1. \A k \in 1..11 : Stays(h, k, Nop)
      BY HandStays
    <3>2. 11 \in 1..16 /\ DOMAIN body = 1..11
      OBVIOUS
    <3>3. \A k \in 1..11 : \A j \in DOMAIN body[k] : Stays(h, k, body[k][j])
      BY <3>1
    <3> HIDE DEF body, h
    <3> QED
      BY <3>2, <3>3, HandApart
  <2>2. Shallow(LATENCY_MEM(<<Nop>>))
    BY MacroRepeats, VShapes
  <2>3. "prefetch_very_long" \notin Entangled /\ "prefetch_very_long" \in Unchained
    BY DEF Entangled, Unchained
  <2> QED
    BY <2>1, <2>2, <2>3, BothMeasured DEF A64Prefetch
<1> QED
  BY <1>1 DEF A64Prefetch, TableMeasured

\* Two registers for each group.
PairHome == [v |-> [i \in 0..31 |-> i \div 2 + 1], x |-> [i \in {0} |-> -1],
             mem |-> [i \in {0} |-> -1]]

LEMMA PairStays ==
  ASSUME NEW k \in 1..16, NEW r \in {2 * k - 2, 2 * k - 1}
  PROVE  /\ Stays(PairHome, k, Ldr(V(r))) /\ Stays(PairHome, k, Rmw(V(r)))
         /\ Stays(PairHome, k, Ins(V(r), X(0)))
<1>1. PairHome.v[r] = k /\ PairHome.x[0] = -1 /\ PairHome.mem[0] = -1 /\ k \in Nat \ {0}
  BY DEF PairHome
<1> QED
  BY <1>1, HomedIs, StaysIs

LEMMA InsLdrMeasured == TableMeasured(InsLdr)
<1>1. Measured("ins_ldd", InsLdr.ins_ldd)
  <2> DEFINE body == [k \in 1..16 |-> <<Ins(V(2 * k - 2), X(0)), Ldr(V(2 * k - 1))>>]
  <2>1. ~Crosses(ByHand(body, X(28), Xs(0, 20), 16))
    <3>1. ASSUME NEW k \in 1..16 PROVE StayTogether(PairHome, k, body[k])
      <4>1. /\ k \in 1..16 /\ 2 * k - 2 \in {2 * k - 2, 2 * k - 1}
            /\ 2 * k - 1 \in {2 * k - 2, 2 * k - 1}
        OBVIOUS
      <4>2. Stays(PairHome, k, Ins(V(2 * k - 2), X(0))) /\ Stays(PairHome, k, Ldr(V(2 * k - 1)))
        BY <4>1, PairStays
      <4>3. body[k] = <<Ins(V(2 * k - 2), X(0)), Ldr(V(2 * k - 1))>>
        OBVIOUS
      <4> QED
        BY <4>2, <4>3, StayTogetherIs
    <3>2. 16 \in 1..16 /\ DOMAIN body = 1..16
      OBVIOUS
    <3> HIDE DEF body
    <3> QED
      BY <3>1, <3>2, HandApart DEF StayTogether
  <2>2. Shallow(LATENCY_MEM(<<Ins(V(0), X(0)), Ldr(V(0))>>))
    BY MacroRepeats, VShapes
  <2>3. /\ "ins_ldd" \notin Entangled
        /\ "ins_ldd" \in Unchained
    BY DEF Entangled, Unchained
  <2> QED
    BY <2>1, <2>2, <2>3, BothMeasured DEF InsLdr
<1> QED
  BY <1>1 DEF InsLdr, TableMeasured

LEMMA SshllInsMeasured == TableMeasured(SshllIns)
<1>1. Measured("sshll_ins_sep", SshllIns.sshll_ins_sep)
  <2> DEFINE body == [k \in 1..10 |-> <<Rmw(V(2 * k - 2)), Ins(V(2 * k - 1), X(0))>>]
  <2>1. ~Crosses(ByHand(body, X(20), Xs(0, 19) \cup X(22), 10))
    <3>1. ASSUME NEW k \in 1..10 PROVE StayTogether(PairHome, k, body[k])
      <4>1. /\ k \in 1..16 /\ 2 * k - 2 \in {2 * k - 2, 2 * k - 1}
            /\ 2 * k - 1 \in {2 * k - 2, 2 * k - 1}
        OBVIOUS
      <4>2. Stays(PairHome, k, Rmw(V(2 * k - 2))) /\ Stays(PairHome, k, Ins(V(2 * k - 1), X(0)))
        BY <4>1, PairStays
      <4>3. body[k] = <<Rmw(V(2 * k - 2)), Ins(V(2 * k - 1), X(0))>>
        OBVIOUS
      <4> QED
        BY <4>2, <4>3, StayTogetherIs
    <3>2. 10 \in 1..16 /\ DOMAIN body = 1..10
      OBVIOUS
    <3> HIDE DEF body
    <3> QED
      BY <3>1, <3>2, HandApart DEF StayTogether
  <2>2. Threaded(LATENCY_MEM(<<Ins(V(1), X(0)), Rmw(V(1))>>))
    BY MacroRepeats, VShapes
  <2>3. /\ "sshll_ins_sep" \notin Entangled
        /\ "sshll_ins_sep" \notin Unchained
    BY DEF Entangled, Unchained
  <2> QED
    BY <2>1, <2>2, <2>3, BothMeasured DEF SshllIns
<1> QED
  BY <1>1 DEF SshllIns, TableMeasured

LEMMA LdFmlaMeasured == TableMeasured(LdFmla)
<1>1. Measured("stq_fmlaq_lane", LdFmla.stq_fmlaq_lane)
  <2> DEFINE pre == [j \in 1..5 |-> Str(V(0))]
             body == Packed(15, 3, pre, RmwV)
  <2>1. ~Crosses(ByHand(body, X(0), {}, 15))
    <3> DEFINE f == [i \in 0..15 |-> -1]
               x == [i \in 0..31 |-> -1]
               h == HandHome(f, x, 0)
    <3>1. f[0] = -1 /\ 0 \in 0..15 /\ \A j \in 1..5 : pre[j] = Str(V(0))
      OBVIOUS
    <3>2. ASSUME NEW k \in 1..15, (k - 1) % 3 = 0
          PROVE  Stays(h, k, pre[1 + (k - 1) \div 3])
      <4>1. k \in 1..16 /\ 1 + (k - 1) \div 3 \in 1..5
        BY Spread, SMTT(30)
      <4>2. Stays(h, k, Str(V(0)))
        BY <3>1, <4>1, HandStays
      <4> QED
        BY <3>1, <4>1, <4>2
    <3>3. /\ 15 \in 1..16 /\ 3 \in 1..16 /\ 1..15 \subseteq 1..16
      OBVIOUS
    <3> HIDE DEF pre, f, x
    <3>4. \A k \in 1..15 : Stays(h, k, RmwV[15 + k])
      BY <3>3, HandStays
    <3> HIDE DEF h
    <3> QED
      BY <3>2, <3>3, <3>4, PackedApart, ZenonT(40)
  <2>2. Threaded(LATENCY_MEM(<<Str(V(0)), Rmw(V(0))>>))
    BY MacroRepeats, VShapes
  <2>3. /\ "stq_fmlaq_lane" \notin Entangled
        /\ "stq_fmlaq_lane" \notin Unchained
    BY DEF Entangled, Unchained
  <2> QED
    BY <2>1, <2>2, <2>3, BothMeasured, SMTT(30) DEF LdFmla
<1>2. Measured("ldq_fmlaq_sep", LdFmla.ldq_fmlaq_sep)
  <2> DEFINE pre == [j \in 1..8 |-> Ldr(V(2 * j - 2))]
             body == Packed(16, 2, pre, RmwV)
  <2>1. ~Crosses(ByHand(body, X(0), {}, 16))
    <3> DEFINE f == [i \in 0..15 |-> 0]
               x == [i \in 0..31 |-> -1]
               h == HandHome(f, x, -1)
    <3>1. \A j \in 1..8 : pre[j] = Ldr(V(2 * j - 2)) /\ 2 * j - 2 \in 0..15 /\ f[2 * j - 2] = 0
      OBVIOUS
    <3>2. ASSUME NEW k \in 1..16, (k - 1) % 2 = 0
          PROVE  Stays(h, k, pre[1 + (k - 1) \div 2])
      <4>1. k \in 1..16 /\ 1 + (k - 1) \div 2 \in 1..8
        BY Spread, SMTT(30)
      <4>2. \A j \in 1..8 : Stays(h, k, Ldr(V(2 * j - 2)))
        BY <3>1, <4>1, HandStays
      <4> QED
        BY <3>1, <4>1, <4>2
    <3>3. /\ 16 \in 1..16 /\ 2 \in 1..16 /\ 1..16 \subseteq 1..16
      OBVIOUS
    <3> HIDE DEF pre, f, x
    <3>4. \A k \in 1..16 : Stays(h, k, RmwV[15 + k])
      BY <3>3, HandStays
    <3> HIDE DEF h
    <3> QED
      BY <3>2, <3>3, <3>4, PackedApart, ZenonT(40)
  <2>2. Threaded(LATENCY_MEM(<<Ldr(V(0)), Rmw(V(1))>>))
    BY MacroRepeats, VShapes
  <2>3. /\ "ldq_fmlaq_sep" \notin Entangled
        /\ "ldq_fmlaq_sep" \notin Unchained
    BY DEF Entangled, Unchained
  <2> QED
    BY <2>1, <2>2, <2>3, BothMeasured, SMTT(30) DEF LdFmla
<1> QED
  BY <1>1, <1>2 DEF LdFmla, TableMeasured

LEMMA LdFmlaLaneMeasured == TableMeasured(LdFmlaLane)
<1>1. Measured("ldq_fmlaq_lane_sep", LdFmlaLane.ldq_fmlaq_lane_sep)
  <2>1. Measured("ldq_fmlaq_sep", LdFmla.ldq_fmlaq_sep)
    BY LdFmlaMeasured DEF TableMeasured, LdFmla
  <2>2. /\ "ldq_fmlaq_sep" \notin Entangled /\ "ldq_fmlaq_sep" \notin Unchained
        /\ "ldq_fmlaq_lane_sep" \notin Entangled /\ "ldq_fmlaq_lane_sep" \notin Unchained
    BY DEF Entangled, Unchained
  <2>3. LdFmlaLane.ldq_fmlaq_lane_sep = LdFmla.ldq_fmlaq_sep
    BY DEF LdFmlaLane
  <2> QED
    BY <2>1, <2>2, <2>3 DEF Measured
<1>2. Measured("ldd_fmlaq_sep", LdFmlaLane.ldd_fmlaq_sep)
  <2> DEFINE pre == [j \in 1..16 |-> Ldr(V(j - 1))]
             body == Packed(16, 1, pre, RmwV)
  <2>1. ~Crosses(ByHand(body, X(0), {}, 16))
    <3> DEFINE f == [i \in 0..15 |-> 0]
               x == [i \in 0..31 |-> -1]
               h == HandHome(f, x, -1)
    <3>1. \A j \in 1..16 : pre[j] = Ldr(V(j - 1)) /\ j - 1 \in 0..15 /\ f[j - 1] = 0
      OBVIOUS
    <3>2. ASSUME NEW k \in 1..16, (k - 1) % 1 = 0
          PROVE  Stays(h, k, pre[1 + (k - 1) \div 1])
      <4>1. k \in 1..16 /\ 1 + (k - 1) \div 1 \in 1..16
        BY Spread, SMTT(30)
      <4>2. \A j \in 1..16 : Stays(h, k, Ldr(V(j - 1)))
        BY <3>1, <4>1, HandStays
      <4> QED
        BY <3>1, <4>1, <4>2
    <3>3. /\ 16 \in 1..16 /\ 1 \in 1..16 /\ 1..16 \subseteq 1..16
      OBVIOUS
    <3> HIDE DEF pre, f, x
    <3>4. \A k \in 1..16 : Stays(h, k, RmwV[15 + k])
      BY <3>3, HandStays
    <3> HIDE DEF h
    <3> QED
      BY <3>2, <3>3, <3>4, PackedApart, ZenonT(40)
  <2>2. Threaded(LATENCY_MEM(<<Ldr(V(0)), Rmw(V(1))>>))
    BY MacroRepeats, VShapes
  <2>3. /\ "ldd_fmlaq_sep" \notin Entangled
        /\ "ldd_fmlaq_sep" \notin Unchained
    BY DEF Entangled, Unchained
  <2> QED
    BY <2>1, <2>2, <2>3, BothMeasured, SMTT(30) DEF LdFmlaLane
<1> QED
  BY <1>1, <1>2 DEF LdFmlaLane, TableMeasured

LEMMA OneToFourMeasured == TableMeasured(OneToFour)
<1>1. Measured("ldd_fmlaq_lane_1_4_sep", OneToFour.ldd_fmlaq_lane_1_4_sep)
  <2> DEFINE regs == <<0, 2, 6, 11>>
             body == Packed(16, 4, Loads(regs), RmwV)
  <2>1. ~Crosses(ByHand(body, X(20), Xs(0, 19) \cup X(22), 16))
    <3>1. /\ 16 \in 1..16 /\ 4 \in 1..16
          /\ DOMAIN regs = 1..4 /\ \A j \in DOMAIN regs : regs[j] \in 0..15 /\ regs[j] # 1
      OBVIOUS
    <3>2. \A k \in 1..16 : 1 + (k - 1) \div 4 \in DOMAIN regs
      BY <3>1, Spread
    <3> HIDE DEF regs
    <3> QED
      BY <3>1, <3>2, PackedLoads
  <2>2. Threaded(LATENCY_MEM(<<Ldr(X(0)), Rmw(V(1))>>))
    BY MacroRepeats, VShapes
  <2>3. /\ "ldd_fmlaq_lane_1_4_sep" \notin Entangled
        /\ "ldd_fmlaq_lane_1_4_sep" \notin Unchained
    BY DEF Entangled, Unchained
  <2> QED
    BY <2>1, <2>2, <2>3, BothMeasured DEF OneToFour
<1>2. Measured("ldd_mla_s16_lane_1_4_sep", OneToFour.ldd_mla_s16_lane_1_4_sep)
  <2> DEFINE regs == <<0, 2, 6, 11>>
             body == Packed(16, 4, Loads(regs), AccV(V(1)))
  <2>1. ~Crosses(ByHand(body, X(20), Xs(0, 19) \cup X(22), 16))
    <3>1. /\ 16 \in 1..16 /\ 4 \in 1..16
          /\ DOMAIN regs = 1..4 /\ \A j \in DOMAIN regs : regs[j] \in 0..15 /\ regs[j] # 1
      OBVIOUS
    <3>2. \A k \in 1..16 : 1 + (k - 1) \div 4 \in DOMAIN regs
      BY <3>1, Spread
    <3> HIDE DEF regs
    <3> QED
      BY <3>1, <3>2, PackedLoads
  <2>2. Shallow(LATENCY_MEM(<<Ldr(V(1)), Rmw(V(1))>>))
    BY MacroRepeats, VShapes
  <2>3. /\ "ldd_mla_s16_lane_1_4_sep" \notin Entangled
        /\ "ldd_mla_s16_lane_1_4_sep" \in Unchained
    BY DEF Entangled, Unchained
  <2> QED
    BY <2>1, <2>2, <2>3, BothMeasured DEF OneToFour
<1> QED
  BY <1>1, <1>2 DEF OneToFour, TableMeasured

LEMMA LdqToThreeAndTwoMeasured == TableMeasured(LdqToThreeAndTwo)
<1>1. Measured("ldq_fmlaq_lane_1_3_sep", LdqToThreeAndTwo.ldq_fmlaq_lane_1_3_sep)
  <2> DEFINE regs == <<0, 2, 6, 7, 7>>
             body == Packed(15, 3, Loads(regs), RmwV)
  <2>1. ~Crosses(ByHand(body, X(20), Xs(0, 19) \cup X(22), 15))
    <3>1. /\ 15 \in 1..16 /\ 3 \in 1..16
          /\ DOMAIN regs = 1..5 /\ \A j \in DOMAIN regs : regs[j] \in 0..15 /\ regs[j] # 1
      OBVIOUS
    <3>2. \A k \in 1..15 : 1 + (k - 1) \div 3 \in DOMAIN regs
      BY <3>1, Spread
    <3> HIDE DEF regs
    <3> QED
      BY <3>1, <3>2, PackedLoads
  <2>2. Shallow(LATENCY_MEM(<<Ldr(V(1)), Rmw(V(1))>>))
    BY MacroRepeats, VShapes
  <2>3. /\ "ldq_fmlaq_lane_1_3_sep" \notin Entangled
        /\ "ldq_fmlaq_lane_1_3_sep" \in Unchained
    BY DEF Entangled, Unchained
  <2> QED
    BY <2>1, <2>2, <2>3, BothMeasured DEF LdqToThreeAndTwo
<1>2. Measured("ldq_fmlaq_lane_1_2_sep", LdqToThreeAndTwo.ldq_fmlaq_lane_1_2_sep)
  <2> DEFINE regs == <<0, 2, 4, 6, 7, 8, 9, 10>>
             body == Packed(16, 2, Loads(regs), RmwV)
  <2>1. ~Crosses(ByHand(body, X(20), Xs(0, 19) \cup X(22), 16))
    <3>1. /\ 16 \in 1..16 /\ 2 \in 1..16
          /\ DOMAIN regs = 1..8 /\ \A j \in DOMAIN regs : regs[j] \in 0..15 /\ regs[j] # 1
      OBVIOUS
    <3>2. \A k \in 1..16 : 1 + (k - 1) \div 2 \in DOMAIN regs
      BY <3>1, Spread
    <3> HIDE DEF regs
    <3> QED
      BY <3>1, <3>2, PackedLoads
  <2>2. Shallow(LATENCY_MEM(<<Ldr(V(1)), Rmw(V(1))>>))
    BY MacroRepeats, VShapes
  <2>3. /\ "ldq_fmlaq_lane_1_2_sep" \notin Entangled
        /\ "ldq_fmlaq_lane_1_2_sep" \in Unchained
    BY DEF Entangled, Unchained
  <2> QED
    BY <2>1, <2>2, <2>3, BothMeasured DEF LdqToThreeAndTwo
<1> QED
  BY <1>1, <1>2 DEF LdqToThreeAndTwo, TableMeasured

LEMMA LdqInsToFourMeasured == TableMeasured(LdqInsToFour)
<1>1. Measured("ldq_fmlaq_lane_1_4_sep", LdqInsToFour.ldq_fmlaq_lane_1_4_sep)
  <2> DEFINE regs == <<0, 2, 6, 11>>
             body == Packed(16, 4, Loads(regs), RmwV)
  <2>1. ~Crosses(ByHand(body, X(20), Xs(0, 19) \cup X(22), 16))
    <3>1. /\ 16 \in 1..16 /\ 4 \in 1..16
          /\ DOMAIN regs = 1..4 /\ \A j \in DOMAIN regs : regs[j] \in 0..15 /\ regs[j] # 1
      OBVIOUS
    <3>2. \A k \in 1..16 : 1 + (k - 1) \div 4 \in DOMAIN regs
      BY <3>1, Spread
    <3> HIDE DEF regs
    <3> QED
      BY <3>1, <3>2, PackedLoads
  <2>2. Shallow(LATENCY_MEM(<<Ldr(V(1)), Rmw(V(1))>>))
    BY MacroRepeats, VShapes
  <2>3. /\ "ldq_fmlaq_lane_1_4_sep" \notin Entangled
        /\ "ldq_fmlaq_lane_1_4_sep" \in Unchained
    BY DEF Entangled, Unchained
  <2> QED
    BY <2>1, <2>2, <2>3, BothMeasured DEF LdqInsToFour
<1>2. Measured("ins_fmlaq_lane_1_4_sep", LdqInsToFour.ins_fmlaq_lane_1_4_sep)
  <2> DEFINE pre == [j \in 1..4 |-> Ins(V(0), X(0))]
             body == Packed(16, 4, pre, RmwV)
  <2>1. Crosses(ByHand(body, X(20), Xs(0, 19) \cup X(22), 16))
    <3> DEFINE e == <<"v", 0>>
    <3>1. pre[1] = Ins(V(0), X(0)) /\ pre[2] = Ins(V(0), X(0))
      OBVIOUS
    <3> HIDE DEF pre
    <3>2. /\ body[1] = <<pre[1], RmwV[16]>> /\ body[5] = <<pre[2], RmwV[20]>>
          /\ DOMAIN body = 1..16
      BY DEF Packed
    <3> HIDE DEF body
    <3>3. e \in body[1][1].dst /\ e \in body[5][1].src
      BY <3>1, <3>2, Writes, Reads, Single
    <3>4. /\ 5 \in DOMAIN body /\ 1 \in DOMAIN body[5]
          /\ 1 \in DOMAIN body[1] /\ 1 \in 1..(5 - 1)
          /\ \A i \in 1..(1 - 1) : e \notin body[5][i].dst
      BY <3>2
    <3> HIDE DEF e
    <3> QED
      BY <3>3, <3>4, HandCrosses
  <2>2. Threaded(LATENCY_MEM(<<Ins(V(1), X(0)), Rmw(V(1))>>))
    BY MacroRepeats, VShapes
  <2>3. /\ "ins_fmlaq_lane_1_4_sep" \in Entangled
        /\ "ins_fmlaq_lane_1_4_sep" \notin Unchained
    BY DEF Entangled, Unchained
  <2> QED
    BY <2>1, <2>2, <2>3, BothMeasured DEF LdqInsToFour
<1> QED
  BY <1>1, <1>2 DEF LdqInsToFour, TableMeasured

LEMMA SmlalMeasured == TableMeasured(Smlal)
<1>1. Measured("ldx_ins_smlalq_sep", Smlal.ldx_ins_smlalq_sep)
  <2> DEFINE body == [k \in 1..16 |->
               LET m == Rmw(V(15 + k)) IN
               CASE k % 4 = 1 -> <<m, Ldr(X(2))>>
                 [] k % 4 = 0 -> <<m, Ldr(V(3)), Ins(V(<<4, 8, 12, 15>>[k \div 4]), X(5))>>
                 [] OTHER -> <<m>>]
  <2>1. ~Crosses(ByHand(body, X(20), Xs(0, 19), 16))
    <3> DEFINE f == [i \in 0..15 |-> IF i = 3 THEN 0 ELSE IF i = 15 THEN 16 ELSE i]
               x == [i \in 0..31 |-> IF i = 2 THEN 0 ELSE -1]
               h == HandHome(f, x, -1)
    <3>1. ASSUME NEW k \in 1..16 PROVE StayTogether(h, k, body[k])
      <4>1. k \in 1..16 /\ Stays(h, k, Rmw(V(15 + k))) /\ Stays(h, k, Nop)
        BY HandStays
      <4>2. CASE k % 4 = 1
        <5>1. body[k] = <<Rmw(V(15 + k)), Ldr(X(2))>>
          BY <4>2
        <5>2. x[2] = 0
          BY <4>2
        <5>3. Stays(h, k, Ldr(X(2)))
          BY <4>1, <5>2, HandStays
        <5> QED
          BY <4>1, <5>1, <5>3, StayTogetherIs
      <4>3. CASE k % 4 = 0
        <5>1. body[k] = <<Rmw(V(15 + k)),
                           Ldr(V(3)),
                           Ins(V(<<4, 8, 12, 15>>[k \div 4]), X(5))>>
          BY <4>3
        <5>2. /\ 3 \in 0..15 /\ f[3] = 0 /\ x[5] = -1
              /\ <<4, 8, 12, 15>>[k \div 4] \in 0..15 /\ f[<<4, 8, 12, 15>>[k \div 4]] = k
          BY <4>3
        <5>3. Stays(h, k, Ldr(V(3))) /\ Stays(h, k, Ins(V(<<4, 8, 12, 15>>[k \div 4]), X(5)))
          BY <4>1, <5>2, HandStays
        <5> QED
          BY <4>1, <5>1, <5>3, StayTogetherIs
      <4>4. CASE k % 4 \notin {0, 1}
        <5>1. body[k] = <<Rmw(V(15 + k))>>
          BY <4>4
        <5> QED
          BY <4>1, <5>1, StayTogetherIs
      <4> QED
        BY <4>2, <4>3, <4>4
    <3>2. 16 \in 1..16 /\ DOMAIN body = 1..16
      OBVIOUS
    <3> HIDE DEF body, f, x, h
    <3> QED
      BY <3>1, <3>2, HandApart DEF StayTogether
  <2>2. Threaded(LATENCY_MEM(<<Ldr(X(0)), Ins(V(1), X(0)), Rmw(V(1))>>))
    BY MacroRepeats, VShapes
  <2>3. /\ "ldx_ins_smlalq_sep" \notin Entangled
        /\ "ldx_ins_smlalq_sep" \notin Unchained
    BY DEF Entangled, Unchained
  <2> QED
    BY <2>1, <2>2, <2>3, BothMeasured DEF Smlal
<1>2. Measured("ins_smlalq_sep_1_2", Smlal.ins_smlalq_sep_1_2)
  <2> DEFINE body == [k \in 1..16 |->
               LET m == Rmw(V(15 + k)) IN
               IF k % 2 = 1 THEN <<m>>
               ELSE <<m, Ins(V(IF k = 16 THEN 15 ELSE 3), X(5))>>]
  <2>1. Crosses(ByHand(body, X(20), Xs(0, 19), 16))
    <3> DEFINE e == <<"v", 3>>
    <3>1. /\ body[2] = <<Rmw(V(17)), Ins(V(3), X(5))>>
          /\ body[4] = <<Rmw(V(19)), Ins(V(3), X(5))>>
          /\ DOMAIN body = 1..16
      OBVIOUS
    <3> HIDE DEF body
    <3>2. /\ e \in body[2][2].dst /\ e \in body[4][2].src
          /\ e \notin body[4][1].dst
      BY <3>1, Writes, Reads, Single
    <3>3. /\ 4 \in DOMAIN body /\ 2 \in DOMAIN body[4]
          /\ 2 \in DOMAIN body[2] /\ 2 \in 1..(4 - 1)
          /\ \A i \in 1..(2 - 1) : e \notin body[4][i].dst
      BY <3>1, <3>2
    <3> HIDE DEF e
    <3> QED
      BY <3>2, <3>3, HandCrosses
  <2>2. Threaded(LATENCY_MEM(<<Ins(V(1), X(0)), Rmw(V(1))>>))
    BY MacroRepeats, VShapes
  <2>3. /\ "ins_smlalq_sep_1_2" \in Entangled
        /\ "ins_smlalq_sep_1_2" \notin Unchained
    BY DEF Entangled, Unchained
  <2> QED
    BY <2>1, <2>2, <2>3, BothMeasured DEF Smlal
<1> QED
  BY <1>1, <1>2 DEF Smlal, TableMeasured

LEMMA OneToThreeMeasured == TableMeasured(OneToThree)
<1>1. Measured("ldd_fmlaq_lane_1_3_sep", OneToThree.ldd_fmlaq_lane_1_3_sep)
  <2> DEFINE body == [k \in 1..15 |->
               LET m == Rmw(V(15 + k))  n == (k + 2) \div 3 IN
               CASE k % 3 = 1 -> <<Ldr(V(<<0, 2, 4, 6, 11>>[n])),
                                   Ins(V(<<1, 3, 5, 7, 12>>[n]), X(1)), m>>
                 [] k % 3 = 2 -> <<Ldr(X(2)), m>>
                 [] OTHER -> IF k = 15 THEN <<m>> ELSE <<Nop, m, Nop>>]
  <2>1. ~Crosses(ByHand(body, X(20), Xs(0, 19) \cup X(22), 15))
    <3> DEFINE f == [i \in 0..15 |-> IF i \in {0, 2, 4, 6, 11} THEN 0
                                 ELSE IF i = 12 THEN 13 ELSE 3 * (i \div 2) + 1]
               x == [i \in 0..31 |-> IF i = 2 THEN 0 ELSE -1]
               h == HandHome(f, x, -1)
    <3>1. ASSUME NEW k \in 1..15 PROVE StayTogether(h, k, body[k])
      <4>1. k \in 1..16 /\ Stays(h, k, Rmw(V(15 + k))) /\ Stays(h, k, Nop)
        BY HandStays
      <4>2. CASE k % 3 = 1
        <5>1. body[k] = <<Ldr(V(<<0, 2, 4, 6, 11>>[(k + 2) \div 3])),
                           Ins(V(<<1, 3, 5, 7, 12>>[(k + 2) \div 3]), X(1)),
                           Rmw(V(15 + k))>>
          BY <4>2
        <5>2. /\ x[1] = -1
              /\ <<0, 2, 4, 6, 11>>[(k + 2) \div 3] \in 0..15
              /\ f[<<0, 2, 4, 6, 11>>[(k + 2) \div 3]] = 0
              /\ <<1, 3, 5, 7, 12>>[(k + 2) \div 3] \in 0..15
              /\ f[<<1, 3, 5, 7, 12>>[(k + 2) \div 3]] = k
          BY <4>2
        <5>3. Stays(h, k, Ldr(V(<<0, 2, 4, 6, 11>>[(k + 2) \div 3])))
                /\ Stays(h, k, Ins(V(<<1, 3, 5, 7, 12>>[(k + 2) \div 3]), X(1)))
          BY <4>1, <5>2, HandStays
        <5> QED
          BY <4>1, <5>1, <5>3, StayTogetherIs
      <4>3. CASE k % 3 = 2
        <5>1. body[k] = <<Ldr(X(2)), Rmw(V(15 + k))>>
          BY <4>3
        <5>2. x[2] = 0
          BY <4>3
        <5>3. Stays(h, k, Ldr(X(2)))
          BY <4>1, <5>2, HandStays
        <5> QED
          BY <4>1, <5>1, <5>3, StayTogetherIs
      <4>4. CASE k % 3 \notin {1, 2} /\ k = 15
        <5>1. body[k] = <<Rmw(V(15 + k))>>
          BY <4>4
        <5> QED
          BY <4>1, <5>1, StayTogetherIs
      <4>5. CASE k % 3 \notin {1, 2} /\ k # 15
        <5>1. body[k] = <<Nop, Rmw(V(15 + k)), Nop>>
          BY <4>5
        <5> QED
          BY <4>1, <5>1, StayTogetherIs
      <4> QED
        BY <4>2, <4>3, <4>4, <4>5
    <3>2. 15 \in 1..16 /\ DOMAIN body = 1..15
      OBVIOUS
    <3> HIDE DEF body, f, x, h
    <3> QED
      BY <3>1, <3>2, HandApart DEF StayTogether
  <2>2. Threaded(LATENCY_MEM(<<Ldr(X(0)), Ins(V(1), X(0)), Rmw(V(1))>>))
    BY MacroRepeats, VShapes
  <2>3. /\ "ldd_fmlaq_lane_1_3_sep" \notin Entangled
        /\ "ldd_fmlaq_lane_1_3_sep" \notin Unchained
    BY DEF Entangled, Unchained
  <2> QED
    BY <2>1, <2>2, <2>3, BothMeasured DEF OneToThree
<1>2. Measured("ins_fmlaq_lane_1_3_sep", OneToThree.ins_fmlaq_lane_1_3_sep)
  <2> DEFINE pre == Ins1(<<1, 3, 5, 7, 12>>)
             body == Packed(15, 3, pre, RmwV)
  <2>1. ~Crosses(ByHand(body, X(20), Xs(0, 19) \cup X(22), 15))
    <3> DEFINE f == [i \in 0..15 |-> IF i \in {0, 2, 4, 6, 11} THEN 0
                                 ELSE IF i = 12 THEN 13 ELSE 3 * (i \div 2) + 1]
               x == [i \in 0..31 |-> -1]
               h == HandHome(f, x, -1)
    <3>1. x[1] = -1
      OBVIOUS
    <3>2. ASSUME NEW k \in 1..15, (k - 1) % 3 = 0
          PROVE  Stays(h, k, pre[1 + (k - 1) \div 3])
      <4>1. /\ k \in 1..16 /\ <<1, 3, 5, 7, 12>>[1 + (k - 1) \div 3] \in 0..15
            /\ f[<<1, 3, 5, 7, 12>>[1 + (k - 1) \div 3]] = k
        BY <3>2
      <4>2. Stays(h, k, Ins(V(<<1, 3, 5, 7, 12>>[1 + (k - 1) \div 3]), X(1)))
        BY <3>1, <4>1, HandStays
      <4>3. pre[1 + (k - 1) \div 3] = Ins(V(<<1, 3, 5, 7, 12>>[1 + (k - 1) \div 3]), X(1))
        BY <3>2 DEF Ins1
      <4> QED
        BY <4>2, <4>3
    <3>3. /\ 15 \in 1..16 /\ 3 \in 1..16 /\ 1..15 \subseteq 1..16
      OBVIOUS
    <3> HIDE DEF pre, f, x
    <3>4. \A k \in 1..15 : Stays(h, k, RmwV[15 + k])
      BY <3>3, HandStays
    <3> HIDE DEF h
    <3> QED
      BY <3>2, <3>3, <3>4, PackedApart, ZenonT(40)
  <2>2. Threaded(LATENCY_MEM(<<Ldr(X(0)), Ins(V(1), X(0)), Rmw(V(1))>>))
    BY MacroRepeats, VShapes
  <2>3. /\ "ins_fmlaq_lane_1_3_sep" \notin Entangled
        /\ "ins_fmlaq_lane_1_3_sep" \notin Unchained
    BY DEF Entangled, Unchained
  <2> QED
    BY <2>1, <2>2, <2>3, BothMeasured, SMTT(30) DEF OneToThree
<1> QED
  BY <1>1, <1>2 DEF OneToThree, TableMeasured

LEMMA LddLdxInsMeasured == TableMeasured(LddLdxIns)
<1>1. Measured("ldd_ldx_ins_fmlaq_lane_sep", LddLdxIns.ldd_ldx_ins_fmlaq_lane_sep)
  <2> DEFINE pre == [j \in 1..16 |->
                 LET n == j - 1 IN
                 IF n \in {0, 3, 6, 9, 15} THEN Ldr(V(n))
                 ELSE IF n \in {2, 5, 8, 11, 14} THEN Ins(V(n), X(n))
                 ELSE Ldr(X(n))]
             body == Packed(16, 1, pre, RmwV)
  <2>1. ~Crosses(ByHand(body, X(0), Xs(1, 20), 16))
    <3> DEFINE f == [i \in 0..15 |-> i + 1]
               x == [i \in 0..31 |-> i + 1]
               h == HandHome(f, x, -1)
    <3>1. \A k \in 1..16 :
            /\ f[k - 1] = k /\ x[k - 1] = k /\ k - 1 \in 0..15
            /\ pre[k] \in {Ldr(V(k - 1)), Ins(V(k - 1), X(k - 1)), Ldr(X(k - 1))}
      OBVIOUS
    <3>2. ASSUME NEW k \in 1..16, (k - 1) % 1 = 0
          PROVE  Stays(h, k, pre[1 + (k - 1) \div 1])
      <4>1. Stays(h, k, Ldr(V(k - 1))) /\ Stays(h, k, Ldr(X(k - 1)))
        BY <3>1, HandStays
      <4>2. Stays(h, k, Ins(V(k - 1), X(k - 1)))
        BY <3>1, HandStays
      <4>3. 1 + (k - 1) \div 1 = k
        OBVIOUS
      <4> HIDE DEF pre
      <4> QED
        BY <3>1, <4>1, <4>2, <4>3
    <3>3. /\ 16 \in 1..16 /\ 1 \in 1..16 /\ 1..16 \subseteq 1..16
      OBVIOUS
    <3> HIDE DEF pre, f, x
    <3>4. \A k \in 1..16 : Stays(h, k, RmwV[15 + k])
      BY <3>3, HandStays
    <3> HIDE DEF h
    <3> QED
      BY <3>2, <3>3, <3>4, PackedApart, ZenonT(40)
  <2>2. Threaded(LATENCY_MEM(<<Ldr(V(0)), Rmw(V(1))>>))
    BY MacroRepeats, VShapes
  <2>3. /\ "ldd_ldx_ins_fmlaq_lane_sep" \notin Entangled
        /\ "ldd_ldx_ins_fmlaq_lane_sep" \notin Unchained
    BY DEF Entangled, Unchained
  <2> QED
    BY <2>1, <2>2, <2>3, BothMeasured, SMTT(30) DEF LddLdxIns
<1>2. Measured("ldd_nop_ldx_ins_fmlaq_lane_sep", LddLdxIns.ldd_nop_ldx_ins_fmlaq_lane_sep)
  <2> DEFINE body == [k \in 1..16 |->
               LET m == Rmw(V(15 + k))  n == (k + 3) \div 4 IN
               CASE k % 4 = 1 -> <<Ldr(V(3 * n - 3)), m>>
                 [] k % 4 = 2 -> <<m>>
                 [] k % 4 = 3 -> <<Ldr(X(3 * n - 2)), m>>
                 [] OTHER -> <<Ins(V(3 * n - 1), X(<<2, 5, 11, 14>>[n])), m>>]
  <2>1. ~Crosses(ByHand(body, X(0), Xs(1, 20), 16))
    <3> DEFINE f == [i \in 0..15 |-> IF i % 3 = 2 THEN 4 * ((i + 1) \div 3) ELSE 0]
               x == [i \in 0..31 |-> IF i % 3 = 1 THEN 0 ELSE -1]
               h == HandHome(f, x, -1)
    <3>1. ASSUME NEW k \in 1..16 PROVE StayTogether(h, k, body[k])
      <4>1. k \in 1..16 /\ Stays(h, k, Rmw(V(15 + k))) /\ Stays(h, k, Nop)
        BY HandStays
      <4>2. CASE k % 4 = 1
        <5>1. body[k] = <<Ldr(V(3 * ((k + 3) \div 4) - 3)), Rmw(V(15 + k))>>
          BY <4>2
        <5>2. 3 * ((k + 3) \div 4) - 3 \in 0..15 /\ f[3 * ((k + 3) \div 4) - 3] = 0
          BY <4>2, SMTT(30)
        <5>3. Stays(h, k, Ldr(V(3 * ((k + 3) \div 4) - 3)))
          BY <4>1, <5>2, HandStays
        <5> QED
          BY <4>1, <5>1, <5>3, StayTogetherIs
      <4>3. CASE k % 4 = 2
        <5>1. body[k] = <<Rmw(V(15 + k))>>
          BY <4>3
        <5> QED
          BY <4>1, <5>1, StayTogetherIs
      <4>4. CASE k % 4 = 3
        <5>1. body[k] = <<Ldr(X(3 * ((k + 3) \div 4) - 2)), Rmw(V(15 + k))>>
          BY <4>4
        <5>2. x[3 * ((k + 3) \div 4) - 2] = 0
          BY <4>4
        <5>3. Stays(h, k, Ldr(X(3 * ((k + 3) \div 4) - 2)))
          BY <4>1, <5>2, HandStays
        <5> QED
          BY <4>1, <5>1, <5>3, StayTogetherIs
      <4>5. CASE k % 4 = 0
        <5>1. body[k] = <<Ins(V(3 * ((k + 3) \div 4) - 1), X(<<2, 5, 11, 14>>[(k + 3) \div 4])),
                           Rmw(V(15 + k))>>
          BY <4>5
        <5>2. /\ 3 * ((k + 3) \div 4) - 1 \in 0..15 /\ f[3 * ((k + 3) \div 4) - 1] = k
              /\ x[<<2, 5, 11, 14>>[(k + 3) \div 4]] = -1
          BY <4>5
        <5>3. Stays(h, k, Ins(V(3 * ((k + 3) \div 4) - 1), X(<<2, 5, 11, 14>>[(k + 3) \div 4])))
          BY <4>1, <5>2, HandStays
        <5> QED
          BY <4>1, <5>1, <5>3, StayTogetherIs
      <4> QED
        BY <4>2, <4>3, <4>4, <4>5
    <3>2. 16 \in 1..16 /\ DOMAIN body = 1..16
      OBVIOUS
    <3> HIDE DEF body, f, x, h
    <3> QED
      BY <3>1, <3>2, HandApart DEF StayTogether
  <2>2. Threaded(LATENCY_MEM(<<Ldr(V(0)), Rmw(V(1))>>))
    BY MacroRepeats, VShapes
  <2>3. /\ "ldd_nop_ldx_ins_fmlaq_lane_sep" \notin Entangled
        /\ "ldd_nop_ldx_ins_fmlaq_lane_sep" \notin Unchained
    BY DEF Entangled, Unchained
  <2> QED
    BY <2>1, <2>2, <2>3, BothMeasured, SMTT(30) DEF LddLdxIns
<1> QED
  BY <1>1, <1>2 DEF LddLdxIns, TableMeasured

LEMMA SmullSmlalMeasured == TableMeasured(SmullSmlal)
<1>1. Measured("smull_smlal_sadalp_sep", SmullSmlal.smull_smlal_sadalp_sep)
  <2> DEFINE body == [k \in 1..12 |->
               LET n == (k - 1) \div 2 IN
               IF k % 2 = 1 THEN <<Rmw(V(3 * n))>>
               ELSE <<Rmw(V(3 * n + 1)), Rmw(V(3 * n + 2))>>]
  <2>1. ~Crosses(ByHand(body, X(0), {}, 12))
    <3> DEFINE h == [v |-> [i \in 0..31 |-> 2 * (i \div 3) + (IF i % 3 = 0 THEN 1 ELSE 2)]]
    <3>1. ASSUME NEW k \in 1..12 PROVE StayTogether(h, k, body[k])
      <4>1. k \in Nat \ {0} /\ \A r : h.v[r] = k => Stays(h, k, Rmw(V(r)))
        BY OwnStays
      <4>2. CASE k % 2 = 1
        <5>1. body[k] = <<Rmw(V(3 * ((k - 1) \div 2)))>> /\ h.v[3 * ((k - 1) \div 2)] = k
          BY <4>2
        <5> QED
          BY <4>1, <5>1, StayTogetherIs
      <4>3. CASE k % 2 # 1
        <5>1. body[k] = <<Rmw(V(3 * ((k - 1) \div 2) + 1)), Rmw(V(3 * ((k - 1) \div 2) + 2))>>
          BY <4>3
        <5>2. h.v[3 * ((k - 1) \div 2) + 1] = k /\ h.v[3 * ((k - 1) \div 2) + 2] = k
          BY <4>3
        <5> QED
          BY <4>1, <5>1, <5>2, StayTogetherIs
      <4> QED
        BY <4>2, <4>3
    <3>2. 12 \in 1..16 /\ DOMAIN body = 1..12
      OBVIOUS
    <3> HIDE DEF body, h
    <3> QED
      BY <3>1, <3>2, HandApart DEF StayTogether
  <2>2. Threaded(LATENCY(<<Rmw(V(0)), Rmw(V(0)), Rmw(V(0))>>))
    BY MacroRepeats, VShapes
  <2>3. /\ "smull_smlal_sadalp_sep" \notin Entangled
        /\ "smull_smlal_sadalp_sep" \notin Unchained
    BY DEF Entangled, Unchained
  <2> QED
    BY <2>1, <2>2, <2>3, BothMeasured DEF SmullSmlal
<1> QED
  BY <1>1 DEF SmullSmlal, TableMeasured

------------------------------------------------------------------------------
\* Homes on ARMv7: a d register, or the two halves of a q register, for each group;
\* from the sixth on, and t for the q register that is only loaded or only read.
HomeD(m) == [d |-> [i \in 0..31 |-> IF i < 10 THEN i + 1 ELSE 0],
             r |-> [i \in 0..15 |-> i + 1], mem |-> [i \in {0} |-> m]]
HomeQ == [d |-> [i \in 0..31 |-> IF i < 20 THEN i \div 2 + 1 ELSE 0],
          mem |-> [i \in {0} |-> -1]]
StartD(t) == [d |-> [i \in 0..31 |-> IF i \in 6..15 THEN i - 5
                                     ELSE IF i \in {2, 3} THEN t ELSE -1],
              mem |-> [i \in {0} |-> -1]]
StartQ(t) == [d |-> [i \in 0..31 |-> IF i >= 12 THEN i \div 2 - 5
                                     ELSE IF i \in {2, 3} THEN t ELSE -1],
              mem |-> [i \in {0} |-> -1]]

LEMMA DKeeps ==
  ASSUME NEW m, NEW h, h = HomeD(m)
  PROVE  /\ Keep(h, RmwD, 10, 0) /\ Keep(h, RmwR, 9, 0) /\ Keep(h, Fixed(Nop), 10, 0)
         /\ m = -1 => /\ Keep(h, LdrD, 10, 0)
                       /\ Keep(h, Fixed(Ldr(D(22))), 10, 0)
                       /\ Keep(h, Fixed(Ldr(D(10))), 10, 0)
         /\ m = 0 => Keep(h, StrD, 10, 0)
<1>1. ASSUME NEW k \in 1..10
      PROVE  /\ k \in Nat \ {0} /\ k - 1 + 0 = k - 1 /\ k - 1 \in Reg
             /\ Homed(h, D(k - 1), {k}) /\ Homed(h, D(k - 1), {0, k})
             /\ Homed(h, D(k - 1), {-1, k}) /\ Homed(h, R(k - 1), {k})
             /\ m = -1 => Homed(h, Mem, {-1, k})
             /\ m = 0 => Homed(h, Mem, {0, k})
  <2>1. h.d[k - 1] = k /\ h.r[k - 1] = k /\ h.mem[0] = m
    BY DEF HomeD
  <2>2. k \in Nat \ {0} /\ k - 1 + 0 = k - 1 /\ k - 1 \in Reg
    BY DEF Reg
  <2> QED
    BY <2>1, <2>2, HomedIs
<1>2. Keep(h, RmwD, 10, 0)
  BY <1>1, StaysIs DEF Keep, RmwD
<1>3. Keep(h, RmwR, 9, 0)
  <2>1. 1..9 \subseteq 1..10
    OBVIOUS
  <2> QED
    BY <1>1, <2>1, StaysIs DEF Keep, RmwR
<1>4. Keep(h, Fixed(Nop), 10, 0)
  BY <1>1, StaysIs DEF Keep, Fixed
<1>5. m = -1 => Keep(h, LdrD, 10, 0)
  BY <1>1, StaysIs DEF Keep, LdrD
<1>6. m = 0 => Keep(h, StrD, 10, 0)
  BY <1>1, StaysIs DEF Keep, StrD
<1>7. ASSUME m = -1, NEW i \in {10, 22} PROVE Keep(h, Fixed(Ldr(D(i))), 10, 0)
  <2>1. h.d[i] \in {0} /\ h.mem[0] \in {-1}
    BY <1>7 DEF HomeD
  <2>2. Homed(h, D(i), {0}) /\ Homed(h, Mem, {-1})
    BY <2>1, HomedIs
  <2>3. Ldr(D(i)).dst = D(i) /\ Ldr(D(i)).src = Mem /\ 10 \in 1..20 /\ 0 \in {0, 6}
    BY Writes, Reads
  <2> QED
    BY <2>2, <2>3, FixedKeeps
<1> QED
  BY <1>2, <1>3, <1>4, <1>5, <1>6, <1>7

LEMMA QKeeps ==
  /\ Keep(HomeQ, RmwQ, 10, 0) /\ Keep(HomeQ, LdrQ, 10, 0)
  /\ Keep(HomeQ, Fixed(Ldr(D(22))), 10, 0)
<1>1. ASSUME NEW k \in 1..10
      PROVE  /\ k \in Nat \ {0} /\ k - 1 + 0 = k - 1 /\ k - 1 \in Reg
             /\ Homed(HomeQ, Q(k - 1), {k}) /\ Homed(HomeQ, Q(k - 1), {0, k})
             /\ Homed(HomeQ, Mem, {-1, k})
  <2>1. HomeQ.d[2 * (k - 1)] = k /\ HomeQ.d[2 * (k - 1) + 1] = k /\ HomeQ.mem[0] = -1
    BY DEF HomeQ
  <2>2. k \in Nat \ {0} /\ k - 1 + 0 = k - 1 /\ k - 1 \in Reg
    BY DEF Reg
  <2> QED
    BY <2>1, <2>2, HomedIs
<1>2. Keep(HomeQ, RmwQ, 10, 0)
  BY <1>1, StaysIs DEF Keep, RmwQ
<1>3. Keep(HomeQ, LdrQ, 10, 0)
  BY <1>1, StaysIs DEF Keep, LdrQ
<1>4. Keep(HomeQ, Fixed(Ldr(D(22))), 10, 0)
  <2>1. HomeQ.d[22] \in {0} /\ HomeQ.mem[0] \in {-1}
    BY DEF HomeQ
  <2>2. Homed(HomeQ, D(22), {0}) /\ Homed(HomeQ, Mem, {-1})
    BY <2>1, HomedIs
  <2>3. Ldr(D(22)).dst = D(22) /\ Ldr(D(22)).src = Mem /\ 10 \in 1..20 /\ 0 \in {0, 6}
    BY Writes, Reads
  <2> QED
    BY <2>2, <2>3, FixedKeeps
<1> QED
  BY <1>2, <1>3, <1>4

LEMMA StartKeeps ==
  ASSUME NEW t, NEW h
  PROVE  /\ h = StartD(t) => \A s : Homed(h, s, {-1}) => Keep(h, AccD(s), 10, 6)
         /\ h = StartQ(t) => \A s : Homed(h, s, {-1}) => Keep(h, AccQ(s), 10, 6)
                                                       /\ Keep(h, MoveQ(s), 10, 6)
         /\ h \in {StartD(t), StartQ(t)} =>
              /\ Homed(h, D(0), {-1}) /\ Homed(h, Q(0), {-1})
              /\ t = -1 => Homed(h, Q(1), {-1})
              /\ t = 0 => Keep(h, Fixed(Ldr(Q(1))), 10, 6)
<1>1. ASSUME NEW k \in 1..10, NEW s, Homed(h, s, {-1})
      PROVE  k \in Nat \ {0} /\ k - 1 + 6 = k + 5 /\ k + 5 \in Reg /\ Homed(h, s, {-1, k})
  BY <1>1 DEF Homed, Reg
<1>2. ASSUME h = StartD(t), NEW s, Homed(h, s, {-1}) PROVE Keep(h, AccD(s), 10, 6)
  <2>1. ASSUME NEW k \in 1..10 PROVE Homed(h, D(k + 5), {k})
    <3>1. h.d[k + 5] \in {k}
      BY <1>2 DEF StartD
    <3> QED
      BY <3>1, HomedIs
  <2> QED
    BY <1>1, <1>2, <2>1, StaysIs DEF Keep, AccD
<1>3. ASSUME h = StartQ(t), NEW s, Homed(h, s, {-1})
      PROVE  Keep(h, AccQ(s), 10, 6) /\ Keep(h, MoveQ(s), 10, 6)
  <2>1. ASSUME NEW k \in 1..10 PROVE Homed(h, Q(k + 5), {k}) /\ Homed(h, Q(k + 5), {0, k})
    <3>1. h.d[2 * (k + 5)] \in {k} /\ h.d[2 * (k + 5) + 1] \in {k}
      BY <1>3 DEF StartQ
    <3> QED
      BY <3>1, HomedIs
  <2>2. Keep(h, AccQ(s), 10, 6)
    BY <1>1, <1>3, <2>1, StaysIs DEF Keep, AccQ
  <2>3. Keep(h, MoveQ(s), 10, 6)
    BY <1>1, <1>3, <2>1, StaysIs DEF Keep, MoveQ
  <2> QED
    BY <2>2, <2>3
<1>4. ASSUME h \in {StartD(t), StartQ(t)}
      PROVE  /\ Homed(h, D(0), {-1}) /\ Homed(h, Q(0), {-1})
             /\ t = -1 => Homed(h, Q(1), {-1})
             /\ t = 0 => Keep(h, Fixed(Ldr(Q(1))), 10, 6)
  <2>1. /\ h.d[0] \in {-1} /\ h.d[2 * 0] \in {-1} /\ h.d[2 * 0 + 1] \in {-1}
        /\ h.d[2 * 1] \in {t} /\ h.d[2 * 1 + 1] \in {t} /\ h.mem[0] \in {-1}
    BY <1>4 DEF StartD, StartQ
  <2>2. /\ Homed(h, D(0), {-1}) /\ Homed(h, Q(0), {-1})
        /\ Homed(h, Q(1), {t}) /\ Homed(h, Mem, {-1})
    BY <2>1, HomedIs
  <2>3. Ldr(Q(1)).dst = Q(1) /\ Ldr(Q(1)).src = Mem /\ 10 \in 1..20 /\ 6 \in {0, 6}
    BY Writes, Reads
  <2> QED
    BY <2>2, <2>3, FixedKeeps
<1> QED
  BY <1>2, <1>3, <1>4

\* The loops of armv7.h written out by hand.
LEMMA V7HandApart ==
  ASSUME NEW body, NEW n \in 1..16, DOMAIN body = 1..n, NEW h,
         \A k \in 1..n : \A j \in DOMAIN body[k] : Stays(h, k, body[k][j]),
         NEW qs, NEW per
  PROVE  ~Crosses(V7ByHand(body, qs, per))
<1>1. V7ByHand(body, qs, per).body = body /\ n \in Nat
  BY DEF V7ByHand, V7
<1> QED
  BY <1>1, StaysApart

\* Tables of armv7.h.
LEMMA V7SingleMeasured == TableMeasured(V7Single)
<1>1. Measured("nop", V7Single.nop)
  <2>1. ~Crosses(V7Throughput(<<Fixed(Nop)>>))
    <3> DEFINE h == HomeD(-1)
    <3>1. Keep(h, Fixed(Nop), 10, 0)
      BY DKeeps, 0 # -1
    <3>2. Keeping(h, <<Fixed(Nop)>>, 10, 0)
      BY <3>1, KeepingIs
    <3> QED
      BY <3>2, MacroApart
  <2>2. Shallow(V7Latency(<<Nop>>))
    BY MacroRepeats, DShapes, VShapes
  <2>3. "nop" \notin Entangled /\ "nop" \in Unchained
    BY DEF Entangled, Unchained
  <2> QED
    BY <2>1, <2>2, <2>3, BothMeasured DEF V7Single
<1>2. Measured("eor_d", V7Single.eor_d)
  <2>1. ~Crosses(V7Throughput(<<RmwD>>))
    <3> DEFINE h == HomeD(-1)
    <3>1. Keep(h, RmwD, 10, 0)
      BY DKeeps, 0 # -1
    <3>2. Keeping(h, <<RmwD>>, 10, 0)
      BY <3>1, KeepingIs
    <3> QED
      BY <3>2, MacroApart
  <2>2. Threaded(V7Latency(<<Rmw(D(0))>>))
    BY MacroRepeats, DShapes, VShapes
  <2>3. "eor_d" \notin Entangled /\ "eor_d" \notin Unchained
    BY DEF Entangled, Unchained
  <2> QED
    BY <2>1, <2>2, <2>3, BothMeasured DEF V7Single
<1>3. Measured("eor_q", V7Single.eor_q)
  <2>1. ~Crosses(V7Throughput(<<RmwQ>>))
    <3> DEFINE h == HomeQ
    <3>1. Keep(h, RmwQ, 10, 0)
      BY QKeeps, 0 # -1
    <3>2. Keeping(h, <<RmwQ>>, 10, 0)
      BY <3>1, KeepingIs
    <3> QED
      BY <3>2, MacroApart
  <2>2. Threaded(V7Latency(<<Rmw(Q(0))>>))
    BY MacroRepeats, DShapes, VShapes
  <2>3. "eor_q" \notin Entangled /\ "eor_q" \notin Unchained
    BY DEF Entangled, Unchained
  <2> QED
    BY <2>1, <2>2, <2>3, BothMeasured DEF V7Single
<1>4. Measured("add_reg", V7Single.add_reg)
  <2>1. ~Crosses(V7ThroughputMem(<<RmwR>>, 9))
    <3> DEFINE h == HomeD(-1)
    <3>1. Keep(h, RmwR, 9, 0)
      BY DKeeps, 0 # -1
    <3>2. Keeping(h, <<RmwR>>, 9, 0)
      BY <3>1, KeepingIs
    <3> QED
      BY <3>2, MacroApart
  <2>2. Threaded(V7LatencyMem(<<Rmw(R(1))>>))
    BY MacroRepeats, DShapes, VShapes
  <2>3. "add_reg" \notin Entangled /\ "add_reg" \notin Unchained
    BY DEF Entangled, Unchained
  <2> QED
    BY <2>1, <2>2, <2>3, BothMeasured DEF V7Single
<1>5. Measured("ld1_d", V7Single.ld1_d)
  <2>1. ~Crosses(V7ThroughputMem(<<LdrD>>, 10))
    <3> DEFINE h == HomeD(-1)
    <3>1. Keep(h, LdrD, 10, 0)
      BY DKeeps, 0 # -1
    <3>2. Keeping(h, <<LdrD>>, 10, 0)
      BY <3>1, KeepingIs
    <3> QED
      BY <3>2, MacroApart
  <2>2. Shallow(V7LatencyMem(<<Ldr(D(0))>>))
    BY MacroRepeats, DShapes, VShapes
  <2>3. "ld1_d" \notin Entangled /\ "ld1_d" \in Unchained
    BY DEF Entangled, Unchained
  <2> QED
    BY <2>1, <2>2, <2>3, BothMeasured DEF V7Single
<1>6. Measured("vld1d_x2", V7Single.vld1d_x2)
  <2> DEFINE body == [k \in 1..10 |-> <<Ldr(Q(k - 1))>>]
  <2>1. ~Crosses(V7ByHand(body, Qs(0, 11), 10))
    <3>1. ASSUME NEW k \in 1..10 PROVE StayTogether(HomeQ, k, body[k])
      <4>1. k - 1 + 0 = k - 1 /\ k - 1 \in Reg
        BY DEF Reg
      <4>2. Stays(HomeQ, k, Ldr(Q(k - 1)))
        BY <4>1, QKeeps DEF Keep, LdrQ
      <4> QED
        BY <4>2, StayTogetherIs
    <3>2. 10 \in 1..16 /\ DOMAIN body = 1..10
      OBVIOUS
    <3> HIDE DEF body
    <3> QED
      BY <3>1, <3>2, V7HandApart DEF StayTogether
  <2>2. Shallow(V7LatencyMem(<<Ldr(Q(0))>>))
    BY MacroRepeats, DShapes, VShapes
  <2>3. "vld1d_x2" \notin Entangled /\ "vld1d_x2" \in Unchained
    BY DEF Entangled, Unchained
  <2> QED
    BY <2>1, <2>2, <2>3, BothMeasured DEF V7Single
<1>7. Measured("st1_d", V7Single.st1_d)
  <2>1. ~Crosses(V7ThroughputMem(<<StrD>>, 10))
    <3> DEFINE h == HomeD(0)
    <3>1. Keep(h, StrD, 10, 0)
      BY DKeeps, 0 # -1
    <3>2. Keeping(h, <<StrD>>, 10, 0)
      BY <3>1, KeepingIs
    <3> QED
      BY <3>2, MacroApart
  <2>2. Shallow(V7LatencyMem(<<Str(D(0))>>))
    BY MacroRepeats, DShapes, VShapes
  <2>3. "st1_d" \notin Entangled /\ "st1_d" \in Unchained
    BY DEF Entangled, Unchained
  <2> QED
    BY <2>1, <2>2, <2>3, BothMeasured DEF V7Single
<1>8. Measured("ldst1_d", V7Single.ldst1_d)
  <2>1. Crosses(V7ThroughputMem(<<LdrD, StrD>>, 10))
    <3> DEFINE cb == <<LdrD, StrD>>
    <3>1. DOMAIN cb = 1..2 /\ 0 \in Reg /\ 1 \in Reg
      BY DEF Reg
    <3>2. <<"mem", 0>> \in cb[2][0].dst /\ <<"mem", 0>> \in cb[1][1].src
      BY <3>1, Writes, Reads, Single DEF LdrD, StrD
    <3>3. V7ThroughputMem(cb, 10).body = Unroll(10, cb)
      BY DEF V7ThroughputMem, V7
    <3>4. \A l \in 1..(1 - 1) : l \in DOMAIN cb /\ <<"mem", 0>> \notin cb[l][1].dst
      OBVIOUS
    <3>5. 1 \in DOMAIN cb /\ 2 \in DOMAIN cb
      OBVIOUS
    <3> HIDE DEF cb
    <3> QED
      BY <3>2, <3>3, <3>4, <3>5, UnrolledCrosses, 10 \in Nat \ {0, 1} DEF cb
  <2>2. Threaded(V7LatencyMem(<<Ldr(D(0)), Str(D(0))>>))
    BY MacroRepeats, DShapes, VShapes
  <2>3. "ldst1_d" \in Entangled /\ "ldst1_d" \notin Unchained
    BY DEF Entangled, Unchained
  <2> QED
    BY <2>1, <2>2, <2>3, BothMeasured DEF V7Single
<1>9. Measured("ld1_q", V7Single.ld1_q)
  <2>1. ~Crosses(V7ThroughputMem(<<LdrQ>>, 10))
    <3> DEFINE h == HomeQ
    <3>1. Keep(h, LdrQ, 10, 0)
      BY QKeeps, 0 # -1
    <3>2. Keeping(h, <<LdrQ>>, 10, 0)
      BY <3>1, KeepingIs
    <3> QED
      BY <3>2, MacroApart
  <2>2. Shallow(V7LatencyMem(<<Ldr(Q(0))>>))
    BY MacroRepeats, DShapes, VShapes
  <2>3. "ld1_q" \notin Entangled /\ "ld1_q" \in Unchained
    BY DEF Entangled, Unchained
  <2> QED
    BY <2>1, <2>2, <2>3, BothMeasured DEF V7Single
<1> QED
  BY <1>1, <1>2, <1>3, <1>4, <1>5, <1>6, <1>7, <1>8, <1>9 DEF V7Single, TableMeasured

LEMMA V7LaneMeasured == TableMeasured(V7Lane)
<1>1. Measured("mlal_s8", V7Lane.mlal_s8)
  <2>1. ~Crosses(V7ThroughputStart6(<<AccQ(D(0))>>))
    <3> DEFINE h == StartQ(-1)
    <3>1. Homed(h, D(0), {-1})
      BY StartKeeps, HomedIs, h \in {StartD(-1), StartQ(-1)}
    <3>2. Keep(h, AccQ(D(0)), 10, 6)
      BY <3>1, StartKeeps
    <3>3. Keeping(h, <<AccQ(D(0))>>, 10, 6)
      BY <3>2, KeepingIs
    <3> QED
      BY <3>3, MacroApart
  <2>2. Threaded(V7Latency(<<Acc(Q(1), D(0))>>))
    BY MacroRepeats, DShapes, VShapes
  <2>3. "mlal_s8" \notin Entangled /\ "mlal_s8" \notin Unchained
    BY DEF Entangled, Unchained
  <2> QED
    BY <2>1, <2>2, <2>3, BothMeasured DEF V7Lane
<1>2. Measured("vmovl_s8", V7Lane.vmovl_s8)
  <2>1. ~Crosses(V7ThroughputStart6(<<MoveQ(D(0))>>))
    <3> DEFINE h == StartQ(-1)
    <3>1. Homed(h, D(0), {-1})
      BY StartKeeps, HomedIs, h \in {StartD(-1), StartQ(-1)}
    <3>2. Keep(h, MoveQ(D(0)), 10, 6)
      BY <3>1, StartKeeps
    <3>3. Keeping(h, <<MoveQ(D(0))>>, 10, 6)
      BY <3>2, KeepingIs
    <3> QED
      BY <3>3, MacroApart
  <2>2. Threaded(V7Latency(<<Move(Q(0), D(0))>>))
    BY MacroRepeats, DShapes, VShapes
  <2>3. "vmovl_s8" \notin Entangled /\ "vmovl_s8" \notin Unchained
    BY DEF Entangled, Unchained
  <2> QED
    BY <2>1, <2>2, <2>3, BothMeasured DEF V7Lane
<1>3. Measured("mla_s16_lane", V7Lane.mla_s16_lane)
  <2>1. ~Crosses(V7ThroughputStart6(<<AccQ(Q(1) \cup D(0))>>))
    <3> DEFINE h == StartQ(-1)
    <3>1. Homed(h, Q(1) \cup D(0), {-1})
      BY StartKeeps, HomedIs, h \in {StartD(-1), StartQ(-1)}
    <3>2. Keep(h, AccQ(Q(1) \cup D(0)), 10, 6)
      BY <3>1, StartKeeps
    <3>3. Keeping(h, <<AccQ(Q(1) \cup D(0))>>, 10, 6)
      BY <3>2, KeepingIs
    <3> QED
      BY <3>3, MacroApart
  <2>2. Threaded(V7Latency(<<Acc(Q(1), Q(0))>>))
    BY MacroRepeats, DShapes, VShapes
  <2>3. "mla_s16_lane" \notin Entangled /\ "mla_s16_lane" \notin Unchained
    BY DEF Entangled, Unchained
  <2> QED
    BY <2>1, <2>2, <2>3, BothMeasured DEF V7Lane
<1>4. Measured("mla_s16_lane_d", V7Lane.mla_s16_lane_d)
  <2>1. ~Crosses(V7ThroughputStart6(<<AccD(Q(0))>>))
    <3> DEFINE h == StartD(-1)
    <3>1. Homed(h, Q(0), {-1})
      BY StartKeeps, HomedIs, h \in {StartD(-1), StartQ(-1)}
    <3>2. Keep(h, AccD(Q(0)), 10, 6)
      BY <3>1, StartKeeps
    <3>3. Keeping(h, <<AccD(Q(0))>>, 10, 6)
      BY <3>2, KeepingIs
    <3> QED
      BY <3>3, MacroApart
  <2>2. Threaded(V7Latency(<<Acc(D(1), D(0))>>))
    BY MacroRepeats, DShapes, VShapes
  <2>3. "mla_s16_lane_d" \notin Entangled /\ "mla_s16_lane_d" \notin Unchained
    BY DEF Entangled, Unchained
  <2> QED
    BY <2>1, <2>2, <2>3, BothMeasured DEF V7Lane
<1> QED
  BY <1>1, <1>2, <1>3, <1>4 DEF V7Lane, TableMeasured

\* The k-th group of a loop accumulates in q(k + 1).
LaneHome == [d |-> [i \in 0..31 |-> IF i >= 4 THEN i \div 2 - 1 ELSE IF i = 3 THEN 0 ELSE -1],
             mem |-> [i \in {0} |-> -1]]

LEMMA LaneStays ==
  ASSUME NEW k \in 1..12
  PROVE  Stays(LaneHome, k, Ldr(D(3))) /\ Stays(LaneHome, k, Acc(Q(k + 1), Q(0)))
<1>1. /\ k \in Nat \ {0}
      /\ LaneHome.d[3] \in {0, k} /\ LaneHome.mem[0] \in {-1, k}
      /\ LaneHome.d[2 * 0] \in {-1, k} /\ LaneHome.d[2 * 0 + 1] \in {-1, k}
      /\ LaneHome.d[2 * (k + 1)] \in {k} /\ LaneHome.d[2 * (k + 1) + 1] \in {k}
  BY DEF LaneHome
<1>2. /\ Homed(LaneHome, D(3), {0, k}) /\ Homed(LaneHome, Mem, {-1, k})
      /\ Homed(LaneHome, Q(0), {-1, k}) /\ Homed(LaneHome, Q(k + 1), {k})
  BY <1>1, HomedIs
<1> QED
  BY <1>1, <1>2, StaysIs

LEMMA V7LdMlaMeasured == TableMeasured(V7LdMla)
<1>1. Measured("ldrd_mla_s16_lane", V7LdMla.ldrd_mla_s16_lane)
  <2> DEFINE body == [k \in 1..10 |-> <<Ldr(D(3)), Acc(Q(k + 1), Q(0))>>]
  <2>1. ~Crosses(V7ByHand(body, Qs(0, 11), 10))
    <3>1. ASSUME NEW k \in 1..10 PROVE StayTogether(LaneHome, k, body[k])
      <4>1. k \in 1..12
        OBVIOUS
      <4>2. Stays(LaneHome, k, Ldr(D(3))) /\ Stays(LaneHome, k, Acc(Q(k + 1), Q(0)))
        BY <4>1, LaneStays
      <4>3. body[k] = <<Ldr(D(3)), Acc(Q(k + 1), Q(0))>>
        OBVIOUS
      <4> QED
        BY <4>2, <4>3, StayTogetherIs
    <3>2. 10 \in 1..16 /\ DOMAIN body = 1..10
      OBVIOUS
    <3> HIDE DEF body
    <3> QED
      BY <3>1, <3>2, V7HandApart DEF StayTogether
  <2>2. Threaded(V7LatencyMem(<<Ldr(D(0)), Acc(Q(1), Q(0))>>))
    BY MacroRepeats, DShapes, VShapes
  <2>3. "ldrd_mla_s16_lane" \notin Entangled /\ "ldrd_mla_s16_lane" \notin Unchained
    BY DEF Entangled, Unchained
  <2> QED
    BY <2>1, <2>2, <2>3, BothMeasured DEF V7LdMla
<1>2. Measured("ldrd_mla_s16_lane_1_4", V7LdMla.ldrd_mla_s16_lane_1_4)
  <2> DEFINE body == [k \in 1..12 |->
                 LET m == Acc(Q(k + 1), Q(0)) IN
                 IF k % 4 = 1 THEN <<Ldr(D(3)), m>> ELSE <<m>>]
  <2>1. ~Crosses(V7ByHand(body, Qs(0, 13), 12))
    <3>1. ASSUME NEW k \in 1..12 PROVE StayTogether(LaneHome, k, body[k])
      <4>1. k \in 1..12
        OBVIOUS
      <4>2. Stays(LaneHome, k, Ldr(D(3))) /\ Stays(LaneHome, k, Acc(Q(k + 1), Q(0)))
        BY <4>1, LaneStays
      <4>3. body[k] = <<Ldr(D(3)), Acc(Q(k + 1), Q(0))>> \/ body[k] = <<Acc(Q(k + 1), Q(0))>>
        OBVIOUS
      <4> QED
        BY <4>2, <4>3, StayTogetherIs
    <3>2. 12 \in 1..16 /\ DOMAIN body = 1..12
      OBVIOUS
    <3> HIDE DEF body
    <3> QED
      BY <3>1, <3>2, V7HandApart DEF StayTogether
  <2>2. Threaded(V7LatencyMem(<<Ldr(D(0)), Acc(Q(1), Q(0))>>))
    BY MacroRepeats, DShapes, VShapes
  <2>3. "ldrd_mla_s16_lane_1_4" \notin Entangled /\ "ldrd_mla_s16_lane_1_4" \notin Unchained
    BY DEF Entangled, Unchained
  <2> QED
    BY <2>1, <2>2, <2>3, BothMeasured DEF V7LdMla
<1> QED
  BY <1>1, <1>2 DEF V7LdMla, TableMeasured

LEMMA V7PairsMeasured == TableMeasured(V7Pairs)
<1>1. Measured("mlal_s16_lane", V7Pairs.mlal_s16_lane)
  <2>1. Crosses(V7ThroughputStart6(<<AccOwn>>))
    <3> DEFINE b == V7ThroughputStart6(<<AccOwn>>)
               e == <<"d", 12>>
    <3>1. b.body = UnrollStart6(10, <<AccOwn>>)
      BY DEF V7ThroughputStart6, V7
    <3>2. b.body[1] = <<AccOwn[6]>> /\ b.body[7] = <<AccOwn[12]>> /\ DOMAIN b.body = 1..10
      <4>1. \A k \in 1..10 : b.body[k] = <<AccOwn[k + 5]>>
        BY <3>1 DEF UnrollStart6
      <4> QED
        BY <3>1, <4>1, 1 + 5 = 6, 7 + 5 = 12 DEF UnrollStart6
    <3>3. /\ AccOwn[6] = Acc(Q(6), D(6) \cup D(0))
          /\ AccOwn[12] = Acc(Q(12), D(12) \cup D(0))
      BY DEF AccOwn, Reg
    <3>4. e \in AccOwn[6].dst /\ e \in AccOwn[12].src
      <4>1. e \in Q(6) /\ e \in D(12)
        BY Single
      <4> QED
        BY <3>3, <4>1, Writes, Reads
    <3> HIDE DEF b, e
    <3>5. CrossesAt(b, 7, 1)
      <4>1. 1 \in 1..(7 - 1) /\ e \in b.body[1][1].dst /\ e \in b.body[7][1].src
            /\ 1 \in DOMAIN b.body[1] /\ \A i \in 1..(1 - 1) : e \notin b.body[7][i].dst
        BY <3>2, <3>4
      <4> QED
        BY <4>1 DEF CrossesAt
    <3>6. 7 \in DOMAIN b.body /\ 1 \in DOMAIN b.body[7]
      BY <3>2
    <3>7. Crosses(b)
      BY <3>5, <3>6 DEF Crosses
    <3> QED
      BY <3>7 DEF b
  <2>2. Threaded(V7Latency(<<Acc(Q(1), D(0))>>))
    BY MacroRepeats, DShapes, VShapes
  <2>3. "mlal_s16_lane" \in Entangled /\ "mlal_s16_lane" \notin Unchained
    BY DEF Entangled, Unchained
  <2> QED
    BY <2>1, <2>2, <2>3, BothMeasured DEF V7Pairs
<1>2. Measured("ld1d_fmlad", V7Pairs.ld1d_fmlad)
  <2>1. ~Crosses(V7ThroughputMem(<<Fixed(Ldr(D(22))), RmwD>>, 10))
    <3> DEFINE h == HomeD(-1)
    <3>1. Keep(h, Fixed(Ldr(D(22))), 10, 0) /\ Keep(h, RmwD, 10, 0)
      BY DKeeps, 0 # -1
    <3>2. Keeping(h, <<Fixed(Ldr(D(22))), RmwD>>, 10, 0)
      BY <3>1, KeepingIs
    <3> QED
      BY <3>2, MacroApart
  <2>2. Shallow(V7LatencyMem(<<Ldr(D(0)), Rmw(D(0))>>))
    BY MacroRepeats, DShapes, VShapes
  <2>3. "ld1d_fmlad" \notin Entangled /\ "ld1d_fmlad" \in Unchained
    BY DEF Entangled, Unchained
  <2> QED
    BY <2>1, <2>2, <2>3, BothMeasured DEF V7Pairs
<1>3. Measured("ld1d_fmlaq", V7Pairs.ld1d_fmlaq)
  <2>1. ~Crosses(V7ThroughputMem(<<Fixed(Ldr(D(22))), RmwQ>>, 10))
    <3> DEFINE h == HomeQ
    <3>1. Keep(h, Fixed(Ldr(D(22))), 10, 0) /\ Keep(h, RmwQ, 10, 0)
      BY QKeeps, 0 # -1
    <3>2. Keeping(h, <<Fixed(Ldr(D(22))), RmwQ>>, 10, 0)
      BY <3>1, KeepingIs
    <3> QED
      BY <3>2, MacroApart
  <2>2. Threaded(V7LatencyMem(<<Ldr(D(0)), Rmw(Q(0))>>))
    BY MacroRepeats, DShapes, VShapes
  <2>3. "ld1d_fmlaq" \notin Entangled /\ "ld1d_fmlaq" \notin Unchained
    BY DEF Entangled, Unchained
  <2> QED
    BY <2>1, <2>2, <2>3, BothMeasured DEF V7Pairs
<1>4. Measured("ld1dx2_fmlaq_lane", V7Pairs.ld1dx2_fmlaq_lane)
  <2>1. ~Crosses(V7ThroughputMemStart6(<<Fixed(Ldr(Q(1))), AccQ(D(0))>>))
    <3> DEFINE h == StartQ(0)
    <3>1. Homed(h, D(0), {-1})
      BY StartKeeps, HomedIs, h \in {StartD(0), StartQ(0)}
    <3>2. Keep(h, Fixed(Ldr(Q(1))), 10, 6) /\ Keep(h, AccQ(D(0)), 10, 6)
      BY <3>1, StartKeeps
    <3>3. Keeping(h, <<Fixed(Ldr(Q(1))), AccQ(D(0))>>, 10, 6)
      BY <3>2, KeepingIs
    <3> QED
      BY <3>3, MacroApart
  <2>2. Shallow(V7LatencyMem(<<Ldr(Q(0)), Rmw(Q(0))>>))
    BY MacroRepeats, DShapes, VShapes
  <2>3. "ld1dx2_fmlaq_lane" \notin Entangled /\ "ld1dx2_fmlaq_lane" \in Unchained
    BY DEF Entangled, Unchained
  <2> QED
    BY <2>1, <2>2, <2>3, BothMeasured DEF V7Pairs
<1>5. Measured("ld1dx2_fmlad_lane", V7Pairs.ld1dx2_fmlad_lane)
  <2>1. ~Crosses(V7ThroughputMemStart6(<<Fixed(Ldr(Q(1))), AccD(D(0))>>))
    <3> DEFINE h == StartD(0)
    <3>1. Homed(h, D(0), {-1})
      BY StartKeeps, HomedIs, h \in {StartD(0), StartQ(0)}
    <3>2. Keep(h, Fixed(Ldr(Q(1))), 10, 6) /\ Keep(h, AccD(D(0)), 10, 6)
      BY <3>1, StartKeeps
    <3>3. Keeping(h, <<Fixed(Ldr(Q(1))), AccD(D(0))>>, 10, 6)
      BY <3>2, KeepingIs
    <3> QED
      BY <3>3, MacroApart
  <2>2. Shallow(V7LatencyMem(<<Ldr(Q(0)), Rmw(D(0))>>))
    BY MacroRepeats, DShapes, VShapes
  <2>3. "ld1dx2_fmlad_lane" \notin Entangled /\ "ld1dx2_fmlad_lane" \in Unchained
    BY DEF Entangled, Unchained
  <2> QED
    BY <2>1, <2>2, <2>3, BothMeasured DEF V7Pairs
<1>6. Measured("ld1d_mlad_s16", V7Pairs.ld1d_mlad_s16)
  <2>1. ~Crosses(V7ThroughputMem(<<Fixed(Ldr(D(10))), RmwD>>, 10))
    <3> DEFINE h == HomeD(-1)
    <3>1. Keep(h, Fixed(Ldr(D(10))), 10, 0) /\ Keep(h, RmwD, 10, 0)
      BY DKeeps, 0 # -1
    <3>2. Keeping(h, <<Fixed(Ldr(D(10))), RmwD>>, 10, 0)
      BY <3>1, KeepingIs
    <3> QED
      BY <3>2, MacroApart
  <2>2. Shallow(V7LatencyMem(<<Ldr(D(0)), Rmw(D(0))>>))
    BY MacroRepeats, DShapes, VShapes
  <2>3. "ld1d_mlad_s16" \notin Entangled /\ "ld1d_mlad_s16" \in Unchained
    BY DEF Entangled, Unchained
  <2> QED
    BY <2>1, <2>2, <2>3, BothMeasured DEF V7Pairs
<1>7. Measured("mla_f32q_lane", V7Pairs.mla_f32q_lane)
  <2>1. ~Crosses(V7ThroughputStart6(<<AccQ(D(0))>>))
    <3> DEFINE h == StartQ(-1)
    <3>1. Homed(h, D(0), {-1})
      BY StartKeeps, HomedIs, h \in {StartD(-1), StartQ(-1)}
    <3>2. Keep(h, AccQ(D(0)), 10, 6)
      BY <3>1, StartKeeps
    <3>3. Keeping(h, <<AccQ(D(0))>>, 10, 6)
      BY <3>2, KeepingIs
    <3> QED
      BY <3>3, MacroApart
  <2>2. Threaded(V7Latency(<<Rmw(Q(0))>>))
    BY MacroRepeats, DShapes, VShapes
  <2>3. "mla_f32q_lane" \notin Entangled /\ "mla_f32q_lane" \notin Unchained
    BY DEF Entangled, Unchained
  <2> QED
    BY <2>1, <2>2, <2>3, BothMeasured DEF V7Pairs
<1>8. Measured("mla_f32d_lane", V7Pairs.mla_f32d_lane)
  <2>1. ~Crosses(V7ThroughputStart6(<<AccD(D(0))>>))
    <3> DEFINE h == StartD(-1)
    <3>1. Homed(h, D(0), {-1})
      BY StartKeeps, HomedIs, h \in {StartD(-1), StartQ(-1)}
    <3>2. Keep(h, AccD(D(0)), 10, 6)
      BY <3>1, StartKeeps
    <3>3. Keeping(h, <<AccD(D(0))>>, 10, 6)
      BY <3>2, KeepingIs
    <3> QED
      BY <3>3, MacroApart
  <2>2. Threaded(V7Latency(<<Rmw(D(0))>>))
    BY MacroRepeats, DShapes, VShapes
  <2>3. "mla_f32d_lane" \notin Entangled /\ "mla_f32d_lane" \notin Unchained
    BY DEF Entangled, Unchained
  <2> QED
    BY <2>1, <2>2, <2>3, BothMeasured DEF V7Pairs
<1> QED
  BY <1>1, <1>2, <1>3, <1>4, <1>5, <1>6, <1>7, <1>8 DEF V7Pairs, TableMeasured

------------------------------------------------------------------------------
\* The loops of loongarch.h and x86_avx.h.
LEMMA OthersRepeat ==
  ASSUME NEW x, NEW y, NEW z, NEW l, NEW m
  PROVE  /\ Repeating(LA(20, <<Fixed(x)>>, z, l, m), <<x>>)
         /\ Repeating(LA(10, <<Fixed(x)>>, z, l, m), <<x>>)
         /\ Repeating(X86(<<Fixed(x)>>, z), <<x>>)
         /\ Repeating(X86(<<Fixed(x), Fixed(y)>>, z), <<x, y>>)
BY FixedRepeats DEF Repeating, LA, X86

LEMMA LAMemoryMeasured == TableMeasured(LAMemory)
<1>1. Measured("xvld", LAMemory.xvld)
  <2>1. ~Crosses(LA(20, <<LdrV>>, Vs(0, 19), RUNS, TRUE))
    <3> DEFINE h == HomeV(20, {}, -1, -1)
    <3>1. Keep(h, LdrV, 20, 0)
      BY MacroKeeps, -1 \in {-1, 0}, 0 \in {-1, 0}
    <3>2. Keeping(h, <<LdrV>>, 20, 0)
      BY <3>1, KeepingIs
    <3> QED
      BY <3>2, MacroApart
  <2>2. Shallow(LA(20, <<Fixed(Ldr(V(0)))>>, V(0), RUNS, TRUE))
    BY OthersRepeat, VShapes
  <2>3. "xvld" \notin Entangled /\ "xvld" \in Unchained
    BY DEF Entangled, Unchained
  <2> QED
    BY <2>1, <2>2, <2>3, BothMeasured DEF LAMemory
<1>2. Measured("xvst", LAMemory.xvst)
  <2>1. ~Crosses(LA(20, <<StrV>>, Vs(0, 19), RUNS, TRUE))
    <3> DEFINE h == HomeV(20, {}, -1, 0)
    <3>1. Keep(h, StrV, 20, 0)
      BY MacroKeeps, -1 \in {-1, 0}, 0 \in {-1, 0}
    <3>2. Keeping(h, <<StrV>>, 20, 0)
      BY <3>1, KeepingIs
    <3> QED
      BY <3>2, MacroApart
  <2>2. Shallow(LA(20, <<Fixed(Str(V(0)))>>, V(0), RUNS, TRUE))
    BY OthersRepeat, VShapes
  <2>3. "xvst" \notin Entangled /\ "xvst" \in Unchained
    BY DEF Entangled, Unchained
  <2> QED
    BY <2>1, <2>2, <2>3, BothMeasured DEF LAMemory
<1> QED
  BY <1>1, <1>2 DEF LAMemory, TableMeasured

LEMMA LAFloatMeasured == TableMeasured(LAFloat)
<1>1. Measured("xvfadd_s", LAFloat.xvfadd_s)
  <2>1. ~Crosses(LA(10, <<RmwV>>, Vs(0, 9), RUNS * SCALE, FALSE))
    <3> DEFINE h == HomeV(20, {}, -1, -1)
    <3>1. Keep(h, RmwV, 10, 0)
      BY MacroKeeps, -1 \in {-1, 0}, 0 \in {-1, 0}
    <3>2. Keeping(h, <<RmwV>>, 10, 0)
      BY <3>1, KeepingIs
    <3> QED
      BY <3>2, MacroApart
  <2>2. Threaded(LA(10, <<Fixed(Rmw(V(0)))>>, V(0), RUNS * SCALE, FALSE))
    BY OthersRepeat, VShapes
  <2>3. "xvfadd_s" \notin Entangled /\ "xvfadd_s" \notin Unchained
    BY DEF Entangled, Unchained
  <2> QED
    BY <2>1, <2>2, <2>3, BothMeasured DEF LAFloat
<1> QED
  BY <1>1 DEF LAFloat, TableMeasured

LEMMA LAUnaryMeasured == TableMeasured(LAUnary)
<1>1. Measured("xvfadd_s", LAFloat.xvfadd_s)
  BY LAFloatMeasured DEF TableMeasured, LAFloat
<1>2. /\ "xvfsqrt_s" \notin Entangled /\ "xvfsqrt_s" \notin Unchained
      /\ "xvfadd_s" \notin Entangled /\ "xvfadd_s" \notin Unchained
  BY DEF Entangled, Unchained
<1> QED
  BY <1>1, <1>2 DEF LAUnary, Measured, TableMeasured

LEMMA AvxSseMeasured == TableMeasured(AvxSse)
<1>1. Measured("vfmadd132ps", AvxSse.vfmadd132ps)
  <2>1. ~Crosses(X86(<<RmwV>>, Vs(0, 9)))
    <3> DEFINE h == HomeV(20, {}, -1, -1)
    <3>1. Keep(h, RmwV, 10, 0)
      BY MacroKeeps, -1 \in {-1, 0}, 0 \in {-1, 0}
    <3>2. Keeping(h, <<RmwV>>, 10, 0)
      BY <3>1, KeepingIs
    <3> QED
      BY <3>2, MacroApart
  <2>2. Threaded(X86(<<Fixed(Rmw(V(0)))>>, V(0)))
    BY OthersRepeat, VShapes
  <2>3. "vfmadd132ps" \notin Entangled /\ "vfmadd132ps" \notin Unchained
    BY DEF Entangled, Unchained
  <2> QED
    BY <2>1, <2>2, <2>3, BothMeasured DEF AvxSse
<1>2. Measured("vpmaddwd_vpaddd", AvxSse.vpmaddwd_vpaddd)
  <2>1. ~Crosses(X86(<<RmwV, RmwV>>, Vs(0, 9)))
    <3> DEFINE h == HomeV(20, {}, -1, -1)
    <3>1. Keep(h, RmwV, 10, 0)
      BY MacroKeeps, -1 \in {-1, 0}, 0 \in {-1, 0}
    <3>2. Keeping(h, <<RmwV, RmwV>>, 10, 0)
      BY <3>1, KeepingIs
    <3> QED
      BY <3>2, MacroApart
  <2>2. Threaded(X86(<<Fixed(Rmw(V(0))), Fixed(Rmw(V(0)))>>, V(0)))
    BY OthersRepeat, VShapes
  <2>3. "vpmaddwd_vpaddd" \notin Entangled /\ "vpmaddwd_vpaddd" \notin Unchained
    BY DEF Entangled, Unchained
  <2> QED
    BY <2>1, <2>2, <2>3, BothMeasured DEF AvxSse
<1> QED
  BY <1>1, <1>2 DEF AvxSse, TableMeasured

------------------------------------------------------------------------------
\* All benchmarks.
LEMMA TablesMeasured == \A a \in DOMAIN Tables : \A T \in Tables[a] : TableMeasured(T)
<1>1. \A T \in Tables.aarch64 : TableMeasured(T)
  BY A64SingleMeasured, A64FloatMeasured, A64IntegerMeasured, A64PrefetchMeasured,
     LdPairsMeasured, SepPairsMeasured, LdxPairMeasured, SmlalPairsMeasured,
     LdrPairsMeasured, InsLdrMeasured, LdFmlaMeasured, LdFmlaLaneMeasured,
     SmlalMeasured, OneToFourMeasured, SshllInsMeasured, LdqInsToFourMeasured,
     OneToThreeMeasured, LdqToThreeAndTwoMeasured, LddLdxInsMeasured,
     SmullSmlalMeasured DEF Tables
<1>2. \A T \in Tables.armv7 : TableMeasured(T)
  BY V7SingleMeasured, V7LaneMeasured, V7LdMlaMeasured, V7PairsMeasured DEF Tables
<1>3. \A T \in Tables.loongarch : TableMeasured(T)
  BY LAMemoryMeasured, LAFloatMeasured, LAUnaryMeasured DEF Tables
<1>4. \A T \in Tables.x86 : TableMeasured(T)
  BY AvxSseMeasured DEF Tables
<1>5. DOMAIN Tables = {"aarch64", "armv7", "loongarch", "x86"}
  BY DEF Tables
<1> QED
  BY <1>1, <1>2, <1>3, <1>4, <1>5

LEMMA KnownMeasured ==
  ASSUME NEW id, NEW b
  PROVE  /\ Crosses(Known(id, b)) <=> Crosses(b)
         /\ Threaded(Known(id, b)) <=> Threaded(b)
         /\ Shallow(Known(id, b)) <=> Shallow(b)
<1>1. Known(id, b).body = b.body
  BY KnownNamed
<1>2. Locations(Known(id, b)) = Locations(b)
  BY <1>1 DEF Locations, InstrsOf
<1>3. Crosses(Known(id, b)) <=> Crosses(b)
  BY <1>1 DEF Crosses, CrossesAt
<1>4. Threaded(Known(id, b)) <=> Threaded(b)
  BY <1>1, <1>2 DEF Threaded, Paths, ThreadOf
<1>5. \A k : Bounded(Known(id, b), k) <=> Bounded(b, k)
  BY <1>1, <1>2 DEF Bounded, Ceilings, CeilingOf
<1> QED
  BY <1>1, <1>3, <1>4, <1>5 DEF Shallow

LEMMA CpuBenchMeasured ==
  ASSUME NEW b \in CpuBench
  PROVE  /\ b.id[3] # "latency" => (Crosses(b) <=> b.id[2] \in Entangled)
         /\ b.id[3] = "latency" => IF b.id[2] \in Unchained THEN Shallow(b) ELSE Threaded(b)
<1>1. PICK a \in DOMAIN Tables : b \in OfFamily(a)
  BY DEF CpuBench
<1>2. PICK T \in Tables[a] : b \in OfTable(a, T)
  BY <1>1 DEF OfFamily
<1>3. PICK n \in DOMAIN T, k \in Kinds : b = Known(<<a, n, k>>, T[n][k])
  BY <1>2 DEF OfTable
<1>4. b.id[2] = n /\ b.id[3] = k /\ Measured(n, T[n])
  BY <1>3, KnownNamed, TablesMeasured DEF TableMeasured
<1>5. CASE k = "throughput"
  <2>1. b = Known(<<a, n, k>>, T[n].throughput) /\ k # "latency"
    BY <1>3, <1>5
  <2>2. Crosses(b) <=> Crosses(T[n].throughput)
    BY <2>1, KnownMeasured
  <2> QED
    BY <1>4, <2>1, <2>2 DEF Measured
<1>6. CASE k = "latency"
  <2>1. b = Known(<<a, n, k>>, T[n].latency)
    BY <1>3, <1>6
  <2>2. /\ Threaded(b) <=> Threaded(T[n].latency)
        /\ Shallow(b) <=> Shallow(T[n].latency)
    BY <2>1, KnownMeasured
  <2> QED
    BY <1>4, <1>6, <2>2 DEF Measured
<1> QED
  BY <1>5, <1>6 DEF Kinds

\* A ceiling of at most three steps is lower than any loop is long.
LEMMA ShallowIsNotChained ==
  ASSUME \A b \in Bench : NamesWhatItWrites(b)
  PROVE  Spec => [](pc = "done" /\ Shallow(bench) => ~Chained)
<1>1. Spec => [](\A k \in Nat \ {0} :
                   Bounded(bench, k) =>
                     /\ flow.chain <= k
                     /\ pc = "done" /\ k < Len(bench.body) => ~Chained)
  BY BoundedIsNotChained
<1>2. Spec => []LoopInv
  BY LoopInvAlways
<1>3. ASSUME LoopInv,
             \A k \in Nat \ {0} :
               Bounded(bench, k) =>
                 /\ flow.chain <= k
                 /\ pc = "done" /\ k < Len(bench.body) => ~Chained
      PROVE  pc = "done" /\ Shallow(bench) => ~Chained
  <2> SUFFICES ASSUME pc = "done", Shallow(bench) PROVE ~Chained
    OBVIOUS
  <2>1. bench \in Bench
    BY <1>3 DEF LoopInv
  <2>2. PICK k \in 1..3 : Bounded(bench, k)
    BY DEF Shallow
  <2>3. k \in Nat \ {0} /\ k < Len(bench.body)
    BY <2>1, BenchTypes DEF Shallow
  <2> QED
    BY <1>3, <2>2, <2>3
<1> QED
  BY <1>1, <1>2, <1>3, PTL

\* The two figures of every benchmark of the four processor families: the
\* operations of a throughput loop use each other's results in just the loops
\* listed as Entangled, those of a latency loop wait for one another in all
\* but the Unchained; for any RUNS and SCALE and any number of iterations.
THEOREM CpuLoopsMeasured ==
  ASSUME Bench \subseteq CpuBench
  PROVE  Spec => [](ThroughputIndependent /\ LatencyChained)
<1>1. \A b \in Bench : NamesWhatItWrites(b)
  BY CpuBenchNamed
<1>2. Spec => [](pc = "done" => (flow.crossed <=> Crosses(bench)))
  BY <1>1, CrossedIsOfBody
<1>3. Spec => [](pc = "done" /\ Threaded(bench) => Chained)
  BY <1>1, ThreadedIsChained
<1>4. Spec => [](pc = "done" /\ Shallow(bench) => ~Chained)
  BY <1>1, ShallowIsNotChained
<1>5. Spec => []LoopInv
  BY <1>1, LoopInvAlways
<1>6. ASSUME LoopInv, pc = "done" => (flow.crossed <=> Crosses(bench)),
             pc = "done" /\ Threaded(bench) => Chained,
             pc = "done" /\ Shallow(bench) => ~Chained
      PROVE  ThroughputIndependent /\ LatencyChained
  <2>1. bench \in CpuBench
    BY <1>6 DEF LoopInv
  <2>2. /\ bench.id[3] # "latency" => (Crosses(bench) <=> bench.id[2] \in Entangled)
        /\ bench.id[3] = "latency" => IF bench.id[2] \in Unchained THEN Shallow(bench)
                                                                   ELSE Threaded(bench)
    BY <2>1, CpuBenchMeasured
  <2>3. ThroughputIndependent
    BY <1>6, <2>2 DEF ThroughputIndependent, Latency, Name
  <2>4. LatencyChained
    BY <1>6, <2>2 DEF LatencyChained, Latency, Name
  <2> QED
    BY <2>3, <2>4
<1> QED
  BY <1>2, <1>3, <1>4, <1>5, <1>6, PTL
=============================================================================
