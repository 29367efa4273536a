------------------------------ MODULE BenchLoop ------------------------------
(***************************************************************************)
(* One run of a CPU micro-benchmark: the inline-assembly loop of the       *)
(* THROUGHPUT and LATENCY macros (aarch64_dual_issue.h, armv7.h,           *)
(* loongarch.h, x86_avx.cpp, x86_sse.cpp) and of the functions written out *)
(* by hand.  The loop zeroes some vector registers, loads a counter,       *)
(* executes its body until the counter says so, and returns the number of  *)
(* operations it claims to have executed, by which benchmark() divides     *)
(* the elapsed time.                                                       *)
(*                                                                         *)
(* A body is a sequence of groups, one per operation counted; a group is a *)
(* sequence of instructions [dst, src], the sets of locations written and  *)
(* read.  Bench is a set of records with                                   *)
(*   id        the identity of the benchmark                               *)
(*   body      the groups of one iteration                                 *)
(*   counter   the counter register as a singleton, {} when the loop       *)
(*             counts in the register of its input operand                 *)
(*   counts    "down" (subs, bne) or "up" (add, cmp, blt)                  *)
(*   zeroed    the registers cleared before the loop                       *)
(*   clobbers  the registers named in the clobber list                     *)
(*   per       operations returned per iteration                           *)
(*   loops     iterations asked for                                        *)
(*   pool      registers the compiler may give to the operands             *)
(*   saved     registers a function must preserve for its caller           *)
(*   memory    whether there is an a_ptr operand                           *)
(***************************************************************************)
EXTENDS Integers, Sequences, SequencesExt

CONSTANTS Bench,      \* the benchmarks
          MODULUS,    \* values of a counter register, scaled down from 2^32
          IterCap     \* bound of the history variables iter and flow

ASSUME MODULUSAssumption == MODULUS \in Nat \ {0, 1} /\ IterCap \in Nat

ASSUME BenchAssumption ==
  \A b \in Bench :
    /\ b.loops \in 1..(IterCap - 1) /\ 2 * b.loops < MODULUS
    /\ b.counts \in {"up", "down"} /\ b.per \in Nat /\ {} \notin b.pool
    /\ Len(b.body) \in Nat \ {0} /\ DOMAIN b.body = 1..Len(b.body)
    /\ \A g \in DOMAIN b.body :
         Len(b.body[g]) \in Nat \ {0} /\ DOMAIN b.body[g] = 1..Len(b.body[g])

VARIABLES bench,     \* the benchmark that runs
          operand,   \* registers the compiler chose: [runs, ptr], singletons
          pc,        \* "prologue", "body", "count", "return" or "done"
          group,     \* group of the next instruction
          at,        \* its place in the group
          counter,   \* value of the counter register
          bound,     \* value of the register that holds RUNS
          written,   \* registers whose caller's value is lost
          flow,      \* dataflow of the instructions executed so far
          iter,      \* iterations finished (history)
          returned   \* value returned

vars == <<bench, operand, pc, group, at, counter, bound, written, flow, iter,
          returned>>

InstrsOf(b)  == UNION {Range(g) : g \in Range(b.body)}
Locations(b) == UNION {i.dst \cup i.src : i \in InstrsOf(b)}

\* The compiler gives the operands registers outside the clobber list.
Operands(b) == {o \in [runs : b.pool, ptr : IF b.memory THEN b.pool ELSE {{}}] :
                  /\ o.runs \cap o.ptr = {}
                  /\ (o.runs \cup o.ptr) \cap b.clobbers = {}}

CounterRegister == IF bench.counter = {} THEN operand.runs ELSE bench.counter

------------------------------------------------------------------------------
\* Dataflow with unit latency.  ready: the length of the longest chain of
\* instructions a value depends on; writer: the group of this iteration that
\* wrote it; crossed: some group used what another one wrote in the iteration.
Longest(S) == CHOOSE n \in S : \A m \in S : m <= n

Issue(f, i, g) ==
  LET t == 1 + Longest({0} \cup {f.ready[r] : r \in i.src})
  IN [ready   |-> [r \in DOMAIN f.ready |-> IF r \in i.dst THEN t ELSE f.ready[r]],
      writer  |-> [r \in DOMAIN f.writer |-> IF r \in i.dst THEN g ELSE f.writer[r]],
      chain   |-> Longest({f.chain, t}),
      crossed |-> f.crossed \/ \E r \in i.src : f.writer[r] \notin {0, g}]

NewIteration(f) == [f EXCEPT !.writer = [r \in DOMAIN f.writer |-> 0]]

------------------------------------------------------------------------------
Init == /\ bench \in Bench
        /\ operand \in Operands(bench)
        /\ pc = "prologue"
        /\ group = 1
        /\ at = 1
        /\ counter = 0
        /\ bound = bench.loops
        /\ written = {}
        /\ flow = [ready   |-> [r \in Locations(bench) |-> 0],
                   writer  |-> [r \in Locations(bench) |-> 0],
                   chain   |-> 0,
                   crossed |-> FALSE]
        /\ iter = 0
        /\ returned = 0

StartValue == IF bench.counts = "up" THEN 0 ELSE bound

\* eor v0, v0, v0 ...; mov x0, #0 or mov x0, RUNS.
Prologue == /\ pc = "prologue"
            /\ pc' = "body"
            /\ counter' = StartValue
            /\ written' = bench.zeroed \cup CounterRegister
            /\ UNCHANGED <<bench, operand, group, at, bound, flow, iter, returned>>

\* A register the body overwrites holds any value from then on.
After(register, value, i) ==
  IF register \cap i.dst = {} THEN {value} ELSE 0..(MODULUS - 1)

Instr == bench.body[group][at]

Advance == IF at < Len(bench.body[group])
           THEN at' = at + 1 /\ UNCHANGED <<pc, group>>
           ELSE /\ at' = 1
                /\ IF group < Len(bench.body)
                   THEN group' = group + 1 /\ pc' = pc
                   ELSE group' = 1 /\ pc' = "count"

Execute == /\ pc = "body"
           /\ written' = written \cup Instr.dst
           /\ counter' \in After(CounterRegister, counter, Instr)
           /\ bound' \in After(operand.runs, bound, Instr)
           /\ flow' = IF iter < IterCap THEN Issue(flow, Instr, group) ELSE flow
           /\ Advance
           /\ UNCHANGED <<bench, operand, iter, returned>>

Signed(v) == IF 2 * v < MODULUS THEN v ELSE v - MODULUS

\* Variant: the loop forgets to count.
NotStepped == counter

\* subs x0, x0, #1 or add x0, x0, #1, on the whole register.
Stepped == IF bench.counts = "up" THEN (counter + 1) % MODULUS
           ELSE (counter + MODULUS - 1) % MODULUS

\* blt compares signed numbers; bne is taken until the counter is 0.
Repeats(c) == IF bench.counts = "up" THEN Signed(c) < Signed(bound) ELSE c # 0

CountAndBranch == /\ pc = "count"
                  /\ counter' = Stepped
                  /\ iter' = IF iter < IterCap THEN iter + 1 ELSE iter
                  /\ flow' = NewIteration(flow)
                  /\ pc' = IF Repeats(Stepped) THEN "body" ELSE "return"
                  /\ UNCHANGED <<bench, operand, group, at, bound, written, returned>>

\* The compiler's epilogue restores the registers it knows of: those of the
\* clobber list and the ones it took for the operands.
Return == /\ pc = "return"
          /\ pc' = "done"
          /\ returned' = bench.loops * bench.per
          /\ written' = written \ (bench.clobbers \cup operand.runs \cup operand.ptr)
          /\ UNCHANGED <<bench, operand, group, at, counter, bound, flow, iter>>

Done == pc = "done" /\ UNCHANGED vars

Next == Prologue \/ Execute \/ CountAndBranch \/ Return \/ Done

Spec == Init /\ [][Next]_vars
FairSpec == Spec /\ WF_vars(Next)

------------------------------------------------------------------------------
TypeOK == /\ operand \in Operands(bench)
          /\ pc \in {"prologue", "body", "count", "return", "done"}
          /\ group \in 1..Len(bench.body)
          /\ at \in 1..Len(bench.body[group])
          /\ counter \in 0..(MODULUS - 1)
          /\ bound \in 0..(MODULUS - 1)
          /\ written \subseteq bench.zeroed \cup CounterRegister \cup DOMAIN flow.ready
          /\ iter \in 0..IterCap
          /\ returned \in Nat

\* Whatever registers the compiler gives to the operands, the loop executes
\* its body exactly as often as it was asked to and works on the address it
\* was given: no body destroys the counter, the bound or a_ptr (x28 rather
\* than x0 counts the loops whose bodies load x0 to x19, r10 rather than r0
\* those that add to r0 to r8).
RunsExactly ==
  /\ pc \in {"return", "done"} => iter = bench.loops
  /\ pc # "done" => operand.ptr \cap written = {}

\* The count returned is the number of operations executed (benchmark() at
\* common.h:95-109 divides the elapsed time by it).
CountsOperations == pc = "done" => returned = iter * Len(bench.body)

\* A function comes back with its caller's registers intact: everything it
\* destroys is in the clobber list or is not preserved across calls anyway.
CallerRegistersKept == pc = "done" => written \cap bench.saved = {}

\* The registers of the input operands still hold at the end of the assembly
\* what the compiler put there, as it may assume of operands that are inputs
\* only, except in the loops without a counter of their own: those of
\* loongarch.h:20-82 count down in the register of their input RUNS.
InputOperandsKept ==
  pc = "return" =>
    (bench.counter # {} <=> (operand.runs \cup operand.ptr) \cap written = {})

\* Every benchmark comes back from its loop.
Terminates == <>(pc = "done")

------------------------------------------------------------------------------
\* What a function must observe for all this: of the registers that the
\* operands may get or that the caller wants back it writes only those it
\* names as clobbered, and no instruction of the body writes the counter.
Written(b) == b.zeroed \cup b.counter \cup UNION {i.dst : i \in InstrsOf(b)}

NamesWhatItWrites(b) ==
  /\ Written(b) \cap ((UNION b.pool) \cup b.saved) \subseteq b.clobbers
  /\ b.counter \subseteq b.clobbers
  /\ \A i \in InstrsOf(b) : i.dst \cap b.counter = {}

\* The counter and the bound are what the iterations finished make them.
Counted ==
  /\ bound = bench.loops
  /\ iter \in 0..bench.loops
  /\ pc = "prologue" => iter = 0
  /\ pc \in {"body", "count"} =>
       /\ iter < bench.loops
       /\ counter = IF bench.counts = "up" THEN iter ELSE bench.loops - iter
  /\ pc \in {"return", "done"} => iter = bench.loops

\* What the loop has destroyed never includes the address it works on, and
\* includes nothing to be preserved that the epilogue does not restore.
Restorable ==
  /\ pc # "done" => /\ operand.ptr \cap written = {}
                    /\ written \cap bench.saved
                         \subseteq bench.clobbers \cup operand.runs
  /\ pc = "done" => /\ written \cap bench.saved = {}
                    /\ returned = iter * bench.per

\* A loop that counts in a register of its own leaves its inputs alone, one
\* that counts in its input has destroyed it from the start.
InputsTracked ==
  /\ pc \notin {"prologue", "done"} => CounterRegister \subseteq written
  /\ pc # "done" /\ bench.counter # {} => operand.runs \cap written = {}

\* The inductive invariant of a benchmark that names what it writes.
IndInv == /\ NamesWhatItWrites(bench)
          /\ TypeOK
          /\ DOMAIN flow.ready = Locations(bench)
          /\ pc \in {"prologue", "count", "return"} => group = 1 /\ at = 1
          /\ Counted
          /\ Restorable
          /\ InputsTracked

------------------------------------------------------------------------------
\* What the body of a benchmark says of its dataflow.  Instruction j of group g
\* crosses if it reads what an earlier group of the iteration wrote and its
\* own group has not written since.
CrossesAt(b, g, j) ==
  \E r \in b.body[g][j].src :
    /\ \E h \in 1..(g - 1) : \E k \in DOMAIN b.body[h] : r \in b.body[h][k].dst
    /\ \A k \in 1..(j - 1) : r \notin b.body[g][k].dst

Crosses(b) == \E g \in DOMAIN b.body : \E j \in DOMAIN b.body[g] : CrossesAt(b, g, j)

\* A thread of a group is a location before each of its instructions and one
\* after the last, where the next group finds it again: an instruction passes
\* the value on from one to the next or leaves it where it is, and one passes.
Passes(i, from, to) == from \in i.src /\ to \in i.dst

Threads(gp, p) ==
  /\ p[Len(gp) + 1] = p[1]
  /\ \E j \in DOMAIN gp : Passes(gp[j], p[j], p[j + 1])
  /\ \A j \in DOMAIN gp : \/ Passes(gp[j], p[j], p[j + 1])
                          \/ p[j + 1] = p[j] /\ p[j] \notin gp[j].dst

Paths(b) == [1..(Len(b.body[1]) + 1) -> Locations(b)]
ThreadOf(b, p) == \A g \in DOMAIN b.body : Threads(b.body[g], p)
                                         /\ Len(b.body[g]) = Len(b.body[1])
Threaded(b) == \E p \in Paths(b) : ThreadOf(b, p)

\* A ceiling of a group bounds the chain each location ends, before each
\* instruction and after the last.
Raises(i, low, high) ==
  \A r \in DOMAIN low :
    IF r \in i.dst THEN 1 <= high[r] /\ \A s \in i.src : low[s] + 1 <= high[r]
    ELSE low[r] <= high[r]

Ceilings(b, m) == [1..(Len(b.body[1]) + 1) -> [Locations(b) -> 0..m]]
CeilingOf(b, c, m) ==
  \A g \in DOMAIN b.body :
    /\ Len(b.body[g]) = Len(b.body[1])
    /\ c[Len(b.body[g]) + 1] = c[1]
    /\ \A j \in DOMAIN b.body[g] : /\ Raises(b.body[g][j], c[j], c[j + 1])
                                  /\ \A s \in b.body[g][j].src : c[j][s] < m
Bounded(b, m) == \E c \in Ceilings(b, m) : CeilingOf(b, c, m)

------------------------------------------------------------------------------
\* The dataflow kept is that of the instructions executed so far.
Before(g, j) == g < group \/ (g = group /\ j < at)

FlowOK ==
  /\ flow \in [ready : [Locations(bench) -> Nat], writer : [Locations(bench) -> Nat],
               chain : Nat, crossed : BOOLEAN]
  /\ \A r \in Locations(bench) : flow.ready[r] <= flow.chain

\* The writer of a location is the last group of the iteration to write it.
WritersKnown ==
  pc \in {"prologue", "body"} =>
    \A r \in Locations(bench) :
      /\ flow.writer[r] # 0 =>
           \E g \in DOMAIN bench.body : \E j \in DOMAIN bench.body[g] :
             flow.writer[r] = g /\ Before(g, j) /\ r \in bench.body[g][j].dst
      /\ \A g \in DOMAIN bench.body : \A j \in DOMAIN bench.body[g] :
           Before(g, j) /\ r \in bench.body[g][j].dst => flow.writer[r] >= g

\* What crosses has been seen as soon as it has been executed once.
CrossingsSeen ==
  /\ flow.crossed => Crosses(bench)
  /\ iter > 0 \/ pc = "count" => (Crosses(bench) => flow.crossed)
  /\ \A g \in DOMAIN bench.body : \A j \in DOMAIN bench.body[g] :
       Before(g, j) /\ CrossesAt(bench, g, j) => flow.crossed

\* A thread has been passed on once in each group executed.
Finished == iter * Len(bench.body) +
            (IF pc = "count" THEN Len(bench.body) ELSE group - 1)

ThreadsDeepen ==
  \A p \in Paths(bench) :
    ThreadOf(bench, p) =>
      /\ flow.ready[p[at]] >= Finished
      /\ (\E j \in 1..(at - 1) : Passes(bench.body[group][j], p[j], p[j + 1]))
           => flow.ready[p[at]] >= Finished + 1

\* No chain outgrows a ceiling.
CeilingsHold(m) ==
  \A c \in Ceilings(bench, m) :
    CeilingOf(bench, c, m) =>
      flow.chain <= m /\ \A r \in Locations(bench) : flow.ready[r] <= c[at][r]

\* The dataflow invariant, for the ceilings up to m.
FlowKept(m) == /\ FlowOK
               /\ WritersKnown
               /\ CrossingsSeen
               /\ ThreadsDeepen
               /\ CeilingsHold(m)
=============================================================================
