------------------------------ MODULE ClDefault ------------------------------
(***************************************************************************)
(* The default context and the default command queue of the C++ bindings   *)
(* (cl.hpp), created by the first thread that asks: Context::getDefault    *)
(* and CommandQueue::getDefault, the second of which calls the first.      *)
(*                                                                         *)
(* The state word of each default starts as not initialised where it is a  *)
(* volatile int.  Where it is an std::atomic<int> (C++11 and later) it has *)
(* no initialiser and starts as zero, a value the protocol does not know.  *)
(***************************************************************************)
EXTENDS Integers, FiniteSets

CONSTANTS Threads,    \* threads that ask for a default
          NULL        \* no object

VARIABLES atomic,     \* build: the state word is an std::atomic<int>
          throws,     \* build: __CL_ENABLE_EXCEPTIONS
          ordered,    \* machine: loads and stores take effect in order
          state,      \* default_initialized_ of each kind
          default,    \* default_ of each kind: an object or NULL
          error,      \* default_error_ of each kind
          refs,       \* references the driver counts
          pc,         \* where each thread is
          doing,      \* the kind whose getDefault a thread executes
          nested,     \* that call was made by CommandQueue::getDefault
          made,       \* the object a thread has just created
          context,    \* the local variable context of CommandQueue::getDefault
          told,       \* *err, as far as it is known
          got,        \* the result, as far as it is known
          stored,     \* the stores of an initialising thread that are visible
          early,      \* the loads of a waiting thread that were made too early
          hold,       \* what a thread's last call returned
          inits,      \* the threads that took it on them to initialise (history)
          first,      \* the first result handed out, as a tuple (history)
          thrown      \* an exception has left a call (history)

build  == <<atomic, throws, ordered>>
shared == <<state, default, error>>
locals == <<doing, nested, made, context, told, got, stored, early>>
past   == <<inits, first, thrown>>
vars   == <<build, shared, refs, pc, locals, hold, past>>

Kinds   == {"context", "queue"}
Objects == Kinds \X Threads     \* a thread creates at most one object of a kind

\* A process has finitely many threads.
ASSUME ThreadsAssumption == IsFiniteSet(Threads) /\ NULL \notin Objects

\* The values of the state word; 0 is that of an atomic without initialiser.
NotInitialized   == 1
BeingInitialized == 2
Initialized      == 4

------------------------------------------------------------------------------
\* Variant: the word is read and not exchanged.
OnlyRead(word) == word

\* compare_exchange(&default_initialized_, BEING_INITIALIZED, NOT_INITIALIZED).
Exchanged(word) == IF word = NotInitialized THEN BeingInitialized ELSE word

\* Variant: a queue whose context failed returns at once.
ReturnAtOnce(t) == "read"

\* A failed context is recorded as the error of the queue, which then counts
\* as initialised.
AfterContextFailed(t) == "store"

\* Variant: initialised before the error is stored.
FlagAnyTime(t) == TRUE

\* default_error_ is assigned before default_initialized_; there is no fence
\* in between.
FlagMayFollow(t) == ordered => "error" \in stored[t]

\* The loads behind the loop that waits for default_initialized_.
MayLoadEarly(t) == ~ordered

\* Variant: the copy handed out has no reference of its own.
Borrowed(o) == 0

\* The copy handed out is retained.
OwnReference(o) == 1

Adjust(r, o, d) == IF o # NULL /\ r[o] > 0 THEN [r EXCEPT ![o] = @ + d] ELSE r

Goes(t, label) == pc' = [pc EXCEPT ![t] = label]

\* The locals of a call are gone when it ends.
Leaves(t) == /\ Goes(t, "idle")
             /\ doing' = [doing EXCEPT ![t] = "context"]
             /\ made' = [made EXCEPT ![t] = NULL]
             /\ context' = [context EXCEPT ![t] = NULL]
             /\ told' = [told EXCEPT ![t] = "none"]

------------------------------------------------------------------------------
\* A store to an std::atomic is not seen before what was stored earlier, and
\* what follows its load is not loaded before it.
Init == /\ atomic \in BOOLEAN /\ throws \in BOOLEAN /\ ordered \in BOOLEAN
        /\ atomic => ordered
        /\ state = [k \in Kinds |-> IF atomic THEN 0 ELSE NotInitialized]
        /\ default = [k \in Kinds |-> NULL]
        /\ error = [k \in Kinds |-> "none"]
        /\ refs = [o \in Objects |-> 0]
        /\ pc = [t \in Threads |-> "idle"]
        /\ doing = [t \in Threads |-> "context"]
        /\ nested = [t \in Threads |-> FALSE]
        /\ made = [t \in Threads |-> NULL]
        /\ context = [t \in Threads |-> NULL]
        /\ told = [t \in Threads |-> "none"]
        /\ got = [t \in Threads |-> NULL]
        /\ stored = [t \in Threads |-> {}]
        /\ early = [t \in Threads |-> {}]
        /\ hold = [t \in Threads |-> NULL]
        /\ inits = [k \in Kinds |-> {}]
        /\ first = [k \in Kinds |-> <<>>]
        /\ thrown = FALSE

Call(t, k) ==
  /\ pc[t] = "idle" /\ hold[t] = NULL
  /\ Goes(t, "exchange")
  /\ doing' = [doing EXCEPT ![t] = k]
  /\ UNCHANGED <<build, shared, refs, nested, made, context, told, got, stored, early,
                 hold, past>>

\* The three answers of compare_exchange.  A queue needs the context first.
Exchange(t) ==
  LET k == doing[t] IN
  /\ pc[t] = "exchange"
  /\ state' = [state EXCEPT ![k] = Exchanged(@)]
  /\ \/ state[k] = Initialized /\ Goes(t, "read") /\ UNCHANGED <<inits, doing, nested>>
     \/ state[k] = BeingInitialized /\ Goes(t, "spin") /\ UNCHANGED <<inits, doing, nested>>
     \/ /\ state[k] \in {0, NotInitialized}
        /\ inits' = [inits EXCEPT ![k] = @ \cup {t}]
        /\ \/ k = "context" /\ Goes(t, "create") /\ UNCHANGED <<doing, nested>>
           \/ /\ k = "queue" /\ UNCHANGED pc
              /\ doing' = [doing EXCEPT ![t] = "context"]
              /\ nested' = [nested EXCEPT ![t] = TRUE]
  /\ UNCHANGED <<build, default, error, refs, made, context, told, got, stored, early,
                 hold, first, thrown>>

\* while (default_initialized_ != __DEFAULT_INITIALIZED) fence();
\* No fence follows the last load of the state word: where order is not kept,
\* default_error_ and default_ may be loaded before it, ...
EarlyError(t) ==
  /\ pc[t] = "spin" /\ MayLoadEarly(t) /\ "error" \notin early[t]
  /\ told' = [told EXCEPT ![t] = error[doing[t]]]
  /\ early' = [early EXCEPT ![t] = @ \cup {"error"}]
  /\ UNCHANGED <<build, shared, refs, pc, doing, nested, made, context, got, stored,
                 hold, past>>

EarlyDefault(t) ==
  /\ pc[t] = "spin" /\ MayLoadEarly(t) /\ "default" \notin early[t]
  /\ got' = [got EXCEPT ![t] = default[doing[t]]]
  /\ early' = [early EXCEPT ![t] = @ \cup {"default"}]
  /\ UNCHANGED <<build, shared, refs, pc, doing, nested, made, context, told, stored,
                 hold, past>>

\* ... which is undone by the fence if the loop goes round once more.
SpinAgain(t) ==
  /\ pc[t] = "spin" /\ state[doing[t]] # Initialized /\ early[t] # {}
  /\ told' = [told EXCEPT ![t] = "none"]
  /\ got' = [got EXCEPT ![t] = NULL]
  /\ early' = [early EXCEPT ![t] = {}]
  /\ UNCHANGED <<build, shared, refs, pc, doing, nested, made, context, stored, hold, past>>

SpinEnds(t) ==
  /\ pc[t] = "spin" /\ state[doing[t]] = Initialized
  /\ Goes(t, "read")
  /\ UNCHANGED <<build, shared, refs, locals, hold, past>>

\* Context(CL_DEVICE_TYPE_DEFAULT, ...) or CommandQueue(context, device, ...),
\* which needs a context that is one.
Create(t) ==
  LET o == <<doing[t], t>> IN
  /\ pc[t] = "create" /\ (doing[t] = "queue" => context[t] # NULL)
  /\ refs' = [refs EXCEPT ![o] = 1]
  /\ made' = [made EXCEPT ![t] = o]
  /\ told' = [told EXCEPT ![t] = "none"]
  /\ Goes(t, "release")
  /\ UNCHANGED <<build, shared, doing, nested, context, got, stored, early,
                 hold, past>>

CreateFails(t) ==
  /\ pc[t] = "create" /\ ~throws
  /\ made' = [made EXCEPT ![t] = NULL]
  /\ told' = [told EXCEPT ![t] = "failed"]
  /\ Goes(t, "release")
  /\ UNCHANGED <<build, shared, refs, doing, nested, context, got, stored, early,
                 hold, past>>

\* The exception leaves getDefault, and CommandQueue::getDefault with it; the
\* state words stay what they are.
CreateThrows(t) ==
  /\ pc[t] = "create" /\ throws
  /\ refs' = Adjust(refs, context[t], -1)
  /\ Leaves(t)
  /\ nested' = [nested EXCEPT ![t] = FALSE]
  /\ thrown' = TRUE
  /\ UNCHANGED <<build, shared, got, stored, early, hold, inits, first>>

\* default_ = ..., by the assignment of ClWrapper: release and then set.
ReleaseOld(t) ==
  /\ pc[t] = "release"
  /\ refs' = Adjust(refs, default[doing[t]], -1)
  /\ Goes(t, "set")
  /\ UNCHANGED <<build, shared, locals, hold, past>>

SetDefault(t) ==
  /\ pc[t] = "set"
  /\ default' = [default EXCEPT ![doing[t]] = made[t]]
  /\ made' = [made EXCEPT ![t] = NULL]
  /\ Goes(t, "store")
  /\ UNCHANGED <<build, state, error, refs, doing, nested, context, told, got, stored,
                 early, hold, past>>

\* The two stores, and the fence behind them.
StoreError(t) ==
  /\ pc[t] = "store" /\ "error" \notin stored[t]
  /\ error' = [error EXCEPT ![doing[t]] = told[t]]
  /\ stored' = [stored EXCEPT ![t] = @ \cup {"error"}]
  /\ UNCHANGED <<build, state, default, refs, pc, doing, nested, made, context, told, got,
                 early, hold, past>>

StoreState(t) ==
  /\ pc[t] = "store" /\ "state" \notin stored[t] /\ FlagMayFollow(t)
  /\ state' = [state EXCEPT ![doing[t]] = Initialized]
  /\ stored' = [stored EXCEPT ![t] = @ \cup {"state"}]
  /\ UNCHANGED <<build, default, error, refs, pc, doing, nested, made, context, told, got,
                 early, hold, past>>

Fence(t) ==
  /\ pc[t] = "store" /\ stored[t] = {"error", "state"}
  /\ stored' = [stored EXCEPT ![t] = {}]
  /\ Goes(t, "read")
  /\ UNCHANGED <<build, shared, refs, doing, nested, made, context, told, got, early,
                 hold, past>>

\* *err = default_error_; return default_; unless that was loaded early.
ReadError(t) ==
  /\ pc[t] = "read"
  /\ told' = [told EXCEPT ![t] = IF "error" \in early[t] THEN @ ELSE error[doing[t]]]
  /\ Goes(t, "copy")
  /\ UNCHANGED <<build, shared, refs, doing, nested, made, context, got, stored, early,
                 hold, past>>

CopyDefault(t) ==
  /\ pc[t] = "copy"
  /\ got' = [got EXCEPT ![t] = IF "default" \in early[t] THEN @ ELSE default[doing[t]]]
  /\ Goes(t, "retain")
  /\ UNCHANGED <<build, shared, refs, doing, nested, made, context, told, stored, early,
                 hold, past>>

\* The copy is retained; a queue's local context is destroyed.
Return(t) ==
  LET k == doing[t]  o == got[t] IN
  /\ pc[t] = "retain" /\ ~nested[t]
  /\ refs' = Adjust(Adjust(refs, o, OwnReference(o)), context[t], -1)
  /\ hold' = [hold EXCEPT ![t] = o]
  /\ first' = IF first[k] = <<>> THEN [first EXCEPT ![k] = <<o>>] ELSE first
  /\ Leaves(t)
  /\ got' = [got EXCEPT ![t] = NULL]
  /\ early' = [early EXCEPT ![t] = {}]
  /\ UNCHANGED <<build, shared, nested, stored, inits, thrown>>

\* Back in CommandQueue::getDefault with the default context.
ReturnToQueue(t) ==
  LET o == got[t] IN
  /\ pc[t] = "retain" /\ nested[t]
  /\ refs' = Adjust(refs, o, OwnReference(o))
  /\ context' = [context EXCEPT ![t] = o]
  /\ doing' = [doing EXCEPT ![t] = "queue"]
  /\ nested' = [nested EXCEPT ![t] = FALSE]
  /\ first' = IF first["context"] = <<>> THEN [first EXCEPT !["context"] = <<o>>] ELSE first
  /\ got' = [got EXCEPT ![t] = NULL]
  /\ early' = [early EXCEPT ![t] = {}]
  /\ Goes(t, IF told[t] = "none" THEN "create" ELSE AfterContextFailed(t))
  /\ UNCHANGED <<build, shared, made, told, stored, hold, inits, thrown>>

\* The caller destroys what it got.
Drop(t) ==
  /\ pc[t] = "idle" /\ hold[t] # NULL
  /\ refs' = Adjust(refs, hold[t], -1)
  /\ hold' = [hold EXCEPT ![t] = NULL]
  /\ UNCHANGED <<build, shared, pc, locals, past>>

Step(t) == \/ Exchange(t) \/ EarlyError(t) \/ EarlyDefault(t) \/ SpinAgain(t) \/ SpinEnds(t)
           \/ Create(t) \/ CreateFails(t) \/ CreateThrows(t)
           \/ ReleaseOld(t) \/ SetDefault(t) \/ StoreError(t) \/ StoreState(t) \/ Fence(t)
           \/ ReadError(t) \/ CopyDefault(t) \/ Return(t) \/ ReturnToQueue(t)

Next == \E t \in Threads : Step(t) \/ Drop(t) \/ \E k \in Kinds : Call(t, k)

\* The scheduler runs every thread that can go on.
Spec == Init /\ [][Next]_vars /\ \A t \in Threads : WF_vars(Step(t))

------------------------------------------------------------------------------
\* Where the state word is an atomic, calls that overlap the first one may all
\* initialise; what is promised needs a single one.
Single(k) == ~atomic \/ Cardinality(inits[k]) <= 1

\* A caller that waited and got nothing, perhaps because it looked too early.
MissedIt(t) == ~ordered /\ "default" \in early[t] /\ got[t] = NULL

\* All calls of getDefault return the same object as the first; where the order
\* is not kept, one that waited may return nothing instead, even the first.
SameAsFirst ==
  [][\A t \in Threads :
       pc[t] = "retain" /\ pc'[t] # "retain" /\ Single(doing[t]) =>
         LET k == doing[t]  f == first[k]
         IN  \/ f \in {<<>>, <<got[t]>>}
             \/ MissedIt(t)
             \/ ~ordered /\ f = <<NULL>> /\ got[t] = default[k]]_vars

\* What is handed out, and the context a queue is created in, is alive from
\* before its retain until its holder destroys it.
HandedOutAlive ==
  \A t \in Threads, k \in Kinds : Single(k) =>
    \A o \in {got[t], hold[t], context[t]} : o # NULL /\ o[1] = k => refs[o] > 0

\* A caller that gets nothing is told of the error, and only then; where the
\* stores of the error and the state word, or the loads behind the loop, are not
\* in order it may not be told.
ErrorTold ==
  \A t \in Threads :
    pc[t] = "retain" /\ Single(doing[t]) /\ ordered => (got[t] = NULL <=> told[t] = "failed")

\* Every call returns, unless an exception has left the state word at being
\* initialised for ever.
CallsReturn == \A t \in Threads : pc[t] # "idle" ~> pc[t] = "idle" \/ thrown
=============================================================================
