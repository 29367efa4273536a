------------------------------ MODULE StubLoader ------------------------------
(***************************************************************************)
(* The lazy loader of the OpenCL stub (opencl-stub/src/libopencl-wrap.h).  *)
(*                                                                         *)
(* Every public function clX reads entry X of g_func_table with a plain    *)
(* load and calls it.  The entries start as the stubs clX_init, which call *)
(* load_library() and then clX again.  load_library() takes a mutex,       *)
(* returns at once when another thread is done, and otherwise opens the    *)
(* library, resolves all NR_FUNC functions and stores each one with        *)
(* __ATOMIC_RELAXED.                                                       *)
(*                                                                         *)
(* The load in clX is not atomic and takes no lock, so a thread may read   *)
(* the old pointer after the new one was stored.  The model keeps, per     *)
(* thread, the entries whose new value the thread is bound to see: those   *)
(* it stored or has read already (coherence), and those published by an    *)
(* unlock of the mutex before the thread's own lock (acquire/release).     *)
(* Any other entry may be read as the old or as the new pointer.           *)
(***************************************************************************)
EXTENDS Naturals

CONSTANTS
  Threads,   \* threads calling OpenCL functions
  NR_FUNC,   \* number of entries of g_func_table
  Libs,      \* libraries that get_library_handle can return
  Exports    \* Exports[l]: the indices whose name dlsym finds in l

Funcs == 1 .. NR_FUNC

Idle      == 0
Unopened  == "unopened"
NoLib     == "nolib"     \* the null handle
Nobody    == "nobody"
InitStub  == "init"      \* a pointer to the clX_init of the entry
ErrorStub == "error"     \* a pointer to the clX_error of the entry
NoThread  == "nothread"

ASSUME NRFuncAssumption == NR_FUNC \in Nat \ {0}
ASSUME ThreadsAssumption == NoThread \notin Threads
ASSUME LibsAssumption ==
  Libs \cap {Unopened, NoLib, Nobody, InitStub, ErrorStub} = {}
ASSUME ExportsAssumption == Exports \in [Libs -> SUBSET Funcs]

VARIABLES
  pc,        \* where each thread is
  fn,        \* the function of the thread's current or last call
  answer,    \* who answered it: a library, the error stub, or nobody yet
  table,     \* g_func_table, the value of the last store to each entry
  seen,      \* seen[t]: entries whose stored value t is bound to read
  carried,   \* entries published to whoever locks the mutex next
  owner,     \* the thread that holds mtx
  done,      \* the static flag of load_library
  handle,    \* the result of get_library_handle
  slot,      \* the loop index i of load_library, 1-based
  entries    \* entries[t]: how often t went through load_library (history)

vars == <<pc, fn, answer, table, seen, carried, owner, done, handle, slot,
          entries>>

\* clX reads its entry; the read is plain, so it may be stale.
Visible(t, f) ==
  IF f \in seen[t] THEN {table[f]} ELSE {InitStub, table[f]}

\* A variant that stores what dlsym returned without looking at it.
SlotValueUnchecked(h, f) == IF h # NoLib THEN h ELSE ErrorStub

\* The pointer load_library stores in entry f: what dlsym found, or the
\* error stub when there is no library or the library has no such symbol.
SlotValue(h, f) ==
  IF h # NoLib /\ f \in Exports[h] THEN h ELSE ErrorStub

\* A variant whose load_library does not look at its flag.
NeverLoaded == FALSE

\* load_library returns early.
AlreadyLoaded == done

\* The iteration for this slot is the last of the loop.
LoopEnds == slot >= NR_FUNC

Init ==
  /\ pc = [t \in Threads |-> "idle"]
  /\ fn = [t \in Threads |-> Idle]
  /\ answer = [t \in Threads |-> Nobody]
  /\ table = [f \in Funcs |-> InitStub]
  /\ seen = [t \in Threads |-> {}]
  /\ carried = {}
  /\ owner = NoThread
  /\ done = FALSE
  /\ handle = Unopened
  /\ slot = 1
  /\ entries = [t \in Threads |-> 0]

\* The program calls the public function f.
Call(t, f) ==
  /\ pc[t] = "idle"
  /\ pc' = [pc EXCEPT ![t] = "dispatch"]
  /\ fn' = [fn EXCEPT ![t] = f]
  /\ answer' = [answer EXCEPT ![t] = Nobody]
  /\ UNCHANGED <<table, seen, carried, owner, done, handle, slot, entries>>

\* clX read clX_init: the init stub calls load_library.
DispatchInit(t) ==
  /\ pc[t] = "dispatch"
  /\ InitStub \in Visible(t, fn[t])
  /\ pc' = [pc EXCEPT ![t] = "lock"]
  /\ UNCHANGED <<fn, answer, table, seen, carried, owner, done, handle, slot,
                 entries>>

\* clX read a resolved pointer: the library or on_init_failed answers.
DispatchFinal(t) ==
  /\ pc[t] = "dispatch"
  /\ \E v \in Visible(t, fn[t]) \ {InitStub} :
       answer' = [answer EXCEPT ![t] = v]
  /\ pc' = [pc EXCEPT ![t] = "idle"]
  /\ seen' = [seen EXCEPT ![t] = @ \cup {fn[t]}]
  /\ UNCHANGED <<fn, table, carried, owner, done, handle, slot, entries>>

\* A variant with double-checked locking: done is tested before mtx is taken.
LockUnlessDone(t) ==
  /\ pc[t] = "lock"
  /\ entries' = [entries EXCEPT ![t] = @ + 1]
  /\ IF done
     THEN /\ pc' = [pc EXCEPT ![t] = "dispatch"]
          /\ UNCHANGED <<owner, seen>>
     ELSE /\ owner = NoThread
          /\ owner' = t
          /\ seen' = [seen EXCEPT ![t] = @ \cup carried]
          /\ pc' = [pc EXCEPT ![t] = "open"]
  /\ UNCHANGED <<fn, answer, table, carried, done, handle, slot>>

\* load_library takes mtx and tests done.
Lock(t) ==
  /\ pc[t] = "lock"
  /\ owner = NoThread
  /\ owner' = t
  /\ seen' = [seen EXCEPT ![t] = @ \cup carried]
  /\ entries' = [entries EXCEPT ![t] = @ + 1]
  /\ pc' = [pc EXCEPT ![t] = IF AlreadyLoaded THEN "unlock" ELSE "open"]
  /\ UNCHANGED <<fn, answer, table, carried, done, handle, slot>>

\* handle = get_library_handle().
OpenLibrary(t) ==
  /\ pc[t] = "open"
  /\ handle' \in Libs \cup {NoLib}
  /\ slot' = 1
  /\ pc' = [pc EXCEPT ![t] = "store"]
  /\ UNCHANGED <<fn, answer, table, seen, carried, owner, done, entries>>

\* One iteration of the loop; the last one falls through to done = true.
StoreSlot(t) ==
  /\ pc[t] = "store"
  /\ table' = [table EXCEPT ![slot] = SlotValue(handle, slot)]
  /\ seen' = [seen EXCEPT ![t] = @ \cup {slot}]
  /\ IF LoopEnds
     THEN /\ done' = TRUE
          /\ pc' = [pc EXCEPT ![t] = "unlock"]
          /\ UNCHANGED slot
     ELSE /\ slot' = slot + 1
          /\ UNCHANGED <<pc, done>>
  /\ UNCHANGED <<fn, answer, carried, owner, handle, entries>>

\* A variant with mtx.lock() and no unlock on the way out.
OwnerForgotten == owner

\* Every way out of load_library destroys the lock_guard.
OwnerOnReturn == NoThread

\* The lock_guard is destroyed; clX_init calls clX again.
Unlock(t) ==
  /\ pc[t] = "unlock"
  /\ owner' = OwnerOnReturn
  /\ carried' = carried \cup seen[t]
  /\ pc' = [pc EXCEPT ![t] = "dispatch"]
  /\ UNCHANGED <<fn, answer, table, seen, done, handle, slot, entries>>

\* What a thread does inside a call; the loader gives it no choice to stop.
Step(t) ==
  \/ DispatchInit(t)
  \/ DispatchFinal(t)
  \/ Lock(t)
  \/ OpenLibrary(t)
  \/ StoreSlot(t)
  \/ Unlock(t)

Next ==
  \/ \E t \in Threads, f \in Funcs : Call(t, f)
  \/ \E t \in Threads : Step(t)

Spec == Init /\ [][Next]_vars

\* A running thread keeps running.  std::mutex promises no queueing, so
\* only weak fairness is assumed of Lock, like of every other step.
FairSpec == Spec /\ \A t \in Threads : WF_vars(Step(t))

-------------------------------------------------------------------------------

\* The refinement mapping to the abstract lazy dispatch.
Dispatch == INSTANCE LazyDispatch WITH
  lib  <- handle,
  call <- [t \in Threads |-> IF pc[t] = "idle" THEN Idle ELSE fn[t]]

Critical == {"open", "store", "unlock"}

\* The variables keep their types.
TypeOK ==
  /\ pc \in [Threads -> {"idle", "dispatch", "lock"} \cup Critical]
  /\ fn \in [Threads -> Funcs \cup {Idle}]
  /\ answer \in [Threads -> Libs \cup {ErrorStub, Nobody}]
  /\ table \in [Funcs -> Libs \cup {InitStub, ErrorStub}]
  /\ seen \in [Threads -> SUBSET Funcs]
  /\ carried \subseteq Funcs
  /\ owner \in Threads \cup {NoThread}
  /\ done \in BOOLEAN
  /\ handle \in Libs \cup {Unopened, NoLib}
  /\ slot \in Funcs
  /\ entries \in [Threads -> Nat]

Final(f) == SlotValue(handle, f)

\* Exactly the holder of mtx is inside load_library.
MutexHeld ==
  \A t \in Threads : pc[t] \in Critical <=> owner = t

\* The table is untouched until a thread opens the library, filled below
\* slot while that thread runs the loop, and final once done is set.
TableFilled ==
  /\ handle = Unopened =>
       /\ ~done
       /\ \A f \in Funcs : table[f] = InitStub
       /\ \A t \in Threads : pc[t] \notin {"store", "unlock"}
  /\ handle # Unopened =>
       \/ done /\ \A f \in Funcs : table[f] = Final(f)
       \/ /\ ~done
          /\ owner \in Threads /\ pc[owner] = "store"
          /\ \A f \in Funcs :
               table[f] = IF f < slot THEN Final(f) ELSE InitStub
  /\ \A t \in Threads :
       /\ pc[t] = "open" => handle = Unopened
       /\ pc[t] = "store" => ~done
       /\ pc[t] = "unlock" => done

\* What a thread is bound to see was stored, and a thread that has left
\* load_library, or holds mtx after the loop, is bound to see everything.
Visibility ==
  /\ \A t \in Threads : \A f \in seen[t] : table[f] # InitStub
  /\ carried \subseteq Funcs
  /\ carried # {} => done
  /\ done /\ owner = NoThread => carried = Funcs
  /\ \A t \in Threads :
       /\ pc[t] = "store" => \A f \in Funcs : f < slot => f \in seen[t]
       /\ pc[t] = "unlock" => seen[t] = Funcs
       /\ pc[t] = "lock" => fn[t] \notin seen[t]
       /\ entries[t] = 0 => pc[t] \notin Critical
       /\ entries[t] # 0 /\ pc[t] \notin Critical => seen[t] = Funcs
       /\ pc[t] # "idle" => fn[t] \in Funcs

\* A thread goes through load_library at most once in its life, however
\* stale the pointers it reads: the second dispatch of a clX_init never
\* finds clX_init again, and no later call of the thread does either.
AtMostOneEntry == \A t \in Threads : entries[t] <= 1

\* Every finished call was answered by the one opened library if that
\* library exports the function, by the error stub otherwise, and never
\* by a null or foreign pointer: even when the caller raced the loop that
\* fills the table.
AnswersFromHandle ==
  \A t \in Threads :
    answer[t] # Nobody =>
      /\ handle # Unopened
      /\ answer[t] = Dispatch!Provider(handle, fn[t])

\* The inductive invariant behind both: who is inside load_library, how far
\* the table is filled, and what each thread is bound to see of it.
IndInv ==
  TypeOK /\ MutexHeld /\ TableFilled /\ Visibility /\ AtMostOneEntry
    /\ AnswersFromHandle

\* No step takes back or replaces a resolved pointer, and only the holder
\* of mtx changes the table or the handle.
TableOnlyResolves ==
  [][ /\ \A f \in Funcs : table[f] # InitStub => table'[f] = table[f]
      /\ handle # Unopened => handle' = handle
      /\ <<table, handle>>' # <<table, handle>> =>
           owner # NoThread /\ owner' = owner ]_vars

\* Every call is answered, although clX and clX_init call each other
\* without a bound and mtx is not fair.
CallsAnswered ==
  \A t \in Threads : (pc[t] = "dispatch") ~> (pc[t] = "idle")

\* Every behaviour of the loader is one of LazyDispatch: one library,
\* chosen once, because of a call, answering every call.
ImplementsDispatch == Dispatch!Spec
===============================================================================
