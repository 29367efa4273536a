--------------------------- MODULE StubLoaderProofs ---------------------------
(***************************************************************************)
(* Proofs about StubLoader for every set of threads, every number of       *)
(* functions and every set of libraries.  The argument: the holder of mtx  *)
(* is the only thread inside load_library (MutexHeld); the table is        *)
(* untouched, being filled, or final accordingly (TableFilled); a thread   *)
(* that has left load_library is bound to see every entry (Visibility),    *)
(* so it can never read a clX_init again.                                  *)
(*                                                                         *)
(* The second part is about LibrarySearch, for every list of paths and     *)
(* every state of the files: until a library is found no path looked at is *)
(* one (Progress), and what has been opened is known exactly.              *)
(***************************************************************************)
EXTENDS StubLoader, LibrarySearch, TLAPS

USE DEF Funcs, Idle, Unopened, NoLib, Nobody, InitStub, ErrorStub, NoThread

\* The pointer load_library stores is never an init stub, and is the one the
\* abstract dispatch asks for.
LEMMA SlotValueFacts ==
  ASSUME NEW h \in Libs \cup {NoLib}, NEW f \in Funcs
  PROVE  /\ SlotValue(h, f) \in Libs \cup {ErrorStub}
         /\ SlotValue(h, f) # InitStub
         /\ SlotValue(h, f) # Nobody
         /\ SlotValue(h, f) = Dispatch!Provider(h, f)
  BY LibsAssumption
     DEF SlotValue, Dispatch!Provider, Dispatch!ErrorStub

\* The initial state of the program satisfies the inductive invariant.
LEMMA InitInd == Init => IndInv
  <1> SUFFICES ASSUME Init PROVE IndInv
    OBVIOUS
  <1> USE DEF Init
  <1>1. TypeOK
    <2>1. seen \in [Threads -> SUBSET Funcs]
      OBVIOUS
    <2>2. slot \in Funcs
      BY NRFuncAssumption
    <2>5. carried \subseteq Funcs /\ done \in BOOLEAN
      OBVIOUS
    <2>3. /\ pc \in [Threads -> {"idle", "dispatch", "lock"} \cup Critical]
          /\ entries \in [Threads -> Nat]
      OBVIOUS
    <2>4. /\ fn \in [Threads -> Funcs \cup {Idle}]
          /\ answer \in [Threads -> Libs \cup {ErrorStub, Nobody}]
          /\ table \in [Funcs -> Libs \cup {InitStub, ErrorStub}]
          /\ owner \in Threads \cup {NoThread}
          /\ handle \in Libs \cup {Unopened, NoLib}
      OBVIOUS
    <2> QED
      BY <2>1, <2>2, <2>3, <2>4, <2>5 DEF TypeOK
  <1>2. MutexHeld
    BY ThreadsAssumption DEF MutexHeld, Critical
  <1>3. TableFilled
    BY DEF TableFilled
  <1>4. Visibility
    BY DEF Visibility, Critical
  <1>5. AtMostOneEntry /\ AnswersFromHandle
    BY DEF AtMostOneEntry, AnswersFromHandle
  <1> QED
    BY <1>1, <1>2, <1>3, <1>4, <1>5 DEF IndInv

\* A call begins: only the caller's pc, fn and answer change.
LEMMA CallInd ==
  ASSUME IndInv, NEW t \in Threads, NEW f \in Funcs, Call(t, f)
  PROVE  IndInv'
  <1> USE DEF IndInv, Call
  <1>1. TypeOK'
    BY DEF TypeOK, Critical
  <1>2. MutexHeld'
    BY DEF TypeOK, MutexHeld, Critical
  <1>3. TableFilled'
    BY DEF TypeOK, MutexHeld, TableFilled, Critical, Final
  <1>4. Visibility'
    BY DEF TypeOK, Visibility, Critical
  <1>5. AtMostOneEntry' /\ AnswersFromHandle'
    BY DEF TypeOK, AtMostOneEntry, AnswersFromHandle
  <1> QED
    BY <1>1, <1>2, <1>3, <1>4, <1>5

\* A thread that reads clX_init has not seen the entry, hence never was in
\* load_library.
LEMMA DispatchInitInd ==
  ASSUME IndInv, NEW t \in Threads, DispatchInit(t)
  PROVE  IndInv'
  <1> USE DEF IndInv, DispatchInit
  <1>1. TypeOK'
    BY DEF TypeOK, Critical
  <1>2. MutexHeld'
    BY DEF TypeOK, MutexHeld, Critical
  <1>3. TableFilled'
    BY DEF TypeOK, MutexHeld, TableFilled, Critical, Final
  <1>4. Visibility'
    <2>1. fn[t] \notin seen[t]
      BY DEF Visibility, Visible
    <2> QED
      BY <2>1 DEF TypeOK, Visibility, Critical
  <1>5. AtMostOneEntry' /\ AnswersFromHandle'
    BY DEF TypeOK, AtMostOneEntry, AnswersFromHandle
  <1> QED
    BY <1>1, <1>2, <1>3, <1>4, <1>5

\* A thread that reads a resolved pointer reads the final one.
LEMMA DispatchFinalInd ==
  ASSUME IndInv, NEW t \in Threads, DispatchFinal(t)
  PROVE  IndInv'
  <1> USE DEF IndInv, DispatchFinal
  <1>0. fn[t] \in Funcs
    BY DEF Visibility
  <1>1. /\ table[fn[t]] # InitStub
        /\ answer' = [answer EXCEPT ![t] = table[fn[t]]]
    BY DEF Visible
  <1>2. handle \in Libs \cup {NoLib} /\ table[fn[t]] = SlotValue(handle, fn[t])
    BY <1>0, <1>1, LibsAssumption DEF TypeOK, TableFilled, Final
  <1>3. TypeOK'
    BY <1>0, <1>1, <1>2, SlotValueFacts DEF TypeOK, Critical
  <1>4. MutexHeld'
    BY DEF TypeOK, MutexHeld, Critical
  <1>5. TableFilled'
    BY DEF TypeOK, MutexHeld, TableFilled, Critical, Final
  <1>6. Visibility'
    <2>1. \A u \in Threads : \A f \in seen'[u] : table'[f] # InitStub
      BY <1>0, <1>1 DEF TypeOK, Visibility
    <2>2. carried' \subseteq Funcs /\ (carried' # {} => done')
      BY <1>0, <1>1 DEF TypeOK, Visibility
    <2>3. done' /\ owner' = NoThread => carried' = Funcs
      BY <1>0, <1>1, ThreadsAssumption DEF TypeOK, Visibility
    <2>4. ASSUME NEW u \in Threads
          PROVE  /\ pc'[u] = "store" => \A f \in Funcs : f < slot' => f \in seen'[u]
                 /\ pc'[u] = "unlock" => seen'[u] = Funcs
                 /\ pc'[u] = "lock" => fn'[u] \notin seen'[u]
                 /\ entries'[u] = 0 => pc'[u] \notin Critical
                 /\ entries'[u] # 0 /\ pc'[u] \notin Critical => seen'[u] = Funcs
                 /\ pc'[u] # "idle" => fn'[u] \in Funcs
      <3>1. u # t => seen'[u] = seen[u] /\ pc'[u] = pc[u] /\ entries'[u] = entries[u]
        BY DEF TypeOK
      <3>2. CASE u # t
        BY <1>0, <1>1, <3>1, <3>2 DEF TypeOK, MutexHeld, Visibility, Critical
      <3>3. CASE u = t
        <4>1. seen'[t] = seen[t] \cup {fn[t]} /\ seen[t] \subseteq Funcs
          BY DEF TypeOK
        <4>2. pc'[t] = "idle" /\ entries'[t] = entries[t]
          BY DEF TypeOK
        <4>3. entries[t] # 0 => seen[t] = Funcs
          BY DEF Visibility, Critical
        <4>4. entries[t] # 0 => seen'[t] = Funcs
          BY <1>0, <4>1, <4>3
        <4>5. entries[t] = 0 => pc'[t] \notin Critical
          BY <4>2 DEF Critical
        <4> QED
          BY <3>3, <4>2, <4>4, <4>5
      <3> QED
        BY <3>2, <3>3
    <2> QED
      BY <2>1, <2>2, <2>3, <2>4 DEF Visibility, Critical
  <1>7. AtMostOneEntry'
    BY DEF AtMostOneEntry
  <1>8. AnswersFromHandle'
    BY <1>0, <1>1, <1>2, SlotValueFacts, LibsAssumption
       DEF TypeOK, AnswersFromHandle, Dispatch!Provider, Dispatch!ErrorStub
  <1> QED
    BY <1>3, <1>4, <1>5, <1>6, <1>7, <1>8

\* A thread takes mtx: it enters load_library for the first time, and finds
\* either an untouched table or a complete one, all of it visible.
LEMMA LockInd ==
  ASSUME IndInv, NEW t \in Threads, Lock(t)
  PROVE  IndInv'
  <1> USE DEF IndInv, Lock, AlreadyLoaded
  <1>1. entries[t] = 0
    BY DEF TypeOK, Visibility, Critical
  <1>2. TypeOK'
    <2>1. seen' \in [Threads -> SUBSET Funcs]
      BY DEF TypeOK
    <2>2. /\ entries' \in [Threads -> Nat]
          /\ pc' \in [Threads -> {"idle", "dispatch", "lock"} \cup Critical]
      BY DEF TypeOK, Critical
    <2> QED
      BY <2>1, <2>2 DEF TypeOK
  <1>3. MutexHeld'
    BY ThreadsAssumption DEF TypeOK, MutexHeld, Critical
  <1>4. TableFilled'
    BY ThreadsAssumption DEF TypeOK, MutexHeld, TableFilled, Critical, Final
  <1>5. Visibility'
    <2>1. done => carried = Funcs /\ \A f \in Funcs : table[f] # InitStub
      BY LibsAssumption, SlotValueFacts
         DEF TypeOK, Visibility, TableFilled, Final
    <2>2. \A u \in Threads : \A f \in seen'[u] : table'[f] # InitStub
      BY <1>1, <2>1 DEF TypeOK, Visibility
    <2>3. carried' \subseteq Funcs /\ (carried' # {} => done')
      BY <1>1, <2>1 DEF TypeOK, Visibility
    <2>4. done' /\ owner' = NoThread => carried' = Funcs
      BY <1>1, <2>1, ThreadsAssumption DEF TypeOK, Visibility
    <2>5. ASSUME NEW u \in Threads
          PROVE  /\ pc'[u] = "store" => \A f \in Funcs : f < slot' => f \in seen'[u]
                 /\ pc'[u] = "unlock" => seen'[u] = Funcs
                 /\ pc'[u] = "lock" => fn'[u] \notin seen'[u]
                 /\ entries'[u] = 0 => pc'[u] \notin Critical
                 /\ entries'[u] # 0 /\ pc'[u] \notin Critical => seen'[u] = Funcs
                 /\ pc'[u] # "idle" => fn'[u] \in Funcs
      <3>1. u # t => seen'[u] = seen[u] /\ pc'[u] = pc[u] /\ entries'[u] = entries[u]
        BY DEF TypeOK
      <3>2. CASE u # t
        BY <1>1, <2>1, ThreadsAssumption, <3>1, <3>2 DEF TypeOK, MutexHeld, Visibility, Critical
      <3>3. CASE u = t
        <4>1. seen'[t] = seen[t] \cup carried /\ seen[t] \subseteq Funcs
          BY DEF TypeOK
        <4>2. done => seen'[t] = Funcs
          BY <2>1, <4>1
        <4>3. /\ pc'[t] = IF done THEN "unlock" ELSE "open"
              /\ entries'[t] = 1 /\ fn'[t] \in Funcs
          BY <1>1 DEF TypeOK, Visibility
        <4> QED
          BY <3>3, <4>2, <4>3 DEF Critical
      <3> QED
        BY <3>2, <3>3
    <2> QED
      BY <2>2, <2>3, <2>4, <2>5 DEF Visibility, Critical
  <1>6. AtMostOneEntry'
    BY <1>1 DEF TypeOK, AtMostOneEntry
  <1>7. AnswersFromHandle'
    BY DEF AnswersFromHandle
  <1> QED
    BY <1>2, <1>3, <1>4, <1>5, <1>6, <1>7

\* The library is opened once: the handle was still unset.
LEMMA OpenLibraryInd ==
  ASSUME IndInv, NEW t \in Threads, OpenLibrary(t)
  PROVE  IndInv'
  <1> USE DEF IndInv, OpenLibrary
  <1>1. handle = Unopened /\ handle' # Unopened
    BY LibsAssumption DEF TypeOK, TableFilled
  <1>2. TypeOK'
    BY NRFuncAssumption DEF TypeOK, Critical
  <1>3. MutexHeld'
    BY DEF TypeOK, MutexHeld, Critical
  <1>4. TableFilled'
    BY <1>1, NRFuncAssumption DEF TypeOK, MutexHeld, TableFilled, Critical, Final
  <1>5. Visibility'
    BY DEF TypeOK, Visibility, Critical
  <1>6. AtMostOneEntry' /\ AnswersFromHandle'
    BY <1>1 DEF TypeOK, AtMostOneEntry, AnswersFromHandle
  <1> QED
    BY <1>2, <1>3, <1>4, <1>5, <1>6

\* One store of the loop extends the filled part of the table by its slot.
LEMMA StoreSlotInd ==
  ASSUME IndInv, NEW t \in Threads, StoreSlot(t)
  PROVE  IndInv'
  <1> USE DEF IndInv, StoreSlot, LoopEnds
  <1>1. /\ owner = t /\ ~done
        /\ handle \in Libs \cup {NoLib}
        /\ \A f \in Funcs : table[f] = IF f < slot THEN Final(f) ELSE InitStub
    BY LibsAssumption DEF TypeOK, MutexHeld, TableFilled, Critical
  <1>2. /\ slot \in Funcs
        /\ SlotValue(handle, slot) \in Libs \cup {ErrorStub}
        /\ SlotValue(handle, slot) # InitStub
    BY <1>1, SlotValueFacts DEF TypeOK
  <1>3. TypeOK'
    <2>1. seen' \in [Threads -> SUBSET Funcs]
      BY <1>2 DEF TypeOK
    <2>2. slot' \in Funcs
      BY <1>2, NRFuncAssumption
    <2>3. table' \in [Funcs -> Libs \cup {InitStub, ErrorStub}]
      BY <1>2 DEF TypeOK
    <2>4. /\ done' \in BOOLEAN
          /\ pc' \in [Threads -> {"idle", "dispatch", "lock"} \cup Critical]
      BY DEF TypeOK, Critical
    <2> QED
      BY <2>1, <2>2, <2>3, <2>4 DEF TypeOK
  <1>4. MutexHeld'
    BY DEF TypeOK, MutexHeld, Critical
  <1>5. TableFilled'
    <2>1. \A f \in Funcs : f < slot + 1 => table'[f] = Final(f)'
      BY <1>1, <1>2, NRFuncAssumption DEF TypeOK, Final, SlotValue
    <2>2. \A f \in Funcs : ~(f < slot + 1) => table'[f] = InitStub
      BY <1>1, <1>2, NRFuncAssumption DEF TypeOK
    <2>3. handle' # Unopened
      BY <1>1, LibsAssumption
    <2>4. CASE slot >= NR_FUNC
      BY <1>1, <1>2, <2>1, <2>3, <2>4, NRFuncAssumption
         DEF TypeOK, MutexHeld, TableFilled, Critical
    <2>5. CASE ~(slot >= NR_FUNC)
      BY <1>1, <1>2, <2>1, <2>2, <2>3, <2>5, NRFuncAssumption
         DEF TypeOK, MutexHeld, TableFilled, Critical
    <2> QED
      BY <2>4, <2>5
  <1>6. Visibility'
    <2>1. \A u \in Threads : \A f \in seen'[u] : table'[f] # InitStub
      BY <1>1, <1>2 DEF TypeOK, Visibility
    <2>2. carried' \subseteq Funcs /\ (carried' # {} => done')
      BY <1>1, <1>2 DEF TypeOK, Visibility
    <2>3. done' /\ owner' = NoThread => carried' = Funcs
      BY <1>1, <1>2, ThreadsAssumption DEF TypeOK, Visibility
    <2>4. ASSUME NEW u \in Threads
          PROVE  /\ pc'[u] = "store" => \A f \in Funcs : f < slot' => f \in seen'[u]
                 /\ pc'[u] = "unlock" => seen'[u] = Funcs
                 /\ pc'[u] = "lock" => fn'[u] \notin seen'[u]
                 /\ entries'[u] = 0 => pc'[u] \notin Critical
                 /\ entries'[u] # 0 /\ pc'[u] \notin Critical => seen'[u] = Funcs
                 /\ pc'[u] # "idle" => fn'[u] \in Funcs
      <3>1. u # t => seen'[u] = seen[u] /\ pc'[u] = pc[u] /\ entries'[u] = entries[u]
        BY DEF TypeOK
      <3>2. CASE u # t
        BY <1>1, <1>2, NRFuncAssumption, <3>1, <3>2 DEF TypeOK, MutexHeld, Visibility, Critical
      <3>3. CASE u = t
        BY <1>1, <1>2, NRFuncAssumption, <3>3 DEF TypeOK, Visibility, Critical
      <3> QED
        BY <3>2, <3>3
    <2> QED
      BY <2>1, <2>2, <2>3, <2>4 DEF Visibility, Critical
  <1>7. AtMostOneEntry' /\ AnswersFromHandle'
    BY DEF TypeOK, AtMostOneEntry, AnswersFromHandle
  <1> QED
    BY <1>3, <1>4, <1>5, <1>6, <1>7

\* The mutex is released with a complete table, all of it published.
LEMMA UnlockInd ==
  ASSUME IndInv, NEW t \in Threads, Unlock(t)
  PROVE  IndInv'
  <1> USE DEF IndInv, Unlock, OwnerOnReturn
  <1>1. done /\ seen[t] = Funcs /\ owner = t
    BY DEF TypeOK, MutexHeld, TableFilled, Visibility, Critical
  <1>2. TypeOK'
    BY DEF TypeOK, Critical
  <1>3. MutexHeld'
    BY <1>1, ThreadsAssumption DEF TypeOK, MutexHeld, Critical
  <1>4. TableFilled'
    BY <1>1 DEF TypeOK, MutexHeld, TableFilled, Critical, Final
  <1>5. Visibility'
    BY <1>1 DEF TypeOK, Visibility, Critical
  <1>6. AtMostOneEntry' /\ AnswersFromHandle'
    BY DEF TypeOK, AtMostOneEntry, AnswersFromHandle
  <1> QED
    BY <1>2, <1>3, <1>4, <1>5, <1>6

\* Every step of the loader preserves the inductive invariant.
LEMMA NextInd == IndInv /\ [Next]_vars => IndInv'
  <1> SUFFICES ASSUME IndInv, [Next]_vars PROVE IndInv'
    OBVIOUS
  <1>1. ASSUME NEW t \in Threads, NEW f \in Funcs, Call(t, f) PROVE IndInv'
    BY <1>1, CallInd
  <1>2. ASSUME NEW t \in Threads, Step(t) PROVE IndInv'
    BY <1>2, DispatchInitInd, DispatchFinalInd, LockInd, OpenLibraryInd,
       StoreSlotInd, UnlockInd DEF Step
  <1>3. CASE UNCHANGED vars
    BY <1>3 DEF vars, IndInv, TypeOK, MutexHeld, TableFilled, Visibility,
       AtMostOneEntry, AnswersFromHandle, Final, Critical
  <1> QED
    BY <1>1, <1>2, <1>3 DEF Next

\* The conjunction of all state facts about the loader holds in every
\* reachable state: mutual exclusion, the state of the table, visibility.
THEOREM LoaderInvariant == Spec => []IndInv
  BY InitInd, NextInd, PTL DEF Spec

\* The loader's variables keep their types.
THEOREM TypeCorrect == Spec => []TypeOK
  <1>1. IndInv => TypeOK
    BY DEF IndInv
  <1> QED
    BY <1>1, LoaderInvariant, PTL

\* However many threads race the first call, and however stale the pointers
\* they read, each enters load_library at most once.
THEOREM EntersOnce == Spec => []AtMostOneEntry
  <1>1. IndInv => AtMostOneEntry
    BY DEF IndInv
  <1> QED
    BY <1>1, LoaderInvariant, PTL

\* Every answer a caller gets comes from the one opened library when it
\* exports the function, and from the error stub otherwise.
THEOREM AnswersCorrect == Spec => []AnswersFromHandle
  <1>1. IndInv => AnswersFromHandle
    BY DEF IndInv
  <1> QED
    BY <1>1, LoaderInvariant, PTL

\* No step changes a resolved entry or the opened handle, and none touches
\* the table or the handle without holding mtx before and after.
THEOREM TableStable == Spec => TableOnlyResolves
  <1>1. IndInv /\ [Next]_vars =>
          [ /\ \A f \in Funcs : table[f] # InitStub => table'[f] = table[f]
            /\ handle # Unopened => handle' = handle
            /\ <<table, handle>>' # <<table, handle>> =>
                 owner # NoThread /\ owner' = owner ]_vars
    <2> SUFFICES ASSUME IndInv, Next
                 PROVE  /\ \A f \in Funcs :
                             table[f] # InitStub => table'[f] = table[f]
                        /\ handle # Unopened => handle' = handle
                        /\ <<table, handle>>' # <<table, handle>> =>
                             owner # NoThread /\ owner' = owner
      OBVIOUS
    <2>1. ASSUME NEW t \in Threads, NEW f \in Funcs, Call(t, f)
          PROVE  UNCHANGED <<table, handle>>
      BY <2>1 DEF Call
    <2>2. ASSUME NEW t \in Threads,
                 \/ DispatchInit(t) \/ DispatchFinal(t)
                 \/ Lock(t) \/ Unlock(t)
          PROVE  UNCHANGED <<table, handle>>
      BY <2>2 DEF DispatchInit, DispatchFinal, Lock, Unlock
    <2>3. ASSUME NEW t \in Threads, OpenLibrary(t)
          PROVE  handle = Unopened /\ table' = table
                   /\ owner = t /\ owner' = owner
      BY <2>3 DEF OpenLibrary, IndInv, TypeOK, MutexHeld, TableFilled, Critical
    <2>4. ASSUME NEW t \in Threads, StoreSlot(t)
          PROVE  /\ handle' = handle /\ owner = t /\ owner' = owner
                 /\ \A f \in Funcs :
                      table[f] # InitStub => table'[f] = table[f]
      <3>1. ~done /\ handle # Unopened /\ owner = t /\ slot \in Funcs
        BY <2>4, LibsAssumption
           DEF StoreSlot, IndInv, TypeOK, MutexHeld, TableFilled, Critical
      <3>2. table[slot] = InitStub
        BY <3>1, NRFuncAssumption DEF IndInv, TableFilled
      <3> QED
        BY <2>4, <3>1, <3>2 DEF StoreSlot, IndInv, TypeOK
    <2> QED
      BY <2>1, <2>2, <2>3, <2>4, ThreadsAssumption DEF Next, Step
  <1> QED
    BY <1>1, LoaderInvariant, PTL DEF Spec, TableOnlyResolves

\* Every step of the loader is a step of the abstract dispatch or invisible
\* to it, so every behaviour of the loader is one LazyDispatch allows.
THEOREM Refinement == Spec => ImplementsDispatch
  <1> USE DEF Dispatch!Idle, Dispatch!Unopened, Dispatch!NoLib,
              Dispatch!Nobody, Dispatch!ErrorStub
  <1>1. Init => Dispatch!Init
    BY DEF Init, Dispatch!Init
  <1>2. IndInv /\ [Next]_vars => [Dispatch!Next]_(Dispatch!vars)
    <2> SUFFICES ASSUME IndInv, [Next]_vars
                 PROVE  [Dispatch!Next]_(Dispatch!vars)
      OBVIOUS
    <2> DEFINE calling == [t \in Threads |-> IF pc[t] = "idle" THEN Idle
                                             ELSE fn[t]]
    <2>0. TypeOK /\ Visibility /\ TableFilled
      BY DEF IndInv
    <2>1. ASSUME NEW t \in Threads, NEW f \in Funcs, Call(t, f)
          PROVE  Dispatch!Begin(t, f)
      BY <2>1, <2>0 DEF Call, Dispatch!Begin, TypeOK
    <2>2. ASSUME NEW t \in Threads,
                 \/ DispatchInit(t) \/ Lock(t) \/ StoreSlot(t) \/ Unlock(t)
          PROVE  UNCHANGED <<handle, calling, answer>>
      BY <2>2, <2>0
         DEF DispatchInit, Lock, StoreSlot, Unlock, TypeOK, AlreadyLoaded
    <2>3. ASSUME NEW t \in Threads, OpenLibrary(t)
          PROVE  Dispatch!Open(handle')
      <3>1. calling[t] # Idle /\ calling' = calling
        BY <2>3, <2>0 DEF OpenLibrary, TypeOK, Visibility
      <3> QED
        BY <2>3, <2>0, <3>1 DEF OpenLibrary, Dispatch!Open, TableFilled
    <2>4. ASSUME NEW t \in Threads, DispatchFinal(t)
          PROVE  Dispatch!Answer(t)
      <3>1. fn[t] \in Funcs /\ fn[t] # Idle
        BY <2>4, <2>0 DEF DispatchFinal, Visibility
      <3>2. /\ table[fn[t]] # InitStub
            /\ answer' = [answer EXCEPT ![t] = table[fn[t]]]
        BY <2>4 DEF DispatchFinal, Visible
      <3>3. /\ handle \in Libs \cup {NoLib}
            /\ table[fn[t]] = Dispatch!Provider(handle, fn[t])
        BY <2>0, <3>1, <3>2, SlotValueFacts, LibsAssumption
           DEF TypeOK, TableFilled, Final
      <3>4. calling[t] = fn[t] /\ calling' = [calling EXCEPT ![t] = Idle]
        BY <2>4, <2>0 DEF DispatchFinal, TypeOK
      <3>5. handle # Unopened /\ handle' = handle
        BY <3>3, <2>4, LibsAssumption DEF DispatchFinal
      <3> QED
        BY <3>1, <3>2, <3>3, <3>4, <3>5 DEF Dispatch!Answer
    <2>5. CASE UNCHANGED vars
      BY <2>5 DEF vars, Dispatch!vars
    <2>6. ASSUME NEW t \in Threads, OpenLibrary(t)
          PROVE  handle' \in Libs \cup {NoLib}
      BY <2>6 DEF OpenLibrary
    <2> QED
      BY <2>1, <2>2, <2>3, <2>4, <2>5, <2>6
         DEF Next, Step, Dispatch!Next, Dispatch!vars
  <1> QED
    BY <1>1, <1>2, LoaderInvariant, PTL
       DEF Spec, ImplementsDispatch, Dispatch!Spec

-------------------------------------------------------------------------------
\* The two lists of the search hold paths.
LEMMA ListFacts ==
  ASSUME SearchTypeOK
  PROVE  /\ env \in Seq(Paths) /\ Len(env) \in Nat
         /\ \A j \in 1 .. Len(env) : env[j] \in Paths
         /\ Len(default_so_paths) \in Nat
         /\ \A j \in 1 .. Len(default_so_paths) : default_so_paths[j] \in Paths
  BY SearchAssumption DEF SearchTypeOK

\* open_shared_lib(p) keeps the types, counts a success, and sets the handle.
LEMMA TryOpenFacts ==
  ASSUME SearchTypeOK, NEW p \in Paths, TryOpen(p)
  PROVE  /\ so_handle' \in Paths \cup {None}
         /\ opened' \in [Paths -> Nat]
         /\ Opens(p) => /\ so_handle' = p
                        /\ \A q \in Paths :
                             opened'[q] = IF q = p THEN opened[q] + 1 ELSE opened[q]
         /\ ~Opens(p) => /\ so_handle' \in {None, so_handle}
                         /\ opened' = opened
  BY DEF SearchTypeOK, TryOpen, HandleAfter, Opens

\* A list without a library among its first n - 1 and n-th entries.
LEMMA NoneBeforeStep ==
  ASSUME NEW list \in Seq(Paths), NEW n \in 1 .. Len(list),
         NoneBefore(list, n), ~Opens(list[n])
  PROVE  NoneBefore(list, n + 1)
  BY DEF NoneBefore

LEMMA SearchStart == SearchInit => SearchInv
  BY SearchAssumption
     DEF SearchInit, SearchInv, SearchTypeOK, Progress, FirstLibraryWins, OnlyResultOpened,
         NoneBefore

LEMMA EntryBeforeColonInd == SearchInv /\ EntryBeforeColon => SearchInv'
  <1> SUFFICES ASSUME SearchInv, EntryBeforeColon PROVE SearchInv'
    OBVIOUS
  <1>1. SearchTypeOK /\ Progress /\ phase = "colon" /\ i \in 1 .. Len(env) /\ i < Len(env)
        /\ env[i] \in Paths /\ path = None /\ so_handle = None /\ NoneBefore(env, i)
        /\ env' = env /\ file' = file /\ TryOpen(env[i])
    BY ListFacts DEF SearchInv, Progress, EntryBeforeColon
  <1>2. /\ so_handle' \in Paths \cup {None} /\ opened' \in [Paths -> Nat]
        /\ Opens(env[i]) => /\ so_handle' = env[i]
                            /\ \A q \in Paths :
                                 opened'[q] = IF q = env[i] THEN opened[q] + 1
                                              ELSE opened[q]
        /\ ~Opens(env[i]) => so_handle' \in {None, so_handle} /\ opened' = opened
    BY <1>1, TryOpenFacts
  <1>3. CASE Opens(env[i])
    <2>1. phase' = "last" /\ i' = i /\ path' = env[i] /\ so_handle' = env[i]
      BY <1>1, <1>2, <1>3 DEF EntryBeforeColon, BeginAfter
    <2>2. path' # None
      BY <1>1, <2>1, SearchAssumption
    <2>3. SearchTypeOK'
      BY <1>1, <1>2, <2>1 DEF SearchTypeOK
    <2>4. NoneBefore(env, i)' /\ Opens(path)'
      BY <1>1, <1>3, <2>1 DEF NoneBefore, Opens
    <2>5. \A p \in Paths : opened'[p] = IF p = path' THEN 1 ELSE 0
      BY <1>1, <1>2, <1>3, <2>1 DEF Progress
    <2>6. Progress'
      BY <1>1, <2>1, <2>2, <2>4, <2>5 DEF Progress
    <2> QED
      BY <2>1, <2>3, <2>6 DEF SearchInv, FirstLibraryWins, OnlyResultOpened
  <1>4. CASE ~Opens(env[i])
    <2>1. phase' = "colon" /\ i' = i + 1 /\ path' = None /\ so_handle' = None
          /\ opened' = opened
      BY <1>1, <1>2, <1>4 DEF EntryBeforeColon, BeginAfter
    <2>2. SearchTypeOK'
      BY <1>1, <1>2, <2>1, ListFacts DEF SearchTypeOK
    <2>3. NoneBefore(env, i + 1)
      BY <1>1, <1>4, NoneBeforeStep, ListFacts
    <2>4. NoneBefore(env, i)'
      BY <1>1, <2>1, <2>3 DEF NoneBefore, Opens
    <2>5. Progress'
      BY <1>1, <2>1, <2>4, ListFacts DEF Progress
    <2> QED
      BY <2>1, <2>2, <2>5 DEF SearchInv, FirstLibraryWins, OnlyResultOpened
  <1> QED
    BY <1>3, <1>4

LEMMA EndOfListInd == SearchInv /\ EndOfList => SearchInv'
  <1> SUFFICES ASSUME SearchInv, EndOfList PROVE SearchInv'
    OBVIOUS
  <1>1. SearchTypeOK /\ Progress /\ phase = "colon" /\ phase' = "last" /\ i = Len(env)
        /\ UNCHANGED <<file, env, i, path, so_handle, opened>>
    BY DEF SearchInv, EndOfList
  <1>2. SearchTypeOK'
    BY <1>1 DEF SearchTypeOK
  <1>3. Progress'
    BY <1>1 DEF Progress, NoneBefore, Opens
  <1> QED
    BY <1>1, <1>2, <1>3 DEF SearchInv, FirstLibraryWins, OnlyResultOpened

LEMMA EntryAtBeginInd == SearchInv /\ EntryAtBegin => SearchInv'
  <1> SUFFICES ASSUME SearchInv, EntryAtBegin PROVE SearchInv'
    OBVIOUS
  <1>1. SearchTypeOK /\ Progress /\ phase = "last" /\ i \in 1 .. Len(env)
        /\ env[i] \in Paths /\ NoneBefore(env, i) /\ i' = 1
        /\ env' = env /\ file' = file /\ TryOpen(env[i])
    BY ListFacts DEF SearchInv, Progress, EntryAtBegin
  <1>2. /\ so_handle' \in Paths \cup {None} /\ opened' \in [Paths -> Nat]
        /\ Opens(env[i]) => /\ so_handle' = env[i]
                            /\ \A q \in Paths :
                                 opened'[q] = IF q = env[i] THEN opened[q] + 1
                                              ELSE opened[q]
        /\ ~Opens(env[i]) => so_handle' \in {None, so_handle} /\ opened' = opened
    BY <1>1, TryOpenFacts
  <1>3. CASE Opens(env[i])
    <2>1. path' = env[i] /\ so_handle' = env[i] /\ phase' = "done"
      BY <1>1, <1>2, <1>3, SearchAssumption DEF EntryAtBegin, SearchDefaults
    <2>2. SearchTypeOK'
      BY <1>1, <1>2, <2>1, ListFacts DEF SearchTypeOK
    <2>3. FirstOf(env, path)'
      BY <1>1, <1>3, <2>1 DEF FirstOf, NoneBefore, Opens
    <2>4. FirstLibraryWins'
      BY <2>1, <2>3 DEF FirstLibraryWins
    <2>5. Progress'
      BY <1>1, <2>1, SearchAssumption DEF Progress
    <2>6. OnlyResultOpened'
      <3>1. CASE path = None /\ i = Len(env)
        <4>1. \A p \in Paths : opened'[p] = IF p = path' THEN 1 ELSE 0
          BY <1>1, <1>2, <1>3, <2>1, <3>1 DEF Progress
        <4>2. \A j \in 1 .. Len(env) - 1 : env[j] # env[i]
          BY <1>1, <1>3, <3>1, ListFacts DEF NoneBefore
        <4> QED
          BY <1>1, <2>1, <4>1, <4>2 DEF OnlyResultOpened
      <3>2. CASE /\ path = env[i] /\ i < Len(env)
                 /\ \A p \in Paths : opened[p] = IF p = path THEN 1 ELSE 0
        <4>1. \A p \in Paths : opened'[p] = IF p = path' THEN 2 ELSE 0
          BY <1>1, <1>2, <1>3, <2>1, <3>2
        <4>2. \E j \in 1 .. Len(env) - 1 : env[j] = env[i]
          BY <1>1, <3>2, ListFacts
        <4> QED
          BY <1>1, <2>1, <4>1, <4>2 DEF OnlyResultOpened
      <3> QED
        BY <1>1, <3>1, <3>2 DEF Progress
    <2> QED
      BY <2>2, <2>4, <2>5, <2>6 DEF SearchInv
  <1>4. CASE ~Opens(env[i])
    <2>1. path = None /\ so_handle = None /\ i = Len(env)
      BY <1>1, <1>4 DEF Progress
    <2>2. path' = None /\ so_handle' = None /\ opened' = opened /\ phase' = "defaults"
      BY <1>1, <1>2, <1>4, <2>1 DEF EntryAtBegin, SearchDefaults
    <2>3. SearchTypeOK'
      BY <1>1, <1>2, <2>2, ListFacts DEF SearchTypeOK
    <2>4. NoneBefore(env, Len(env) + 1)'
      <3>1. NoneBefore(env, Len(env) + 1)
        BY <1>1, <1>4, <2>1, NoneBeforeStep, ListFacts
      <3> QED
        BY <1>1, <3>1 DEF NoneBefore, Opens
    <2>5. NoneBefore(default_so_paths, i)'
      BY <1>1 DEF NoneBefore
    <2>6. Progress'
      BY <1>1, <2>1, <2>2, <2>4, <2>5, ListFacts DEF Progress
    <2> QED
      BY <2>2, <2>3, <2>6 DEF SearchInv, FirstLibraryWins, OnlyResultOpened
  <1> QED
    BY <1>3, <1>4

LEMMA DefaultPathInd == SearchInv /\ DefaultPath => SearchInv'
  <1> SUFFICES ASSUME SearchInv, DefaultPath PROVE SearchInv'
    OBVIOUS
  <1> DEFINE p0 == default_so_paths[i]
  <1>1. SearchTypeOK /\ Progress /\ phase = "defaults" /\ i \in 1 .. Len(default_so_paths)
        /\ p0 \in Paths /\ path = None /\ so_handle = None
        /\ NoneBefore(env, Len(env) + 1) /\ NoneBefore(default_so_paths, i)
        /\ env' = env /\ file' = file /\ TryOpen(p0)
    BY ListFacts DEF SearchInv, Progress, DefaultPath
  <1>2. /\ so_handle' \in Paths \cup {None} /\ opened' \in [Paths -> Nat]
        /\ Opens(p0) => /\ so_handle' = p0
                        /\ \A q \in Paths :
                             opened'[q] = IF q = p0 THEN opened[q] + 1 ELSE opened[q]
        /\ ~Opens(p0) => so_handle' \in {None, so_handle} /\ opened' = opened
    BY <1>1, TryOpenFacts
  <1>5. NoneBefore(env, Len(env) + 1)'
    BY <1>1 DEF NoneBefore, Opens
  <1>3. CASE Opens(p0)
    <2>1. path' = p0 /\ so_handle' = p0 /\ phase' = "done" /\ i' = i
      BY <1>1, <1>2, <1>3 DEF DefaultPath
    <2>2. SearchTypeOK'
      BY <1>1, <1>2, <2>1 DEF SearchTypeOK
    <2>3. FirstOf(default_so_paths, path)'
      BY <1>1, <1>3, <2>1 DEF FirstOf, NoneBefore, Opens
    <2>4. FirstLibraryWins'
      BY <1>5, <2>1, <2>3 DEF FirstLibraryWins
    <2>5. Progress'
      BY <1>1, <2>1, SearchAssumption DEF Progress
    <2>6. \A p \in Paths : opened'[p] = IF p = path' THEN 1 ELSE 0
      BY <1>1, <1>2, <1>3, <2>1 DEF Progress
    <2>7. \A j \in 1 .. Len(env) - 1 : env[j] # p0
      BY <1>1, <1>3, ListFacts DEF NoneBefore
    <2>8. OnlyResultOpened'
      BY <1>1, <2>1, <2>6, <2>7 DEF OnlyResultOpened
    <2> QED
      BY <2>2, <2>4, <2>5, <2>8 DEF SearchInv
  <1>4. CASE ~Opens(p0)
    <2>1. path' = None /\ so_handle' = None /\ opened' = opened /\ phase' = "defaults"
          /\ i' = i + 1
      BY <1>1, <1>2, <1>4 DEF DefaultPath
    <2>2. SearchTypeOK'
      BY <1>1, <1>2, <2>1, ListFacts DEF SearchTypeOK
    <2>3. NoneBefore(default_so_paths, i + 1)
      BY <1>1, <1>4, NoneBeforeStep, SearchAssumption
    <2>4. NoneBefore(default_so_paths, i)'
      BY <1>1, <2>1, <2>3 DEF NoneBefore, Opens
    <2>5. Progress'
      BY <1>1, <1>5, <2>1, <2>4, ListFacts DEF Progress
    <2> QED
      BY <2>1, <2>2, <2>5 DEF SearchInv, FirstLibraryWins, OnlyResultOpened
  <1> QED
    BY <1>3, <1>4

LEMMA NotFoundInd == SearchInv /\ NotFound => SearchInv'
  <1> SUFFICES ASSUME SearchInv, NotFound PROVE SearchInv'
    OBVIOUS
  <1>1. SearchTypeOK /\ Progress /\ phase = "defaults" /\ phase' = "done" /\ so_handle' = None
        /\ path = None /\ i = Len(default_so_paths) + 1
        /\ UNCHANGED <<file, env, i, path, opened>>
    BY ListFacts DEF SearchInv, Progress, NotFound
  <1>2. SearchTypeOK'
    BY <1>1 DEF SearchTypeOK
  <1>3. Progress'
    BY <1>1 DEF Progress
  <1>4. /\ NoneBefore(env, Len(env) + 1)'
        /\ NoneBefore(default_so_paths, Len(default_so_paths) + 1)'
    BY <1>1 DEF Progress, NoneBefore, Opens
  <1>5. FirstLibraryWins'
    BY <1>1, <1>4 DEF FirstLibraryWins
  <1>6. OnlyResultOpened'
    BY <1>1, SearchAssumption DEF OnlyResultOpened, Progress
  <1> QED
    BY <1>2, <1>3, <1>5, <1>6 DEF SearchInv

\* SearchInv is an invariant: each step of get_library_handle preserves it.
THEOREM SearchInvariant == SearchSpec => []SearchInv
  <1>1. ASSUME SearchInv, UNCHANGED searchVars PROVE SearchInv'
    BY <1>1 DEF SearchInv, SearchTypeOK, Progress, FirstLibraryWins, OnlyResultOpened,
                NoneBefore, FirstOf, Opens, searchVars
  <1>2. SearchInv /\ [SearchNext]_searchVars => SearchInv'
    BY <1>1, EntryBeforeColonInd, EndOfListInd, EntryAtBeginInd,
       DefaultPathInd, NotFoundInd DEF SearchNext
  <1> QED
    BY SearchStart, <1>2, PTL DEF SearchSpec

\* get_library_handle returns the first library in the order of the search,
\* or null when there is none.
THEOREM FirstLibrary == SearchSpec => []FirstLibraryWins
  <1>1. SearchInv => FirstLibraryWins
    BY DEF SearchInv
  <1> QED
    BY <1>1, SearchInvariant, PTL

\* No library but the one returned stays open, and that one is opened once or,
\* after a hit before a colon, twice.
THEOREM OneLibraryOpen == SearchSpec => []OnlyResultOpened
  <1>1. SearchInv => OnlyResultOpened
    BY DEF SearchInv
  <1> QED
    BY <1>1, SearchInvariant, PTL
===============================================================================
