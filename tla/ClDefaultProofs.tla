--------------------------- MODULE ClDefaultProofs ---------------------------
(***************************************************************************)
(* The default context and the default queue, for any number of threads.   *)
(* Where a single thread initialises a default, its object does not change *)
(* once somebody can have seen it, and its references are those of the     *)
(* default itself, of the callers that hold it, and of the calls that      *)
(* create a queue in it.                                                   *)
(***************************************************************************)
EXTENDS ClDefault, FiniteSetTheorems, TLAPS

ObjectsOf(k) == {k} \X Threads

Making  == {"create", "release", "set"}     \* before default_ is assigned
Reading == {"read", "copy", "retain"}       \* after the state word was seen
Labels  == {"idle", "exchange", "spin", "store"} \cup Making \cup Reading

TypeOK ==
  /\ atomic \in BOOLEAN /\ throws \in BOOLEAN /\ ordered \in BOOLEAN
  /\ state \in [Kinds -> Int]
  /\ default \in [Kinds -> Objects \cup {NULL}]
  /\ error \in [Kinds -> {"none", "failed"}]
  /\ refs \in [Objects -> Int]
  /\ pc \in [Threads -> Labels]
  /\ doing \in [Threads -> Kinds]
  /\ nested \in [Threads -> BOOLEAN]
  /\ made \in [Threads -> Objects \cup {NULL}]
  /\ context \in [Threads -> Objects \cup {NULL}]
  /\ told \in [Threads -> {"none", "failed"}]
  /\ got \in [Threads -> Objects \cup {NULL}]
  /\ stored \in [Threads -> SUBSET {"error", "state"}]
  /\ early \in [Threads -> SUBSET {"error", "default"}]
  /\ hold \in [Threads -> Objects \cup {NULL}]
  /\ inits \in [Kinds -> SUBSET Threads]
  /\ \A k \in Kinds : first[k] = <<>> \/ \E o \in Objects \cup {NULL} : first[k] = <<o>>
  /\ DOMAIN first = Kinds
  /\ thrown \in BOOLEAN

\* An object is of the kind of the call that made or read it.
KindOf(o, k) == o = NULL \/ o \in ObjectsOf(k)

KindsKept ==
  /\ \A k \in Kinds : KindOf(default[k], k)
  /\ \A t \in Threads :
       /\ KindOf(made[t], doing[t]) /\ KindOf(got[t], doing[t])
       /\ KindOf(context[t], "context")

\* What each program point says of the locals of its thread.
Locals ==
  \A t \in Threads :
    /\ pc[t] # "idle" => hold[t] = NULL
    /\ pc[t] = "idle" => ~nested[t] /\ doing[t] = "context"
    /\ context[t] # NULL => doing[t] = "queue" /\ pc[t] \notin {"idle", "exchange", "spin"}
    /\ nested[t] => doing[t] = "context"
    /\ got[t] # NULL => pc[t] = "retain" \/ "default" \in early[t]
    /\ early[t] # {} => ~ordered /\ pc[t] \in {"spin"} \cup Reading
    /\ made[t] # NULL => pc[t] \in {"release", "set"} /\ made[t] = <<doing[t], t>>
    /\ stored[t] # {} => pc[t] = "store"
    /\ pc[t] \in {"release", "set"} => (made[t] = NULL <=> told[t] = "failed")
    /\ "state" \in stored[t] => state[doing[t]] = Initialized
    /\ pc[t] \in Reading => state[doing[t]] = Initialized
    /\ pc[t] \in Making \cup {"store"} => t \in inits[doing[t]]
    /\ nested[t] => t \in inits["queue"]

Lone(k) == \A t, u \in inits[k] : t = u

\* A state word that is a volatile int lets one thread initialise.
Words ==
  \A k \in Kinds :
    IF atomic THEN state[k] \in {0, Initialized}
    ELSE /\ state[k] \in {NotInitialized, BeingInitialized, Initialized}
         /\ inits[k] = {} <=> state[k] = NotInitialized
         /\ Lone(k)

\* Nobody makes a default that has been seen.
Made(k) ==
  state[k] = Initialized =>
    \A t \in Threads : /\ doing[t] = k => pc[t] \notin Making
                       /\ k = "queue" => ~nested[t]

\* A default is assigned just before it is announced.
Closed(k) ==
  default[k] # NULL =>
    state[k] = Initialized \/ \E t \in Threads : doing[t] = k /\ pc[t] = "store"

\* The error that goes with it, and the first copy that was handed out, which
\* may have been nothing where a waiting thread can look too early.
Agreed(k) ==
  /\ ordered /\ state[k] = Initialized => (error[k] = "failed" <=> default[k] = NULL)
  /\ first[k] # <<>> => /\ state[k] = Initialized
                        /\ first[k] = <<default[k]>> \/ (~ordered /\ first[k] = <<NULL>>)

\* What the calls know of it.
Known(k) ==
  \A t \in Threads : doing[t] = k =>
    /\ pc[t] = "store" => (told[t] = "failed" <=> default[k] = NULL)
    /\ "error" \in stored[t] => error[k] = told[t]
    /\ pc[t] = "retain" => got[t] = default[k] \/ MissedIt(t)
    /\ got[t] # NULL => got[t] = default[k]
    /\ pc[t] \in {"copy", "retain"} /\ ordered => (told[t] = "failed" <=> default[k] = NULL)

Settled(k) == Made(k) /\ Closed(k) /\ Agreed(k) /\ Known(k)

Owners(f, o) == Cardinality({t \in Threads : f[t] = o})

\* Who refers to an object, and what the driver counts.
Counted(k) ==
  /\ \A t \in Threads : /\ hold[t] \in ObjectsOf(k) => hold[t] = default[k]
                        /\ context[t] \in ObjectsOf(k) => context[t] = default[k]
  /\ default[k] # NULL =>
       refs[default[k]] = 1 + Owners(hold, default[k]) + Owners(context, default[k])
  /\ \A t \in Threads : doing[t] = k /\ made[t] # NULL => refs[made[t]] = 1

IndInv == /\ TypeOK /\ KindsKept /\ Locals /\ Words
          /\ \A k \in Kinds : Lone(k) => Settled(k) /\ Counted(k)

------------------------------------------------------------------------------
LEMMA OwnersFinite ==
  ASSUME NEW f, NEW o PROVE IsFiniteSet({t \in Threads : f[t] = o})
BY FS_Subset, ThreadsAssumption

LEMMA OwnersNat == ASSUME NEW f, NEW o PROVE Owners(f, o) \in Nat
BY OwnersFinite, FS_CardinalityType DEF Owners

One(o, p) == IF o = p THEN 1 ELSE 0

\* One thread gets or gives up an object.
LEMMA OwnersAfter ==
  ASSUME NEW f, NEW g, NEW t \in Threads, NEW o,
         \A u \in Threads \ {t} : g[u] = f[u]
  PROVE  Owners(g, o) = Owners(f, o) - One(f[t], o) + One(g[t], o)
<1> DEFINE C == {u \in Threads \ {t} : f[u] = o}
<1>1. IsFiniteSet(C)
  BY FS_Subset, ThreadsAssumption
<1>2. t \notin C /\ Cardinality(C) \in Nat
  BY <1>1, FS_CardinalityType
<1>3. Cardinality(C \cup {t}) = Cardinality(C) + 1
  BY <1>1, <1>2, FS_AddElement
<1>4. /\ {u \in Threads : f[u] = o} = IF f[t] = o THEN C \cup {t} ELSE C
      /\ {u \in Threads : g[u] = o} = IF g[t] = o THEN C \cup {t} ELSE C
  OBVIOUS
<1> HIDE DEF C
<1>5. /\ Owners(f, o) = Cardinality(C) + One(f[t], o)
      /\ Owners(g, o) = Cardinality(C) + One(g[t], o)
  <2>1. /\ Owners(f, o) = Cardinality(IF f[t] = o THEN C \cup {t} ELSE C)
        /\ Owners(g, o) = Cardinality(IF g[t] = o THEN C \cup {t} ELSE C)
    BY <1>4 DEF Owners
  <2>2. ASSUME NEW x PROVE Cardinality(IF x = o THEN C \cup {t} ELSE C) = Cardinality(C) + One(x, o)
    BY <1>2, <1>3 DEF One
  <2> QED  BY <2>1, <2>2
<1> QED  BY <1>2, <1>5 DEF One

\* Who has initialised a default is not forgotten.
LEMMA InitsGrow ==
  ASSUME TypeOK, Next, NEW k \in Kinds
  PROVE  inits[k] \subseteq inits'[k]
BY DEF TypeOK, Next, Step, Call, Exchange, EarlyError, EarlyDefault, SpinAgain,
       SpinEnds, Create, CreateFails, CreateThrows,
       ReleaseOld, SetDefault, StoreError, StoreState, Fence, ReadError, CopyDefault,
       Return, ReturnToQueue, Drop, Leaves, Goes, past

LEMMA Stays ==
  ASSUME TypeOK, Next, NEW k \in Kinds, Lone(k)'
  PROVE  Lone(k)
BY InitsGrow DEF Lone

LEMMA OwnersNone ==
  ASSUME NEW f, NEW o, \A t \in Threads : f[t] # o PROVE Owners(f, o) = 0
<1>1. {t \in Threads : f[t] = o} = {}
  OBVIOUS
<1> QED  BY <1>1, FS_EmptySet DEF Owners

\* The default is not there yet while the thread that makes it is at work.
LEMMA NotThereYet ==
  ASSUME IndInv, NEW k \in Kinds, Lone(k), NEW t \in Threads, doing[t] = k, pc[t] \in Making
  PROVE  default[k] = NULL /\ state[k] # Initialized
<1>1. /\ Settled(k) /\ t \in inits[k] /\ pc[t] # "store"
      /\ \A u \in Threads : doing[u] = k /\ pc[u] = "store" => u \in inits[k]
  BY DEF IndInv, Locals, Making
<1>2. state[k] # Initialized
  BY <1>1 DEF Settled, Made, Closed, Agreed, Known, MissedIt
<1>3. ~ \E u \in Threads : doing[u] = k /\ pc[u] = "store"
  BY <1>1 DEF Lone
<1> QED  BY <1>1, <1>2, <1>3 DEF Settled, Made, Closed, Agreed, Known, MissedIt

\* A thread gets, hands on or gives up references, one by one.
LEMMA CountedAfter ==
  ASSUME IndInv, NEW k \in Kinds, Lone(k), NEW t \in Threads,
         default'[k] = default[k],
         \A u \in Threads \ {t} : hold'[u] = hold[u] /\ context'[u] = context[u],
         hold'[t] \in ObjectsOf(k) => hold'[t] = default[k],
         context'[t] \in ObjectsOf(k) => context'[t] = default[k],
         default[k] # NULL =>
           refs'[default[k]] = refs[default[k]]
             - One(hold[t], default[k]) + One(hold'[t], default[k])
             - One(context[t], default[k]) + One(context'[t], default[k]),
         \A u \in Threads : doing'[u] = k /\ made'[u] # NULL => refs'[made'[u]] = 1
  PROVE  Counted(k)'
<1> DEFINE d == default[k]
<1>1. Counted(k)
  BY DEF IndInv
<1>2. Owners(hold', d) = Owners(hold, d) - One(hold[t], d) + One(hold'[t], d)
  <2>1. \A u \in Threads \ {t} : hold'[u] = hold[u]
    OBVIOUS
  <2> QED  BY <2>1, OwnersAfter
<1>3. Owners(context', d) = Owners(context, d) - One(context[t], d) + One(context'[t], d)
  <2>1. \A u \in Threads \ {t} : context'[u] = context[u]
    OBVIOUS
  <2> QED  BY <2>1, OwnersAfter
<1>4. \A u \in Threads : /\ hold'[u] \in ObjectsOf(k) => hold'[u] = d
                         /\ context'[u] \in ObjectsOf(k) => context'[u] = d
  BY <1>1 DEF Counted
<1>5. d # NULL => refs'[d] = 1 + Owners(hold', d) + Owners(context', d)
  BY <1>1, <1>2, <1>3, OwnersNat DEF Counted, One
<1>6. (Owners(hold, d))' = Owners(hold', d') /\ (Owners(context, d))' = Owners(context', d')
  BY DEF Owners
<1> QED  BY <1>4, <1>5, <1>6 DEF Counted, ObjectsOf, Owners

------------------------------------------------------------------------------
LEMMA CallStep ==
  ASSUME IndInv, NEW t \in Threads, NEW k0 \in Kinds, Call(t, k0)
  PROVE  IndInv'
<1> USE DEF IndInv, Kinds
<1>1. TypeOK'
  <2>1. pc' \in [Threads -> Labels] /\ doing' \in [Threads -> Kinds]
    BY DEF TypeOK, Labels, Goes, Call
  <2>2. UNCHANGED <<atomic, throws, ordered, state, default, error, refs, nested, made,
                    context, told, got, stored, early, hold, inits, first, thrown>>
    BY DEF build, shared, past, Call
  <2>3. TypeOK
    OBVIOUS
  <2> HIDE DEF IndInv
  <2> QED  BY <2>1, <2>2, <2>3 DEF TypeOK
<1>2. KindsKept'
  BY DEF TypeOK, KindsKept, KindOf, ObjectsOf, Locals, Making, Reading, Goes, build, shared,
         past, Call
<1>3. Locals'
  BY DEF TypeOK, Locals, Words, Making, Reading, Initialized, Goes, build, shared, past, Call
<1>4. Words'
  BY DEF TypeOK, Locals, Words, Lone, Initialized, Goes, build, shared, past, Call
<1>5. ASSUME NEW k \in Kinds, Lone(k)' PROVE Settled(k)'
  BY <1>5 DEF TypeOK, Lone, Locals, Words, Settled, Made, Closed, Agreed, Known, MissedIt,
              Making, Reading, Initialized, Goes, build, shared, past, Call
<1>6. ASSUME NEW k \in Kinds, Lone(k)' PROVE Counted(k)'
  <2>1. /\ UNCHANGED <<default, refs, hold, context, inits, made>>
        /\ \A u \in Threads : made[u] # NULL => doing'[u] = doing[u]
    BY DEF Call, shared, past, Locals, TypeOK
  <2>2. Counted(k)
    BY <1>6, <2>1 DEF Lone
  <2> QED  BY <2>1, <2>2 DEF Counted, Owners
<1> QED  BY <1>1, <1>2, <1>3, <1>4, <1>5, <1>6

LEMMA ExchangeStep ==
  ASSUME IndInv, NEW t \in Threads, Exchange(t)
  PROVE  IndInv'
<1> USE DEF IndInv, Kinds
<1> DEFINE k0 == doing[t]
           Seen  == /\ state[k0] = Initialized /\ pc' = [pc EXCEPT ![t] = "read"]
                    /\ UNCHANGED <<state, inits, doing, nested>>
           Busy  == /\ state[k0] = BeingInitialized /\ pc' = [pc EXCEPT ![t] = "spin"]
                    /\ UNCHANGED <<state, inits, doing, nested>>
           Mine  == /\ state[k0] \in {0, NotInitialized}
                    /\ state' = [state EXCEPT ![k0] = Exchanged(@)]
                    /\ inits' = [inits EXCEPT ![k0] = @ \cup {t}]
           First == Mine /\ k0 = "context" /\ pc' = [pc EXCEPT ![t] = "create"]
                    /\ UNCHANGED <<doing, nested>>
           Inner == Mine /\ k0 = "queue" /\ UNCHANGED pc
                    /\ doing' = [doing EXCEPT ![t] = "context"]
                    /\ nested' = [nested EXCEPT ![t] = TRUE]
<1>a. /\ pc[t] = "exchange"
      /\ UNCHANGED <<build, default, error, refs, made, context, told, got, stored, early,
                     hold, first, thrown>>
  BY DEF Exchange
<1>b. Seen \/ Busy \/ First \/ Inner
  <2>1. state[k0] # NotInitialized => [state EXCEPT ![k0] = Exchanged(@)] = state
    BY DEF TypeOK, Exchanged
  <2> QED  BY <2>1 DEF Exchange, Goes, NotInitialized, BeingInitialized, Initialized
<1>c. made[t] = NULL /\ got[t] = NULL /\ hold[t] = NULL /\ stored[t] = {} /\ early[t] = {}
  BY <1>a DEF Locals, Reading
<1>d. context[t] = NULL
  BY <1>a DEF Locals
<1> HIDE DEF Seen, Busy, First, Inner
<1>1. TypeOK'
  <2>1. CASE Seen
    BY <1>a, <1>c, <2>1 DEF Seen, TypeOK, Objects, Labels, Making, Reading, build, Exchanged,
                            NotInitialized, BeingInitialized, Initialized
  <2>2. CASE Busy
    BY <1>a, <1>c, <2>2 DEF Busy, TypeOK, Objects, Labels, Making, Reading, build, Exchanged,
                            NotInitialized, BeingInitialized, Initialized
  <2>3. CASE First
    BY <1>a, <1>c, <2>3 DEF First, Mine, TypeOK, Objects, Labels, Making, Reading, build,
                            Exchanged, NotInitialized, BeingInitialized, Initialized
  <2>4. CASE Inner
    BY <1>a, <1>c, <1>d, <2>4 DEF Inner, Mine, TypeOK, Objects, Labels, Making, Reading,
                                  build, Exchanged, NotInitialized, BeingInitialized,
                                  Initialized
  <2> QED  BY <1>b, <2>1, <2>2, <2>3, <2>4
<1>2. KindsKept'
  <2>1. \A u \in Threads \ {t} : doing'[u] = doing[u]
    BY <1>b DEF Seen, Busy, First, Inner, TypeOK
  <2>2. context[t] = NULL \/ doing'[t] = doing[t]
    BY <1>d
  <2> QED  BY <1>a, <1>c, <2>1, <2>2 DEF KindsKept, KindOf
<1>3. Locals'
  <2>1. CASE Seen
    BY <1>a, <1>c, <2>1 DEF Seen, TypeOK, Locals, Words, Making, Reading, Exchanged, build,
                            NotInitialized, BeingInitialized, Initialized
  <2>2. CASE Busy
    BY <1>a, <1>c, <2>2 DEF Busy, TypeOK, Locals, Words, Making, Reading, Exchanged, build,
                            NotInitialized, BeingInitialized, Initialized
  <2>3. CASE First
    BY <1>a, <1>c, <2>3 DEF First, Mine, TypeOK, Locals, Words, Making, Reading, Exchanged,
                            build, NotInitialized, BeingInitialized, Initialized
  <2>4. CASE Inner
    BY <1>a, <1>c, <1>d, <2>4 DEF Inner, Mine, TypeOK, Locals, Words, Making, Reading,
                                  Exchanged, build, NotInitialized, BeingInitialized,
                                  Initialized
  <2> QED  BY <1>b, <2>1, <2>2, <2>3, <2>4
<1>4. Words'
  <2>1. CASE Seen \/ Busy
    BY <1>a, <2>1 DEF Seen, Busy, Words, Lone, build
  <2>2. CASE First \/ Inner
    <3>1. /\ state' = [state EXCEPT ![k0] = Exchanged(@)]
          /\ inits' = [inits EXCEPT ![k0] = @ \cup {t}]
          /\ state[k0] \in {0, NotInitialized} /\ atomic' = atomic /\ k0 \in Kinds
      BY <1>a, <2>2 DEF First, Inner, Mine, build, TypeOK
    <3>2. CASE atomic
      BY <3>1, <3>2 DEF Words, Exchanged, TypeOK, NotInitialized, Initialized
    <3>3. CASE ~atomic
      <4>1. state[k0] = NotInitialized /\ inits[k0] = {}
        BY <3>1, <3>3 DEF Words, NotInitialized, BeingInitialized, Initialized
      <4>2. state'[k0] = BeingInitialized /\ inits'[k0] = {t}
        BY <3>1, <4>1 DEF TypeOK, Exchanged
      <4>3. \A k \in Kinds \ {k0} : state'[k] = state[k] /\ inits'[k] = inits[k]
        BY <3>1 DEF TypeOK
      <4> QED  BY <3>1, <3>3, <4>2, <4>3 DEF Words, Lone, NotInitialized, BeingInitialized,
                                             Initialized
    <3> QED  BY <3>2, <3>3
  <2> QED  BY <1>b, <2>1, <2>2
<1>5. ASSUME NEW k \in Kinds, Lone(k)' PROVE Settled(k)'
  <2>1. Lone(k) /\ Settled(k)
    BY <1>5, Stays DEF Next, Step
  <2>2. CASE Seen \/ Busy
    <3>1. pc' = [pc EXCEPT ![t] = "read"] \/ pc' = [pc EXCEPT ![t] = "spin"]
      BY <2>2 DEF Seen, Busy
    <3> QED  BY <1>a, <1>c, <2>1, <2>2, <3>1
             DEF Seen, Busy, Settled, Made, Closed, Agreed, Known, MissedIt, TypeOK, build, Making
  <2>3. CASE First \/ Inner
    <3>1. /\ inits' = [inits EXCEPT ![k0] = @ \cup {t}]
          /\ state' = [state EXCEPT ![k0] = Exchanged(@)]
          /\ state[k0] \in {0, NotInitialized} /\ k0 \in Kinds
      BY <2>3 DEF First, Inner, Mine, TypeOK
    <3>2. state'[k] = Initialized <=> state[k] = Initialized
      BY <3>1 DEF TypeOK, Exchanged, NotInitialized, BeingInitialized, Initialized
    <3>3. state[k0] # Initialized
      BY <3>1 DEF NotInitialized, Initialized
    <3>4. /\ pc'[t] \in {"exchange", "create"} /\ nested'[t] \in BOOLEAN
          /\ nested'[t] => nested[t] \/ k0 = "queue"
          /\ pc'[t] = "create" => doing'[t] = k0
          /\ \A u \in Threads \ {t} : pc'[u] = pc[u] /\ nested'[u] = nested[u] /\ doing'[u] = doing[u]
      <4>1. CASE First
        BY <1>a, <4>1 DEF First, TypeOK
      <4>2. CASE Inner
        BY <1>a, <4>2 DEF Inner, TypeOK
      <4> QED  BY <2>3, <4>1, <4>2
    <3>5. Made(k)'
      <4> SUFFICES ASSUME state'[k] = Initialized, NEW u \in Threads
                   PROVE  /\ doing'[u] = k => pc'[u] \notin Making
                          /\ k = "queue" => ~nested'[u]
        BY DEF Made, Initialized, Making
      <4>1. /\ doing[u] = k => pc[u] \notin Making
            /\ k = "queue" => ~nested[u]
        BY <2>1, <3>2 DEF Settled, Made
      <4> QED  BY <3>2, <3>3, <3>4, <4>1 DEF Making
    <3>6. default[k] # NULL =>
            state'[k] = Initialized \/ \E u \in Threads : doing'[u] = k /\ pc'[u] = "store"
      BY <1>a, <2>1, <3>2, <3>4 DEF Settled, Made, Closed, Agreed, Known, MissedIt
    <3>7. \A u \in Threads : doing'[u] = k =>
            /\ pc'[u] = "store" => (told[u] = "failed" <=> default[k] = NULL)
            /\ "error" \in stored[u] => error[k] = told[u]
            /\ pc'[u] = "retain" => got[u] = default[k] \/ MissedIt(u)
            /\ got[u] # NULL => got[u] = default[k]
            /\ pc'[u] \in {"copy", "retain"} /\ ordered => (told[u] = "failed" <=> default[k] = NULL)
      BY <1>c, <2>1, <3>4 DEF Settled, Made, Closed, Agreed, Known, MissedIt
    <3>8. UNCHANGED <<ordered, default, error, told, got, stored, early, first>>
      BY <1>a DEF build
    <3>9. Closed(k)'
      BY <3>6, <3>8 DEF Closed, Initialized
    <3>10. Agreed(k)'
      BY <2>1, <3>2, <3>8 DEF Settled, Agreed, Initialized
    <3>11. Known(k)'
      BY <3>7, <3>8 DEF Known, MissedIt
    <3> QED  BY <3>5, <3>9, <3>10, <3>11 DEF Settled
  <2> QED  BY <1>b, <2>2, <2>3
<1>6. ASSUME NEW k \in Kinds, Lone(k)' PROVE Counted(k)'
  <2>1. Lone(k)
    BY <1>6, Stays DEF Next, Step
  <2>2. \A u \in Threads : made'[u] # NULL => doing'[u] = doing[u]
    BY <1>a, <1>b, <1>c DEF Seen, Busy, First, Inner, TypeOK
  <2>3. Counted(k)
    BY <2>1
  <2> QED  BY <1>a, <2>2, <2>3 DEF Counted, Owners
<1> QED  BY <1>1, <1>2, <1>3, <1>4, <1>5, <1>6

LEMMA EarlyErrorStep ==
  ASSUME IndInv, NEW t \in Threads, EarlyError(t)
  PROVE  IndInv'
<1> USE DEF IndInv, Kinds
<1>1. TypeOK'
  BY DEF TypeOK, Objects, Labels, Making, Reading, build, shared, past, EarlyError, MayLoadEarly
<1>2. KindsKept'
  BY DEF TypeOK, KindsKept, KindOf, ObjectsOf, Locals, build, shared, past,
         EarlyError, MayLoadEarly
<1>3. Locals'
  BY DEF TypeOK, Locals, Words, Making, Reading, Initialized, build, shared,
         past, EarlyError, MayLoadEarly
<1>4. Words'
  BY DEF TypeOK, Locals, Words, Lone, Initialized, build, shared, past, EarlyError, MayLoadEarly
<1>5. ASSUME NEW k \in Kinds, Lone(k)' PROVE Settled(k)'
  BY <1>5 DEF TypeOK, Lone, Locals, Words, Settled, Made, Closed, Agreed, Known, MissedIt,
              Making, Reading, Initialized, build, shared, past, EarlyError, MayLoadEarly
<1>6. ASSUME NEW k \in Kinds, Lone(k)' PROVE Counted(k)'
  BY <1>6 DEF TypeOK, KindsKept, KindOf, ObjectsOf, Lone, Locals, Settled, Made, Closed,
              Agreed, Known, MissedIt, Counted, Making, Reading, build, shared, past,
              EarlyError, MayLoadEarly
<1> QED  BY <1>1, <1>2, <1>3, <1>4, <1>5, <1>6

LEMMA EarlyDefaultStep ==
  ASSUME IndInv, NEW t \in Threads, EarlyDefault(t)
  PROVE  IndInv'
<1> USE DEF IndInv, Kinds
<1>1. TypeOK'
  BY DEF TypeOK, Objects, Labels, Making, Reading, build, shared, past, EarlyDefault,
         MayLoadEarly
<1>2. KindsKept'
  BY DEF TypeOK, KindsKept, KindOf, ObjectsOf, Locals, build, shared, past,
         EarlyDefault, MayLoadEarly
<1>3. Locals'
  BY DEF TypeOK, Locals, Words, Making, Reading, Initialized, build, shared,
         past, EarlyDefault, MayLoadEarly
<1>4. Words'
  BY DEF TypeOK, Locals, Words, Lone, Initialized, build, shared, past, EarlyDefault,
         MayLoadEarly
<1>5. ASSUME NEW k \in Kinds, Lone(k)' PROVE Settled(k)'
  BY <1>5 DEF TypeOK, Lone, Locals, Words, Settled, Made, Closed, Agreed, Known, MissedIt,
              Making, Reading, Initialized, build, shared, past, EarlyDefault, MayLoadEarly
<1>6. ASSUME NEW k \in Kinds, Lone(k)' PROVE Counted(k)'
  BY <1>6 DEF TypeOK, KindsKept, KindOf, ObjectsOf, Lone, Locals, Settled, Made, Closed,
              Agreed, Known, MissedIt, Counted, Making, Reading, build, shared, past,
              EarlyDefault, MayLoadEarly
<1> QED  BY <1>1, <1>2, <1>3, <1>4, <1>5, <1>6

LEMMA SpinAgainStep ==
  ASSUME IndInv, NEW t \in Threads, SpinAgain(t)
  PROVE  IndInv'
<1> USE DEF IndInv, Kinds
<1>1. TypeOK'
  BY DEF TypeOK, Objects, Labels, Making, Reading, build, shared, past, SpinAgain
<1>2. KindsKept'
  BY DEF TypeOK, KindsKept, KindOf, ObjectsOf, Locals, build, shared, past,
         SpinAgain
<1>3. Locals'
  BY DEF TypeOK, Locals, Words, Making, Reading, Initialized, build, shared,
         past, SpinAgain
<1>4. Words'
  BY DEF TypeOK, Locals, Words, Lone, Initialized, build, shared, past, SpinAgain
<1>5. ASSUME NEW k \in Kinds, Lone(k)' PROVE Settled(k)'
  BY <1>5 DEF TypeOK, Lone, Locals, Words, Settled, Made, Closed, Agreed, Known, MissedIt,
              Making, Reading, Initialized, build, shared, past, SpinAgain
<1>6. ASSUME NEW k \in Kinds, Lone(k)' PROVE Counted(k)'
  BY <1>6 DEF TypeOK, KindsKept, KindOf, ObjectsOf, Lone, Locals, Settled, Made, Closed,
              Agreed, Known, MissedIt, Counted, Making, Reading, build, shared, past,
              SpinAgain
<1> QED  BY <1>1, <1>2, <1>3, <1>4, <1>5, <1>6

LEMMA SpinEndsStep ==
  ASSUME IndInv, NEW t \in Threads, SpinEnds(t)
  PROVE  IndInv'
<1> USE DEF IndInv, Kinds
<1>1. TypeOK'
  BY DEF TypeOK, Objects, Labels, Making, Reading, Goes, build, shared, locals, past, SpinEnds
<1>2. KindsKept'
  BY DEF TypeOK, KindsKept, KindOf, ObjectsOf, Locals, Goes, build, shared, locals, past,
         SpinEnds
<1>3. Locals'
  BY DEF TypeOK, Locals, Words, Making, Reading, Initialized, Goes, build, shared, locals,
         past, SpinEnds
<1>4. Words'
  BY DEF TypeOK, Locals, Words, Lone, Initialized, Goes, build, shared, locals, past, SpinEnds
<1>5. ASSUME NEW k \in Kinds, Lone(k)' PROVE Settled(k)'
  BY <1>5 DEF TypeOK, Lone, Locals, Words, Settled, Made, Closed, Agreed, Known, MissedIt,
              Making, Reading, Initialized, Goes, build, shared, locals, past, SpinEnds
<1>6. ASSUME NEW k \in Kinds, Lone(k)' PROVE Counted(k)'
  BY <1>6 DEF TypeOK, KindsKept, KindOf, ObjectsOf, Lone, Locals, Settled, Made, Closed,
              Agreed, Known, MissedIt, Counted, Making, Reading, Goes, build, shared, locals, past,
              SpinEnds
<1> QED  BY <1>1, <1>2, <1>3, <1>4, <1>5, <1>6

LEMMA CreateStep ==
  ASSUME IndInv, NEW t \in Threads, Create(t)
  PROVE  IndInv'
<1> USE DEF IndInv, Kinds
<1>1. TypeOK'
  BY DEF TypeOK, Objects, Labels, Making, Reading, Goes, build, shared, past, Create
<1>2. KindsKept'
  BY DEF TypeOK, KindsKept, KindOf, ObjectsOf, Locals, Goes, build, shared, past, Create
<1>3. Locals'
  <2>1. <<doing[t], t>> \in Objects /\ <<doing[t], t>> # NULL
    BY ThreadsAssumption DEF TypeOK, Objects
  <2> QED  BY <2>1 DEF TypeOK, Locals, Making, Reading, Goes, build, shared, past, Create
<1>4. Words'
  BY DEF TypeOK, Locals, Words, Lone, Initialized, Goes, build, shared, past, Create
<1>5. ASSUME NEW k \in Kinds, Lone(k)' PROVE Settled(k)'
  BY <1>5 DEF TypeOK, Lone, Locals, Words, Settled, Made, Closed, Agreed, Known, MissedIt,
              Making, Reading, Initialized, Goes, build, shared, past, Create
<1>6. ASSUME NEW k \in Kinds, Lone(k)' PROVE Counted(k)'
  <2> DEFINE o == <<doing[t], t>>
  <2>1. Lone(k)
    BY <1>6, Stays DEF Next, Step
  <2>2. default[k] # NULL => default[k] # o /\ default[k] \in Objects
    <3>1. CASE doing[t] = k
      BY <2>1, <3>1, NotThereYet DEF Making, Create
    <3>2. CASE doing[t] # k
      BY <3>2 DEF KindsKept, KindOf, ObjectsOf, Objects
    <3> QED  BY <3>1, <3>2
  <2>3. refs' = [refs EXCEPT ![o] = 1] /\ o \in Objects
    BY DEF Create, TypeOK, Objects
  <2>4. \A u \in Threads : doing'[u] = k /\ made'[u] # NULL => refs'[made'[u]] = 1
    <3> TAKE u \in Threads
    <3>1. CASE u = t
      BY <2>3, <3>1 DEF Create, TypeOK
    <3>2. CASE u # t
      <4>1. made'[u] = made[u] /\ doing'[u] = doing[u]
        BY <3>2 DEF Create, TypeOK
      <4>2. made[u] # NULL => made[u] = <<doing[u], u>> /\ made[u] \in Objects
        BY DEF Locals, TypeOK
      <4> QED  BY <2>1, <2>3, <3>2, <4>1, <4>2 DEF Counted, TypeOK
    <3> QED  BY <3>1, <3>2
  <2>5. default' = default /\ hold' = hold /\ context' = context
    BY DEF Create, shared
  <2>6. default[k] # NULL => refs'[default[k]] = refs[default[k]]
    BY <2>2, <2>3 DEF TypeOK
  <2> QED  BY <2>1, <2>4, <2>5, <2>6 DEF Counted, Owners
<1> QED  BY <1>1, <1>2, <1>3, <1>4, <1>5, <1>6

LEMMA CreateFailsStep ==
  ASSUME IndInv, NEW t \in Threads, CreateFails(t)
  PROVE  IndInv'
<1> USE DEF IndInv, Kinds
<1>1. TypeOK'
  BY DEF TypeOK, Objects, Labels, Making, Reading, Goes, build, shared, past, CreateFails
<1>2. KindsKept'
  BY DEF TypeOK, KindsKept, KindOf, ObjectsOf, Locals, Goes, build, shared, past, CreateFails
<1>3. Locals'
  BY DEF TypeOK, Locals, Words, Making, Reading, Initialized, Goes, build, shared, past,
         CreateFails
<1>4. Words'
  <2>1. UNCHANGED <<atomic, state, inits>>
    BY DEF CreateFails, build, shared, past
  <2> QED  BY <2>1 DEF Words, Lone
<1>5. ASSUME NEW k \in Kinds, Lone(k)' PROVE Settled(k)'
  BY <1>5 DEF TypeOK, Lone, Locals, Words, Settled, Made, Closed, Agreed, Known, MissedIt,
              Making, Reading, Initialized, Goes, build, shared, past, CreateFails
<1>6. ASSUME NEW k \in Kinds, Lone(k)' PROVE Counted(k)'
  BY <1>6 DEF TypeOK, KindsKept, KindOf, ObjectsOf, Lone, Locals, Settled, Made, Closed,
              Agreed, Known, MissedIt, Counted, Making, Reading, Goes, build, shared, past, CreateFails
<1> QED  BY <1>1, <1>2, <1>3, <1>4, <1>5, <1>6

LEMMA CreateThrowsStep ==
  ASSUME IndInv, NEW t \in Threads, CreateThrows(t)
  PROVE  IndInv'
<1> USE DEF IndInv, Kinds
<1>1. TypeOK'
  <2>1. pc' \in [Threads -> Labels] /\ doing' \in [Threads -> Kinds]
    BY DEF TypeOK, Labels, Goes, Leaves, CreateThrows
  <2>2. refs' \in [Objects -> Int]
    BY DEF TypeOK, Adjust, CreateThrows
  <2>3. UNCHANGED <<atomic, throws, ordered, state, default, error, got, stored, early, hold,
                    inits, first>>
    BY DEF build, shared, CreateThrows
  <2>4. /\ nested' \in [Threads -> BOOLEAN] /\ made' \in [Threads -> Objects \cup {NULL}]
        /\ context' \in [Threads -> Objects \cup {NULL}]
        /\ told' \in [Threads -> {"none", "failed"}] /\ thrown' \in BOOLEAN
    BY DEF TypeOK, Leaves, CreateThrows
  <2>5. TypeOK
    OBVIOUS
  <2> HIDE DEF IndInv
  <2> QED  BY <2>1, <2>2, <2>3, <2>4, <2>5 DEF TypeOK
<1>2. KindsKept'
  <2>1. /\ pc[t] = "create" /\ made[t] = NULL /\ context'[t] = NULL
        /\ UNCHANGED <<default, got>>
    BY DEF TypeOK, CreateThrows, Leaves, Locals, shared
  <2>2. got[t] = NULL
    BY <2>1 DEF Locals, Reading
  <2>3. \A u \in Threads \ {t} : UNCHANGED <<made[u], context[u], doing[u]>>
    BY DEF TypeOK, CreateThrows, Leaves
  <2>4. made'[t] = NULL
    BY DEF TypeOK, CreateThrows, Leaves
  <2> QED  BY <2>1, <2>2, <2>3, <2>4 DEF KindsKept, KindOf, ObjectsOf
<1>3. Locals'
  BY DEF TypeOK, Locals, Words, Making, Reading, Initialized, Goes, Leaves, build, shared,
         CreateThrows
<1>4. Words'
  <2>1. UNCHANGED <<atomic, state, inits>>
    BY DEF CreateThrows, build, shared
  <2> QED  BY <2>1 DEF Words, Lone
<1>5. ASSUME NEW k \in Kinds, Lone(k)' PROVE Settled(k)'
  BY <1>5 DEF TypeOK, Lone, Locals, Words, Settled, Made, Closed, Agreed, Known, MissedIt,
              Making, Reading, Initialized, Goes, Leaves, build, shared, CreateThrows
<1>6. ASSUME NEW k \in Kinds, Lone(k)' PROVE Counted(k)'
  <2>1. Lone(k)
    BY <1>6, Stays DEF Next, Step
  <2> DEFINE c == context[t]  d == default[k]
  <2>2. /\ pc[t] = "create" /\ default' = default /\ hold' = hold /\ made' = [made EXCEPT ![t] = NULL]
        /\ context' = [context EXCEPT ![t] = NULL] /\ refs' = Adjust(refs, c, -1)
        /\ doing' = [doing EXCEPT ![t] = "context"]
    BY DEF CreateThrows, Leaves, shared
  <2>3. c # NULL => c \in ObjectsOf("context") /\ c \in Objects
    BY DEF KindsKept, KindOf, TypeOK
  <2>4. ASSUME d # NULL
        PROVE  refs'[d] = refs[d] - One(c, d)
    <3>1. d \in Objects /\ refs[d] \in Int
      BY <2>4 DEF TypeOK
    <3>2. c = d => refs[d] > 0
      <4>1. Owners(hold, d) \in Nat /\ Owners(context, d) \in Nat
        BY OwnersNat
      <4> QED  BY <2>1, <2>4, <4>1 DEF Counted
    <3> QED  BY <2>2, <2>3, <2>4, <3>1, <3>2 DEF Adjust, One, TypeOK
  <2>5. \A u \in Threads : doing'[u] = k /\ made'[u] # NULL => refs'[made'[u]] = 1
    <3> TAKE u \in Threads
    <3> HAVE doing'[u] = k /\ made'[u] # NULL
    <3>1. u # t /\ doing[u] = k /\ made[u] # NULL /\ made[u] \in Objects /\ pc[u] \in Making
      BY <2>2 DEF TypeOK, Locals, Making
    <3>2. made[u] # c
      <4>1. made[u] \in ObjectsOf(k) /\ d = NULL
        BY <2>1, <3>1, NotThereYet DEF KindsKept, KindOf
      <4> QED  BY <2>1, <3>1, <4>1 DEF Counted
    <3>3. refs[made[u]] = 1
      BY <2>1, <3>1 DEF Counted
    <3> QED  BY <2>2, <2>3, <3>1, <3>2, <3>3 DEF Adjust, TypeOK
  <2>6. /\ \A u \in Threads \ {t} : hold'[u] = hold[u] /\ context'[u] = context[u]
        /\ hold'[t] = hold[t] /\ context'[t] = NULL /\ hold[t] = NULL
    BY <2>2 DEF TypeOK, Locals
  <2>7. NULL \notin ObjectsOf(k)
    BY ThreadsAssumption DEF ObjectsOf, Objects
  <2>8. d # NULL =>
          refs'[d] = refs[d] - One(hold[t], d) + One(hold'[t], d) - One(c, d) + One(context'[t], d)
    BY <2>4, <2>6 DEF One, TypeOK
  <2> QED  BY <2>1, <2>2, <2>5, <2>6, <2>7, <2>8, CountedAfter
<1> QED  BY <1>1, <1>2, <1>3, <1>4, <1>5, <1>6

LEMMA ReleaseOldStep ==
  ASSUME IndInv, NEW t \in Threads, ReleaseOld(t)
  PROVE  IndInv'
<1> USE DEF IndInv, Kinds
<1>1. TypeOK'
  BY DEF TypeOK, Objects, Labels, Making, Reading, Adjust, Goes, build, shared, locals, past,
         ReleaseOld
<1>2. KindsKept'
  BY DEF TypeOK, KindsKept, KindOf, ObjectsOf, Locals, Goes, build, shared, locals, past,
         ReleaseOld
<1>3. Locals'
  BY DEF TypeOK, Locals, Words, Making, Reading, Initialized, Goes, build, shared, locals,
         past, ReleaseOld
<1>4. Words'
  BY DEF TypeOK, Locals, Words, Lone, Initialized, Goes, build, shared, locals, past, ReleaseOld
<1>5. ASSUME NEW k \in Kinds, Lone(k)' PROVE Settled(k)'
  BY <1>5 DEF TypeOK, Lone, Locals, Words, Settled, Made, Closed, Agreed, Known, MissedIt,
              Making, Reading, Initialized, Goes, build, shared, locals, past, ReleaseOld
<1>6. ASSUME NEW k \in Kinds, Lone(k)' PROVE Counted(k)'
  BY <1>6 DEF TypeOK, KindsKept, KindOf, ObjectsOf, Lone, Locals, Settled, Made, Closed,
              Agreed, Known, MissedIt, Counted, Making, Reading, Adjust, Goes, build, shared, locals,
              past, ReleaseOld
<1> QED  BY <1>1, <1>2, <1>3, <1>4, <1>5, <1>6

LEMMA SetDefaultStep ==
  ASSUME IndInv, NEW t \in Threads, SetDefault(t)
  PROVE  IndInv'
<1> USE DEF IndInv, Kinds
<1>1. TypeOK'
  BY DEF TypeOK, Objects, Labels, Making, Reading, Goes, build, past, SetDefault
<1>2. KindsKept'
  BY DEF TypeOK, KindsKept, KindOf, ObjectsOf, Locals, Goes, build, past, SetDefault
<1>3. Locals'
  BY DEF TypeOK, Locals, Words, Making, Reading, Initialized, Goes, build, past, SetDefault
<1>4. Words'
  BY DEF TypeOK, Locals, Words, Lone, Initialized, Goes, build, past, SetDefault
<1>5. ASSUME NEW k \in Kinds, Lone(k)' PROVE Settled(k)'
  BY <1>5 DEF TypeOK, Lone, Locals, Words, Settled, Made, Closed, Agreed, Known, MissedIt,
              Making, Reading, Initialized, Goes, build, past, SetDefault
<1>6. ASSUME NEW k \in Kinds, Lone(k)' PROVE Counted(k)'
  <2>1. Lone(k)
    BY <1>6, Stays DEF Next, Step
  <2>2. /\ pc[t] = "set" /\ hold' = hold /\ context' = context /\ refs' = refs /\ doing' = doing
        /\ made' = [made EXCEPT ![t] = NULL] /\ default' = [default EXCEPT ![doing[t]] = made[t]]
    BY DEF SetDefault
  <2>3. \A u \in Threads : doing'[u] = k /\ made'[u] # NULL => refs'[made'[u]] = 1
    BY <2>1, <2>2 DEF Counted, TypeOK
  <2>4. CASE doing[t] # k
    <3>1. default'[k] = default[k]
      BY <2>2, <2>4 DEF TypeOK
    <3>2. default[k] # NULL =>
            refs[default[k]] = 1 + Owners(hold, default[k]) + Owners(context, default[k])
      BY <2>1 DEF Counted
    <3>3. (default[k] # NULL =>
            refs[default[k]] = 1 + Owners(hold, default[k]) + Owners(context, default[k]))'
      BY <2>2, <3>1, <3>2 DEF Owners
    <3> QED  BY <2>1, <2>2, <2>3, <3>1, <3>3 DEF Counted
  <2>5. CASE doing[t] = k
    <3>1. default[k] = NULL /\ default'[k] = made[t] /\ NULL \notin ObjectsOf(k)
      BY <2>1, <2>2, <2>5, NotThereYet, ThreadsAssumption DEF Making, TypeOK, ObjectsOf, Objects
    <3>2. \A u \in Threads : hold[u] \notin ObjectsOf(k) /\ context[u] \notin ObjectsOf(k)
      BY <2>1, <3>1 DEF Counted
    <3>3. made[t] # NULL => made[t] \in ObjectsOf(k) /\ refs[made[t]] = 1
      BY <2>1, <2>5 DEF Counted, KindsKept, KindOf
    <3>4. made[t] # NULL => Owners(hold, made[t]) = 0 /\ Owners(context, made[t]) = 0
      BY <3>2, <3>3, OwnersNone
    <3>5. /\ (Owners(hold, made[t]) = Owners(hold, default[k])')
          /\ (Owners(context, made[t]) = Owners(context, default[k])')
      BY <2>2, <3>1 DEF Owners
    <3> QED  BY <2>2, <2>3, <3>1, <3>2, <3>3, <3>4, <3>5 DEF Counted, ObjectsOf
  <2> QED  BY <2>4, <2>5
<1> QED  BY <1>1, <1>2, <1>3, <1>4, <1>5, <1>6

LEMMA StoreErrorStep ==
  ASSUME IndInv, NEW t \in Threads, StoreError(t)
  PROVE  IndInv'
<1> USE DEF IndInv, Kinds
<1>1. TypeOK'
  BY DEF TypeOK, Objects, Labels, Making, Reading, build, past, StoreError
<1>2. KindsKept'
  BY DEF TypeOK, KindsKept, KindOf, ObjectsOf, Locals, build, past, StoreError
<1>3. Locals'
  BY DEF TypeOK, Locals, Words, Making, Reading, Initialized, build, past, StoreError
<1>4. Words'
  BY DEF TypeOK, Locals, Words, Lone, Initialized, build, past, StoreError
<1>5. ASSUME NEW k \in Kinds, Lone(k)' PROVE Settled(k)'
  BY <1>5 DEF TypeOK, Lone, Locals, Words, Settled, Made, Closed, Agreed, Known, MissedIt,
              Making, Reading, Initialized, build, past, StoreError
<1>6. ASSUME NEW k \in Kinds, Lone(k)' PROVE Counted(k)'
  BY <1>6 DEF TypeOK, KindsKept, KindOf, ObjectsOf, Lone, Locals, Settled, Made, Closed,
              Agreed, Known, MissedIt, Counted, Making, Reading, build, past, StoreError
<1> QED  BY <1>1, <1>2, <1>3, <1>4, <1>5, <1>6

LEMMA StoreStateStep ==
  ASSUME IndInv, NEW t \in Threads, StoreState(t)
  PROVE  IndInv'
<1> USE DEF IndInv, Kinds
<1>1. TypeOK'
  BY DEF TypeOK, Labels, Initialized, build, past, StoreState
<1>2. KindsKept'
  BY DEF TypeOK, KindsKept, KindOf, ObjectsOf, Locals, build, past, StoreState
<1>3. Locals'
  BY DEF TypeOK, Locals, Words, Making, Reading, Initialized, build, past, StoreState
<1>4. Words'
  BY DEF TypeOK, Locals, Words, Lone, NotInitialized, BeingInitialized, Initialized, build,
         past, StoreState
<1>5. ASSUME NEW k \in Kinds, Lone(k)' PROVE Settled(k)'
  <2>1. Lone(k) /\ Settled(k)
    BY <1>5, Stays DEF Next, Step
  <2>2. /\ pc[t] = "store" /\ (ordered => "error" \in stored[t]) /\ t \in inits[doing[t]]
        /\ state' = [state EXCEPT ![doing[t]] = Initialized]
        /\ stored' = [stored EXCEPT ![t] = @ \cup {"state"}]
        /\ UNCHANGED <<ordered, default, error, pc, doing, nested, told, got, early, first>>
    BY DEF StoreState, FlagMayFollow, build, past, Locals
  <2>3. CASE doing[t] # k
    <3>1. state'[k] = state[k] /\ \A u \in Threads : doing[u] = k => stored'[u] = stored[u]
      BY <2>2, <2>3 DEF TypeOK
    <3> QED  BY <2>1, <2>2, <3>1 DEF Settled, Made, Closed, Agreed, Known, MissedIt
  <2>4. CASE doing[t] = k
    <3>1. state'[k] = Initialized /\ \A u \in Threads : "error" \in stored'[u] => "error" \in stored[u]
      BY <2>2, <2>4 DEF TypeOK
    <3>2. \A u \in Threads : /\ doing[u] = k => pc[u] \notin Making
                             /\ k = "queue" => ~nested[u]
      BY <2>1, <2>2, <2>4 DEF Lone, Locals, Making
    <3>3. ordered => (error[k] = "failed" <=> default[k] = NULL)
      BY <2>1, <2>2, <2>4 DEF Settled, Made, Closed, Agreed, Known, MissedIt
    <3> QED  BY <2>1, <2>2, <3>1, <3>2, <3>3 DEF Settled, Made, Closed, Agreed, Known, MissedIt
  <2> QED  BY <2>3, <2>4
<1>6. ASSUME NEW k \in Kinds, Lone(k)' PROVE Counted(k)'
  BY <1>6 DEF TypeOK, KindsKept, KindOf, ObjectsOf, Lone, Locals, Settled, Made, Closed,
              Agreed, Known, MissedIt, Counted, Making, Reading, build, past, StoreState
<1> QED  BY <1>1, <1>2, <1>3, <1>4, <1>5, <1>6

LEMMA FenceStep ==
  ASSUME IndInv, NEW t \in Threads, Fence(t)
  PROVE  IndInv'
<1> USE DEF IndInv, Kinds
<1>1. TypeOK'
  BY DEF TypeOK, Objects, Labels, Making, Reading, Goes, build, shared, past, Fence
<1>2. KindsKept'
  BY DEF TypeOK, KindsKept, KindOf, ObjectsOf, Locals, Goes, build, shared, past, Fence
<1>3. Locals'
  BY DEF TypeOK, Locals, Words, Making, Reading, Initialized, Goes, build, shared, past, Fence
<1>4. Words'
  BY DEF TypeOK, Locals, Words, Lone, Initialized, Goes, build, shared, past, Fence
<1>5. ASSUME NEW k \in Kinds, Lone(k)' PROVE Settled(k)'
  BY <1>5 DEF TypeOK, Lone, Locals, Words, Settled, Made, Closed, Agreed, Known, MissedIt,
              Making, Reading, Initialized, Goes, build, shared, past, Fence
<1>6. ASSUME NEW k \in Kinds, Lone(k)' PROVE Counted(k)'
  BY <1>6 DEF TypeOK, KindsKept, KindOf, ObjectsOf, Lone, Locals, Settled, Made, Closed,
              Agreed, Known, MissedIt, Counted, Making, Reading, Goes, build, shared, past, Fence
<1> QED  BY <1>1, <1>2, <1>3, <1>4, <1>5, <1>6

LEMMA ReadErrorStep ==
  ASSUME IndInv, NEW t \in Threads, ReadError(t)
  PROVE  IndInv'
<1> USE DEF IndInv, Kinds
<1>1. TypeOK'
  BY DEF TypeOK, Objects, Labels, Making, Reading, Goes, build, shared, past, ReadError
<1>2. KindsKept'
  BY DEF TypeOK, KindsKept, KindOf, ObjectsOf, Locals, Goes, build, shared, past, ReadError
<1>3. Locals'
  BY DEF TypeOK, Locals, Words, Making, Reading, Initialized, Goes, build, shared, past,
         ReadError
<1>4. Words'
  BY DEF TypeOK, Locals, Words, Lone, Initialized, Goes, build, shared, past, ReadError
<1>5. ASSUME NEW k \in Kinds, Lone(k)' PROVE Settled(k)'
  BY <1>5 DEF TypeOK, Lone, Locals, Words, Settled, Made, Closed, Agreed, Known, MissedIt,
              Making, Reading, Initialized, Goes, build, shared, past, ReadError
<1>6. ASSUME NEW k \in Kinds, Lone(k)' PROVE Counted(k)'
  BY <1>6 DEF TypeOK, KindsKept, KindOf, ObjectsOf, Lone, Locals, Settled, Made, Closed,
              Agreed, Known, MissedIt, Counted, Making, Reading, Goes, build, shared, past, ReadError
<1> QED  BY <1>1, <1>2, <1>3, <1>4, <1>5, <1>6

LEMMA CopyDefaultStep ==
  ASSUME IndInv, NEW t \in Threads, CopyDefault(t)
  PROVE  IndInv'
<1> USE DEF IndInv, Kinds
<1>1. TypeOK'
  BY DEF TypeOK, Objects, Labels, Making, Reading, Goes, build, shared, past, CopyDefault
<1>2. KindsKept'
  BY DEF TypeOK, KindsKept, KindOf, ObjectsOf, Locals, Goes, build, shared, past, CopyDefault
<1>3. Locals'
  BY DEF TypeOK, Locals, Words, Making, Reading, Initialized, Goes, build, shared, past,
         CopyDefault
<1>4. Words'
  BY DEF TypeOK, Locals, Words, Lone, Initialized, Goes, build, shared, past, CopyDefault
<1>5. ASSUME NEW k \in Kinds, Lone(k)' PROVE Settled(k)'
  BY <1>5 DEF TypeOK, Lone, Locals, Words, Settled, Made, Closed, Agreed, Known, MissedIt,
              Making, Reading, Initialized, Goes, build, shared, past, CopyDefault
<1>6. ASSUME NEW k \in Kinds, Lone(k)' PROVE Counted(k)'
  BY <1>6 DEF TypeOK, KindsKept, KindOf, ObjectsOf, Lone, Locals, Settled, Made, Closed,
              Agreed, Known, MissedIt, Counted, Making, Reading, Goes, build, shared, past, CopyDefault
<1> QED  BY <1>1, <1>2, <1>3, <1>4, <1>5, <1>6

LEMMA ReturnStep ==
  ASSUME IndInv, NEW t \in Threads, Return(t)
  PROVE  IndInv'
<1> USE DEF IndInv, Kinds
<1>1. TypeOK'
  <2>1. /\ \A k \in Kinds : first'[k] = <<>> \/ \E o \in Objects \cup {NULL} : first'[k] = <<o>>
        /\ DOMAIN first' = Kinds
    <3>1. got[t] \in Objects \cup {NULL}
      BY DEF TypeOK
    <3> QED  BY <3>1 DEF TypeOK, Return
  <2>2. refs' \in [Objects -> Int]
    BY DEF TypeOK, Return, Adjust, OwnReference
  <2> QED  BY <2>1, <2>2 DEF TypeOK, Labels, Making, Reading, Goes, build, shared, Leaves,
                             Return
<1>2. KindsKept'
  BY DEF TypeOK, KindsKept, KindOf, ObjectsOf, Locals, Goes, Leaves, build, shared, Return
<1>3. Locals'
  BY DEF TypeOK, Locals, Words, Making, Reading, Initialized, Goes, Leaves, build, shared,
         Return
<1>4. Words'
  BY DEF TypeOK, Locals, Words, Lone, Initialized, Goes, Leaves, build, shared, Return
<1>5. ASSUME NEW k \in Kinds, Lone(k)' PROVE Settled(k)'
  BY <1>5 DEF TypeOK, Lone, Locals, Words, Settled, Made, Closed, Agreed, Known, MissedIt,
              Making, Reading, Initialized, Goes, Leaves, build, shared, Return
<1>6. ASSUME NEW k \in Kinds, Lone(k)' PROVE Counted(k)'
  <2>1. Lone(k)
    BY <1>6, Stays DEF Next, Step
  <2> DEFINE o == got[t]  c == context[t]  d == default[k]
  <2>2. /\ pc[t] = "retain" /\ default' = default /\ made' = [made EXCEPT ![t] = NULL]
        /\ hold' = [hold EXCEPT ![t] = o] /\ context' = [context EXCEPT ![t] = NULL]
        /\ refs' = Adjust(Adjust(refs, o, 1), c, -1) /\ doing' = [doing EXCEPT ![t] = "context"]
    BY DEF Return, Leaves, shared, OwnReference
  <2>3. /\ hold[t] = NULL /\ o \in Objects \cup {NULL} /\ c \in Objects \cup {NULL}
        /\ KindOf(o, doing[t]) /\ (c # NULL => c \in ObjectsOf("context") /\ doing[t] = "queue")
        /\ state[doing[t]] = Initialized
    BY <2>2 DEF TypeOK, Locals, KindsKept, KindOf, Reading
  <2>4. o # NULL /\ c # NULL => o # c
    BY <2>3 DEF KindOf, ObjectsOf
  <2>5. doing[t] = k => o \in {d, NULL}
    BY <2>1, <2>2 DEF Settled, Made, Closed, Agreed, Known, MissedIt
  <2>6. ASSUME d # NULL
        PROVE  d \in Objects /\ refs[d] \in Int /\ refs[d] > 0
    <3>1. Owners(hold, d) \in Nat /\ Owners(context, d) \in Nat
      BY OwnersNat
    <3> QED  BY <2>1, <2>6, <3>1 DEF Counted, TypeOK
  <2>8. d # NULL => refs'[d] = refs[d] + One(o, d) - One(c, d)
    BY <2>2, <2>3, <2>4, <2>6 DEF Adjust, One, TypeOK
  <2>9. \A u \in Threads : doing'[u] = k /\ made'[u] # NULL => refs'[made'[u]] = 1
    <3> TAKE u \in Threads
    <3> HAVE doing'[u] = k /\ made'[u] # NULL
    <3>1. u # t /\ doing[u] = k /\ made[u] # NULL /\ made[u] \in Objects /\ pc[u] \in Making
      BY <2>2 DEF TypeOK, Locals, Making
    <3>2. made[u] \in ObjectsOf(k) /\ d = NULL /\ state[k] # Initialized
      BY <2>1, <3>1, NotThereYet DEF KindsKept, KindOf
    <3>3. made[u] # o /\ made[u] # c
      <4>1. doing[t] # k
        BY <2>3, <3>2
      <4>2. made[u] # o
        BY <2>3, <3>1, <3>2, <4>1 DEF KindOf, ObjectsOf
      <4>3. made[u] # c
        BY <2>1, <3>1, <3>2 DEF Counted
      <4> QED  BY <4>2, <4>3
    <3>4. refs[made[u]] = 1
      BY <2>1, <3>1 DEF Counted
    <3> QED  BY <2>2, <2>3, <3>1, <3>3, <3>4 DEF Adjust, TypeOK
  <2>10. /\ \A u \in Threads \ {t} : hold'[u] = hold[u] /\ context'[u] = context[u]
         /\ hold'[t] = o /\ context'[t] = NULL
    BY <2>2 DEF TypeOK
  <2>11. NULL \notin ObjectsOf(k)
    BY ThreadsAssumption DEF ObjectsOf, Objects
  <2>12. hold'[t] \in ObjectsOf(k) => hold'[t] = d
    BY <2>3, <2>5, <2>10, <2>11 DEF KindOf, ObjectsOf
  <2>13. d # NULL =>
           refs'[d] = refs[d] - One(hold[t], d) + One(hold'[t], d) - One(c, d) + One(context'[t], d)
    BY <2>3, <2>6, <2>8, <2>10 DEF One
  <2> QED  BY <2>1, <2>2, <2>9, <2>10, <2>11, <2>12, <2>13, CountedAfter
<1> QED  BY <1>1, <1>2, <1>3, <1>4, <1>5, <1>6

LEMMA ReturnToQueueStep ==
  ASSUME IndInv, NEW t \in Threads, ReturnToQueue(t)
  PROVE  IndInv'
<1> USE DEF IndInv, Kinds
<1>1. TypeOK'
  <2>1. /\ \A k \in Kinds : first'[k] = <<>> \/ \E o \in Objects \cup {NULL} : first'[k] = <<o>>
        /\ DOMAIN first' = Kinds
    <3>1. got[t] \in Objects \cup {NULL}
      BY DEF TypeOK
    <3> QED  BY <3>1 DEF TypeOK, ReturnToQueue
  <2>2. refs' \in [Objects -> Int]
    BY DEF TypeOK, ReturnToQueue, Adjust, OwnReference
  <2> QED  BY <2>1, <2>2 DEF TypeOK, Labels, Making, Reading, Goes, build, shared,
                             AfterContextFailed, ReturnToQueue
<1>2. KindsKept'
  <2>1. pc[t] = "retain" /\ doing[t] = "context" /\ made[t] = NULL /\ KindOf(got[t], "context")
    BY DEF ReturnToQueue, Locals, KindsKept
  <2>2. \A u \in Threads \ {t} : doing'[u] = doing[u] /\ got'[u] = got[u] /\ context'[u] = context[u]
    BY DEF ReturnToQueue, TypeOK
  <2>3. /\ got'[t] = NULL /\ context'[t] = got[t] /\ made' = made /\ default' = default
    BY DEF ReturnToQueue, TypeOK, shared
  <2> QED  BY <2>1, <2>2, <2>3 DEF KindsKept, KindOf, ObjectsOf
<1>3. Locals'
  <2>1. /\ pc[t] = "retain" /\ doing[t] = "context" /\ t \in inits["queue"]
        /\ made[t] = NULL /\ stored[t] = {} /\ hold[t] = NULL
    BY DEF Locals, ReturnToQueue
  <2>2. /\ pc'[t] \in {"create", "store"} /\ doing'[t] = "queue" /\ ~nested'[t] /\ got'[t] = NULL
        /\ made'[t] = NULL /\ stored'[t] = {} /\ hold'[t] = NULL /\ inits' = inits /\ state' = state
        /\ early'[t] = {} /\ ordered' = ordered
    BY <2>1 DEF ReturnToQueue, Goes, AfterContextFailed, TypeOK, shared, build
  <2>3. \A u \in Threads \ {t} :
          /\ pc'[u] = pc[u] /\ doing'[u] = doing[u] /\ nested'[u] = nested[u] /\ got'[u] = got[u]
          /\ made'[u] = made[u] /\ stored'[u] = stored[u] /\ hold'[u] = hold[u]
          /\ context'[u] = context[u] /\ told'[u] = told[u] /\ early'[u] = early[u]
    BY DEF ReturnToQueue, Goes, TypeOK
  <2>4. "queue" \in Kinds
    OBVIOUS
  <2> QED  BY <2>1, <2>2, <2>3, <2>4 DEF Locals, Making, Reading
<1>4. Words'
  BY DEF TypeOK, Locals, Words, Lone, Initialized, Goes, build, shared, ReturnToQueue
<1>5. ASSUME NEW k \in Kinds, Lone(k)' PROVE Settled(k)'
  BY <1>5 DEF TypeOK, Lone, Locals, Words, Settled, Made, Closed, Agreed, Known, MissedIt,
              Making, Reading, Initialized, Goes, build, shared, ReturnToQueue
<1>6. ASSUME NEW k \in Kinds, Lone(k)' PROVE Counted(k)'
  <2>1. Lone(k)
    BY <1>6, Stays DEF Next, Step
  <2> DEFINE o == got[t]  d == default[k]
  <2>2. /\ pc[t] = "retain" /\ nested[t] /\ default' = default /\ made' = made /\ hold' = hold
        /\ context' = [context EXCEPT ![t] = o] /\ refs' = Adjust(refs, o, 1)
        /\ doing' = [doing EXCEPT ![t] = "queue"]
    BY DEF ReturnToQueue, shared, OwnReference
  <2>3. /\ o \in Objects \cup {NULL} /\ KindOf(o, "context") /\ doing[t] = "context"
        /\ context[t] = NULL /\ hold[t] = NULL /\ made[t] = NULL /\ state["context"] = Initialized
    BY <2>2 DEF TypeOK, Locals, KindsKept, KindOf, Reading
  <2>4. k = "context" => o \in {d, NULL}
    BY <2>1, <2>2, <2>3 DEF Settled, Made, Closed, Agreed, Known, MissedIt
  <2>5. ASSUME d # NULL
        PROVE  d \in Objects /\ refs[d] \in Int /\ refs[d] > 0
    <3>1. Owners(hold, d) \in Nat /\ Owners(context, d) \in Nat
      BY OwnersNat
    <3> QED  BY <2>1, <2>5, <3>1 DEF Counted, TypeOK
  <2>6. d # NULL => refs'[d] = refs[d] + One(o, d)
    BY <2>2, <2>3, <2>5 DEF Adjust, One, TypeOK
  <2>7. \A u \in Threads : doing'[u] = k /\ made'[u] # NULL => refs'[made'[u]] = 1
    <3> TAKE u \in Threads
    <3> HAVE doing'[u] = k /\ made'[u] # NULL
    <3>1. u # t /\ doing[u] = k /\ made[u] # NULL /\ made[u] \in Objects /\ pc[u] \in Making
      BY <2>2, <2>3 DEF TypeOK, Locals, Making
    <3>2. made[u] \in ObjectsOf(k) /\ state[k] # Initialized
      BY <2>1, <3>1, NotThereYet DEF KindsKept, KindOf
    <3>3. made[u] # o
      BY <2>3, <3>1, <3>2 DEF KindOf, ObjectsOf
    <3>4. refs[made[u]] = 1
      BY <2>1, <3>1 DEF Counted
    <3> QED  BY <2>2, <2>3, <3>1, <3>3, <3>4 DEF Adjust, TypeOK
  <2>8. /\ \A u \in Threads \ {t} : hold'[u] = hold[u] /\ context'[u] = context[u]
        /\ hold'[t] = NULL /\ context'[t] = o
    BY <2>2, <2>3 DEF TypeOK
  <2>9. NULL \notin ObjectsOf(k)
    BY ThreadsAssumption DEF ObjectsOf, Objects
  <2>10. context'[t] \in ObjectsOf(k) => context'[t] = d
    BY <2>3, <2>4, <2>8, <2>9 DEF KindOf, ObjectsOf
  <2>11. d # NULL =>
           refs'[d] = refs[d] - One(hold[t], d) + One(hold'[t], d) - One(context[t], d) + One(context'[t], d)
    BY <2>3, <2>5, <2>6, <2>8 DEF One
  <2> QED  BY <2>1, <2>2, <2>7, <2>8, <2>9, <2>10, <2>11, CountedAfter
<1> QED  BY <1>1, <1>2, <1>3, <1>4, <1>5, <1>6

LEMMA DropStep ==
  ASSUME IndInv, NEW t \in Threads, Drop(t)
  PROVE  IndInv'
<1> USE DEF IndInv, Kinds
<1>1. TypeOK'
  BY DEF TypeOK, Objects, Labels, Making, Reading, Adjust, build, shared, locals, past, Drop
<1>2. KindsKept'
  BY DEF TypeOK, KindsKept, KindOf, ObjectsOf, Locals, build, shared, locals, past, Drop
<1>3. Locals'
  BY DEF TypeOK, Locals, Words, Making, Reading, Initialized, build, shared, locals, past, Drop
<1>4. Words'
  BY DEF TypeOK, Locals, Words, Lone, Initialized, build, shared, locals, past, Drop
<1>5. ASSUME NEW k \in Kinds, Lone(k)' PROVE Settled(k)'
  BY <1>5 DEF TypeOK, Lone, Locals, Words, Settled, Made, Closed, Agreed, Known, MissedIt,
              Making, Reading, Initialized, build, shared, locals, past, Drop
<1>6. ASSUME NEW k \in Kinds, Lone(k)' PROVE Counted(k)'
  <2>1. Lone(k)
    BY <1>6, Stays DEF Next, Step
  <2> DEFINE o == hold[t]  d == default[k]
  <2>2. /\ pc[t] = "idle" /\ default' = default /\ made' = made /\ context' = context /\ doing' = doing
        /\ hold' = [hold EXCEPT ![t] = NULL] /\ refs' = Adjust(refs, o, -1) /\ o \in Objects
    BY DEF Drop, shared, locals, TypeOK
  <2>3. NULL \notin ObjectsOf(k)
    BY ThreadsAssumption DEF ObjectsOf, Objects
  <2>4. ASSUME d # NULL
        PROVE  d \in Objects /\ refs[d] \in Int /\ refs[d] > 0
    <3>1. Owners(hold, d) \in Nat /\ Owners(context, d) \in Nat
      BY OwnersNat
    <3> QED  BY <2>1, <2>4, <3>1 DEF Counted, TypeOK
  <2>5. d # NULL => refs'[d] = refs[d] - One(o, d)
    BY <2>2, <2>4 DEF Adjust, One, TypeOK
  <2>6. \A u \in Threads : doing'[u] = k /\ made'[u] # NULL => refs'[made'[u]] = 1
    <3> TAKE u \in Threads
    <3> HAVE doing'[u] = k /\ made'[u] # NULL
    <3>1. doing[u] = k /\ made[u] # NULL /\ made[u] \in Objects /\ pc[u] \in Making
      BY <2>2 DEF TypeOK, Locals, Making
    <3>2. made[u] \in ObjectsOf(k) /\ d = NULL
      BY <2>1, <3>1, NotThereYet DEF KindsKept, KindOf
    <3>3. made[u] # o
      BY <2>1, <3>1, <3>2 DEF Counted
    <3>4. refs[made[u]] = 1
      BY <2>1, <3>1 DEF Counted
    <3> QED  BY <2>2, <3>1, <3>3, <3>4 DEF Adjust, TypeOK
  <2>7. /\ \A u \in Threads \ {t} : hold'[u] = hold[u] /\ context'[u] = context[u]
        /\ hold'[t] = NULL /\ context'[t] = context[t]
    BY <2>2 DEF TypeOK
  <2>8. context'[t] \in ObjectsOf(k) => context'[t] = d
    BY <2>1, <2>7 DEF Counted
  <2>9. d # NULL =>
          refs'[d] = refs[d] - One(o, d) + One(hold'[t], d) - One(context[t], d) + One(context'[t], d)
    BY <2>4, <2>5, <2>7 DEF One
  <2> QED  BY <2>1, <2>2, <2>3, <2>6, <2>7, <2>8, <2>9, CountedAfter
<1> QED  BY <1>1, <1>2, <1>3, <1>4, <1>5, <1>6

LEMMA NextStep == IndInv /\ [Next]_vars => IndInv'
<1> SUFFICES ASSUME IndInv, [Next]_vars PROVE IndInv'
  OBVIOUS
<1>1. CASE Next
  <2>1. PICK t \in Threads : Step(t) \/ Drop(t) \/ \E k \in Kinds : Call(t, k)
    BY <1>1 DEF Next
  <2> QED  BY <2>1, CallStep, ExchangeStep, EarlyErrorStep, EarlyDefaultStep, SpinAgainStep,
              SpinEndsStep, CreateStep, CreateFailsStep,
              CreateThrowsStep, ReleaseOldStep, SetDefaultStep, StoreErrorStep, StoreStateStep,
              FenceStep, ReadErrorStep, CopyDefaultStep, ReturnStep, ReturnToQueueStep, DropStep
           DEF Step
<1>2. CASE UNCHANGED vars
  <2> USE <1>2 DEF IndInv, vars, build, shared, locals, past
  <2>1. TypeOK'
    BY DEF TypeOK
  <2>2. KindsKept' /\ Locals' /\ Words' /\ \A k \in Kinds : Lone(k)' => Lone(k)
    BY DEF KindsKept, Locals, Words, Lone
  <2>3. ASSUME NEW k \in Kinds, Settled(k) PROVE Settled(k)'
    BY <2>3 DEF Settled, Made, Closed, Agreed, Known, MissedIt
  <2>4. ASSUME NEW k \in Kinds, Counted(k) PROVE Counted(k)'
    BY <2>4 DEF Counted, Owners
  <2> QED  BY <2>1, <2>2, <2>3, <2>4
<1> QED  BY <1>1, <1>2

LEMMA InitIndInv == Init => IndInv
<1> SUFFICES ASSUME Init PROVE IndInv
  OBVIOUS
<1> USE DEF Init, Kinds
<1>1. TypeOK
  <2>1. /\ state \in [Kinds -> Int] /\ \A k \in Kinds : first[k] = <<>>
        /\ DOMAIN first = Kinds
    BY DEF NotInitialized
  <2>2. pc \in [Threads -> Labels] /\ doing \in [Threads -> Kinds]
    BY DEF Labels
  <2>6. atomic \in BOOLEAN /\ throws \in BOOLEAN /\ ordered \in BOOLEAN /\ thrown \in BOOLEAN
    OBVIOUS
  <2>3. /\ default \in [Kinds -> Objects \cup {NULL}] /\ error \in [Kinds -> {"none", "failed"}]
        /\ refs \in [Objects -> Int] /\ inits \in [Kinds -> SUBSET Threads]
    OBVIOUS
  <2>4. /\ nested \in [Threads -> BOOLEAN] /\ made \in [Threads -> Objects \cup {NULL}]
        /\ context \in [Threads -> Objects \cup {NULL}] /\ told \in [Threads -> {"none", "failed"}]
        /\ got \in [Threads -> Objects \cup {NULL}] /\ hold \in [Threads -> Objects \cup {NULL}]
    OBVIOUS
  <2>5. /\ stored \in [Threads -> SUBSET {"error", "state"}]
        /\ early \in [Threads -> SUBSET {"error", "default"}]
    OBVIOUS
  <2> QED  BY <2>1, <2>2, <2>3, <2>4, <2>5, <2>6 DEF TypeOK
<1>2. KindsKept
  BY DEF KindsKept, KindOf
<1>3. Locals
  BY DEF Locals, Making, Reading
<1>4. Words
  BY DEF Words, Lone, NotInitialized, BeingInitialized, Initialized
<1>5. ASSUME NEW k \in Kinds PROVE Settled(k) /\ Counted(k)
  BY ThreadsAssumption DEF Settled, Made, Closed, Agreed, Known, MissedIt, Counted, ObjectsOf,
                           Objects, Making, NotInitialized, Initialized
<1> QED  BY <1>1, <1>2, <1>3, <1>4, <1>5 DEF IndInv

THEOREM Invariance == Spec => []IndInv
BY InitIndInv, NextStep, PTL DEF Spec

------------------------------------------------------------------------------
\* Where the promises below ask for a single initialising thread, there is one.
LEMMA SingleIsLone == ASSUME IndInv, NEW k \in Kinds, Single(k) PROVE Lone(k)
<1>1. CASE ~atomic
  BY <1>1 DEF IndInv, Words
<1>2. CASE Cardinality(inits[k]) <= 1
  <2>1. IsFiniteSet(inits[k])
    BY FS_Subset, ThreadsAssumption DEF IndInv, TypeOK
  <2> SUFFICES ASSUME NEW t \in inits[k], NEW u \in inits[k], t # u PROVE FALSE
    BY DEF Lone
  <2>2. Cardinality({t, u}) = 2
    <3>1. IsFiniteSet({t}) /\ Cardinality({t}) = 1
      BY FS_Singleton
    <3>2. Cardinality({t} \cup {u}) = Cardinality({t}) + 1
      BY <3>1, FS_AddElement
    <3>3. {t, u} = {t} \cup {u}
      OBVIOUS
    <3> QED  BY <3>1, <3>2, <3>3
  <2>3. Cardinality({t, u}) <= Cardinality(inits[k])
    <3>1. {t, u} \subseteq inits[k]
      OBVIOUS
    <3> QED  BY <2>1, <3>1, FS_Subset
  <2>4. Cardinality(inits[k]) \in Nat
    BY <2>1, FS_CardinalityType
  <2> QED  BY <1>2, <2>2, <2>3, <2>4
<1> QED  BY <1>1, <1>2 DEF Single

\* The object a thread has got, holds or creates its queue in has a reference
\* until the thread gives it up: cl.hpp's getDefault never hands out an object
\* that the driver has destroyed.
THEOREM HandedOutIsAlive == Spec => []HandedOutAlive
<1>1. ASSUME IndInv PROVE HandedOutAlive
  <2> SUFFICES ASSUME NEW t \in Threads, NEW k \in Kinds, Single(k),
                      NEW o \in {got[t], hold[t], context[t]}, o # NULL, o[1] = k
               PROVE  refs[o] > 0
    BY DEF HandedOutAlive
  <2>1. Lone(k) /\ Settled(k) /\ Counted(k)
    BY <1>1, SingleIsLone DEF IndInv
  <2>2. o \in ObjectsOf(k)
    BY <1>1 DEF IndInv, TypeOK, Objects, ObjectsOf
  <2>3. o = default[k]
    <3>1. CASE o = got[t]
      <4>1. doing[t] = k
        BY <1>1, <2>2, <3>1 DEF IndInv, Locals, KindsKept, KindOf, ObjectsOf
      <4> QED  BY <2>1, <3>1, <4>1 DEF Settled, Made, Closed, Agreed, Known, MissedIt
    <3>2. CASE o = hold[t] \/ o = context[t]
      BY <2>1, <2>2, <3>2 DEF Counted
    <3> QED  BY <3>1, <3>2
  <2> QED  BY <2>1, <2>3, OwnersNat DEF Counted
<1> QED  BY <1>1, Invariance, PTL

\* Where the error is seen before the state word, a caller that gets no object
\* from getDefault is told why, and only then.
THEOREM ErrorIsTold == Spec => []ErrorTold
<1>1. ASSUME IndInv PROVE ErrorTold
  <2> SUFFICES ASSUME NEW t \in Threads, pc[t] = "retain", Single(doing[t]), ordered
               PROVE  got[t] = NULL <=> told[t] = "failed"
    BY DEF ErrorTold
  <2>1. doing[t] \in Kinds /\ told[t] \in {"none", "failed"}
    BY <1>1 DEF IndInv, TypeOK
  <2>2. Settled(doing[t])
    BY <1>1, <2>1, SingleIsLone DEF IndInv
  <2> QED  BY <2>1, <2>2 DEF Settled, Made, Closed, Agreed, Known, MissedIt
<1> QED  BY <1>1, Invariance, PTL

\* Every call of getDefault returns the object that the first one returned, or
\* nothing, and that only where loads may be early and the caller has waited.
THEOREM ReturnsTheFirst == Spec => SameAsFirst
<1> DEFINE Agree(t) == LET k == doing[t]  f == first[k]
                       IN  \/ f \in {<<>>, <<got[t]>>}
                           \/ MissedIt(t)
                           \/ ~ordered /\ f = <<NULL>> /\ got[t] = default[k]
<1>1. ASSUME IndInv, NEW t \in Threads, pc[t] = "retain", Single(doing[t])
      PROVE  Agree(t)
  <2>1. doing[t] \in Kinds
    BY <1>1 DEF IndInv, TypeOK
  <2>2. Settled(doing[t])
    BY <1>1, <2>1, SingleIsLone DEF IndInv
  <2>3. got[t] = default[doing[t]] \/ MissedIt(t)
    BY <1>1, <2>2 DEF Settled, Known
  <2> QED  BY <2>2, <2>3 DEF Settled, Agreed
<1>2. IndInv /\ [Next]_vars =>
        [\A t \in Threads : pc[t] = "retain" /\ pc'[t] # "retain" /\ Single(doing[t]) =>
           Agree(t)]_vars
  BY <1>1
<1> QED  BY <1>2, Invariance, PTL DEF Spec, SameAsFirst
=============================================================================
