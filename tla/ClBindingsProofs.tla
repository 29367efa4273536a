--------------------------- MODULE ClBindingsProofs --------------------------
(***************************************************************************)
(* The C++ bindings, for any number of variables, objects, threads,        *)
(* kernels, transfers and failing calls: the wrappers account for every    *)
(* reference (ClWrapper), a kernel is launched with the arguments of the   *)
(* call that launches it (ClFunctor), and a transfer that reports success  *)
(* has transferred (ClTransfer).                                           *)
(*                                                                         *)
(* Wrappers.  Balance is what the driver counts of an object, corrected by *)
(* the failures on record.  A release lowers it by one and a retain raises *)
(* it by one whether they succeed or fail, so that each action changes it  *)
(* by exactly the change in the number of holders.                         *)
(*                                                                         *)
(* Functors.  Calls under way at the same time know of each other          *)
(* (Overlap), so that a parameter a call has been through holds its value, *)
(* or one of a call it knows of (SoFarSet).                                *)
(*                                                                         *)
(* Transfers.  How far the elements have come is a function of the step    *)
(* (RegionRead, HostFilled, RegionFilled), and so is the number of         *)
(* mappings (MappingsCounted).                                             *)
(***************************************************************************)
EXTENDS ClWrapper, ClFunctor, ClTransfer, FiniteSetTheorems, SequenceTheorems, TLAPS

Handles == Objects \cup {NULL}
Books   == [Objects -> [refs : Nat, missing : Int, lost : Nat]]

Balance(b, o)  == b[o].refs + b[o].missing - b[o].lost
OwnersIn(f, o) == Cardinality({s \in Slots : f[s] = o})
One(c)         == IF c THEN 1 ELSE 0

SettingOK == /\ kind \in {"platform", "device", "event", "other"}
             /\ throws \in BOOLEAN
             /\ newer \in [Objects -> BOOLEAN]
             /\ counted \in [Objects -> BOOLEAN]
             /\ inner \in [Objects -> {0, 1}]
             /\ \A o \in Objects : /\ kind = "platform" => ~counted[o]
                                   /\ kind = "device" /\ counted[o] => newer[o]
                                   /\ kind = "event" => counted[o]

TypeOK == /\ SettingOK
          /\ object \in [Slots -> Handles]
          /\ flag \in [Slots -> BOOLEAN]
          /\ books \in Books
          /\ raw \in [Objects -> Nat]
          /\ faults \in Nat

\* Calls(o, f) for every handle that the driver counts.
Reaching(o, f) == o \in Objects /\ counted[o] => Calls(o, f)
FlagsRight     == \A s \in Slots : Reaching(object[s], flag[s])

Accounted == \A o \in Objects : counted[o] =>
               Balance(books, o) = OwnersIn(object, o) + raw[o] + inner[o]

\* Without failures nothing is on record, apart from overwritten events.
Clean == faults = 0 => \A o \in Objects : /\ books[o].missing = 0
                                          /\ kind # "event" => books[o].lost = 0

IndInv == TypeOK /\ FlagsRight /\ Accounted /\ Clean

------------------------------------------------------------------------------
LEMMA OwnersFinite ==
  ASSUME NEW f, NEW x PROVE IsFiniteSet({s \in Slots : f[s] = x})
BY FS_Subset, WrapperAssumption

LEMMA OwnersNat == ASSUME NEW f, NEW x PROVE OwnersIn(f, x) \in Nat
BY OwnersFinite, FS_CardinalityType DEF OwnersIn

LEMMA OwnersHolds ==
  ASSUME NEW f, NEW s \in Slots, NEW x, f[s] = x PROVE OwnersIn(f, x) >= 1
<1>1. {r \in Slots : f[r] = x} # {}
  OBVIOUS
<1> QED  BY <1>1, OwnersFinite, OwnersNat, FS_EmptySet DEF OwnersIn

\* Storing a handle in one variable.
LEMMA OwnersAfter ==
  ASSUME NEW f, NEW g, NEW s \in Slots, NEW x,
         \A r \in Slots \ {s} : g[r] = f[r]
  PROVE  OwnersIn(g, x) = OwnersIn(f, x) - One(f[s] = x) + One(g[s] = x)
<1> DEFINE A == {r \in Slots : f[r] = x}
           B == {r \in Slots : g[r] = x}
           C == {r \in Slots \ {s} : f[r] = x}
<1>1. IsFiniteSet(C)
  BY FS_Subset, WrapperAssumption
<1>2. s \notin C /\ Cardinality(C) \in Nat
  BY <1>1, FS_CardinalityType
<1>3. Cardinality(C \cup {s}) = Cardinality(C) + 1
  BY <1>1, <1>2, FS_AddElement
<1>4. A = IF f[s] = x THEN C \cup {s} ELSE C
  OBVIOUS
<1>5. B = IF g[s] = x THEN C \cup {s} ELSE C
  OBVIOUS
<1>6. Cardinality(A) = Cardinality(C) + One(f[s] = x)
  BY <1>2, <1>3, <1>4 DEF One
<1>7. Cardinality(B) = Cardinality(C) + One(g[s] = x)
  <2> HIDE DEF B, C
  <2>1. CASE g[s] = x
    BY <1>2, <1>3, <1>5, <2>1 DEF One
  <2>2. CASE g[s] # x
    BY <1>2, <1>5, <2>2 DEF One
  <2> QED  BY <2>1, <2>2
<1>8. OwnersIn(f, x) = Cardinality(A) /\ OwnersIn(g, x) = Cardinality(B)
  BY DEF OwnersIn
<1> HIDE DEF A, B, C
<1> QED  BY <1>2, <1>6, <1>7, <1>8 DEF One

\* A variable that holds a handle leaves that of the others alone.
LEMMA OwnersTwo ==
  ASSUME NEW f \in [Slots -> Handles], NEW s \in Slots, NEW t \in Slots, s # t,
         NEW x \in Objects, f[t] = x
  PROVE  OwnersIn(f, x) >= 1 + One(f[s] = x)
<1> DEFINE A == {r \in Slots : f[r] = x}
<1>1. IsFiniteSet(A) /\ t \in A
  BY OwnersFinite
<1>2. CASE f[s] = x
  <2>1. s \in A /\ t \in A \ {s}
    BY <1>2
  <2>2. IsFiniteSet(A \ {s}) /\ Cardinality(A \ {s}) = Cardinality(A) - 1
    BY <1>1, <2>1, FS_RemoveElement
  <2>3. Cardinality(A \ {s}) \in Nat /\ Cardinality(A) \in Nat
    BY <1>1, <2>2, FS_CardinalityType
  <2>4. Cardinality(A \ {s}) # 0
    BY <2>1, <2>2, FS_EmptySet
  <2>5. Cardinality(A) = OwnersIn(f, x)
    BY DEF OwnersIn
  <2> HIDE DEF A
  <2>6. OwnersIn(f, x) >= 2
    BY <2>2, <2>3, <2>4, <2>5
  <2> QED  BY <1>2, <2>6 DEF One
<1>3. CASE f[s] # x
  BY <1>3, OwnersHolds DEF One
<1> QED  BY <1>2, <1>3

LEMMA DetectedReaches ==
  ASSUME SettingOK, NEW o \in Handles
  PROVE  Detected(o) \in BOOLEAN /\ Reaching(o, Detected(o))
BY WrapperAssumption DEF SettingOK, Detected, Reaching, Calls, Handles

------------------------------------------------------------------------------
LEMMA GiveBackEffect ==
  ASSUME NEW r \in [refs : Nat, missing : Int, lost : Nat], NEW ok \in BOOLEAN,
         ok => r.refs # 0
  PROVE  LET q == GiveBack(r, ok) IN
           /\ q \in [refs : Nat, missing : Int, lost : Nat]
           /\ q.refs + q.missing - q.lost = r.refs + r.missing - r.lost - 1
           /\ ok => q.missing = r.missing /\ q.lost = r.lost
BY DEF GiveBack

LEMMA TakeOneEffect ==
  ASSUME NEW r \in [refs : Nat, missing : Int, lost : Nat], NEW ok \in BOOLEAN
  PROVE  LET q == TakeOne(r, ok) IN
           /\ q \in [refs : Nat, missing : Int, lost : Nat]
           /\ q.refs + q.missing - q.lost = r.refs + r.missing - r.lost + 1
           /\ q.lost = r.lost
           /\ ok => q.missing = r.missing
BY DEF TakeOne

\* What a call to the driver can answer.
LEMMA AnswerFacts ==
  ASSUME SettingOK, NEW b \in Books, NEW o \in Handles, NEW f \in BOOLEAN,
         NEW ok \in Answers(b, o, f)
  PROVE  /\ ok \in BOOLEAN
         /\ o = NULL => ok
         /\ ok /\ Calls(o, f) /\ counted[o] => b[o].refs # 0
         /\ Faulty(b, o, ok) \in Nat
         /\ Faulty(b, o, ok) = 0 /\ ~Gone(b, o) => ok
<1>1. ok \in BOOLEAN
  BY DEF Answers
<1>2. o = NULL => ok
  BY DEF Answers, Calls
<1>3. ok /\ Calls(o, f) /\ counted[o] => b[o].refs # 0
  BY DEF Answers, Gone
<1>4. Faulty(b, o, ok) \in Nat /\ (Faulty(b, o, ok) = 0 /\ ~Gone(b, o) => ok)
  BY DEF Faulty
<1> QED  BY <1>1, <1>2, <1>3, <1>4

LEMMA ReleaseEffect ==
  ASSUME SettingOK, NEW b \in Books, NEW o \in Handles, NEW f \in BOOLEAN,
         Reaching(o, f), NEW ok \in Answers(b, o, f)
  PROVE  /\ Released(b, o, f, ok) \in Books
         /\ \A x \in Objects : counted[x] =>
              Balance(Released(b, o, f, ok), x) = Balance(b, x) - One(o = x)
         /\ \A x \in Objects \ {o} : Released(b, o, f, ok)[x] = b[x]
         /\ ok => \A x \in Objects :
              /\ Released(b, o, f, ok)[x].missing = b[x].missing
              /\ Released(b, o, f, ok)[x].lost = b[x].lost
<1>1. ok \in BOOLEAN /\ (ok /\ Calls(o, f) /\ counted[o] => b[o].refs # 0)
  BY AnswerFacts
<1>2. CASE o \in Objects /\ counted[o]
  <2>1. Calls(o, f)
    BY <1>2 DEF Reaching
  <2> DEFINE q == GiveBack(b[o], ok)
  <2>2. b[o] \in [refs : Nat, missing : Int, lost : Nat]
    BY <1>2 DEF Books
  <2>3. /\ q \in [refs : Nat, missing : Int, lost : Nat]
        /\ q.refs + q.missing - q.lost = b[o].refs + b[o].missing - b[o].lost - 1
        /\ ok => q.missing = b[o].missing /\ q.lost = b[o].lost
    BY <1>1, <1>2, <2>1, <2>2, GiveBackEffect
  <2>4. Released(b, o, f, ok) = [b EXCEPT ![o] = q]
    BY <1>2, <2>1 DEF Released
  <2> HIDE DEF q
  <2>5. Released(b, o, f, ok) \in Books
    BY <2>3, <2>4 DEF Books
  <2>6. Released(b, o, f, ok)[o] = q
    BY <1>2, <2>4 DEF Books
  <2>7. \A x \in Objects \ {o} : Released(b, o, f, ok)[x] = b[x]
    BY <2>4 DEF Books
  <2>8. Balance(Released(b, o, f, ok), o) = Balance(b, o) - 1
    BY <2>2, <2>3, <2>6 DEF Balance
  <2>9. ASSUME NEW x \in Objects
        PROVE  Balance(Released(b, o, f, ok), x) = Balance(b, x) - One(o = x)
    <3>1. CASE x = o
      BY <2>8, <3>1 DEF One
    <3>2. CASE x # o
      <4>1. Balance(b, x) \in Int
        BY DEF Balance, Books
      <4> QED  BY <2>7, <3>2, <4>1 DEF One, Balance
    <3> QED  BY <3>1, <3>2
  <2> QED  BY <2>3, <2>5, <2>6, <2>7, <2>9
<1>3. CASE ~(o \in Objects /\ counted[o])
  <2>1. o \in Objects \/ ~Calls(o, f)
    BY DEF Handles, Calls
  <2>2. Released(b, o, f, ok) = b
    BY <1>3, <2>1 DEF Released
  <2>3. \A x \in Objects : counted[x] => o # x
    BY <1>3
  <2>4. \A x \in Objects : Balance(b, x) \in Int
    BY DEF Balance, Books
  <2> QED  BY <2>2, <2>3, <2>4 DEF One
<1> QED  BY <1>2, <1>3

LEMMA RetainEffect ==
  ASSUME SettingOK, NEW b \in Books, NEW o \in Handles, NEW f \in BOOLEAN,
         Reaching(o, f), NEW ok \in BOOLEAN
  PROVE  /\ Retained(b, o, f, ok) \in Books
         /\ \A x \in Objects : counted[x] =>
              Balance(Retained(b, o, f, ok), x) = Balance(b, x) + One(o = x)
         /\ \A x \in Objects : Retained(b, o, f, ok)[x].refs >= b[x].refs
         /\ ok => \A x \in Objects :
              /\ Retained(b, o, f, ok)[x].missing = b[x].missing
              /\ Retained(b, o, f, ok)[x].lost = b[x].lost
<1>2. CASE o \in Objects /\ counted[o]
  <2>1. Calls(o, f)
    BY <1>2 DEF Reaching
  <2> DEFINE q == TakeOne(b[o], ok)
  <2>2. b[o] \in [refs : Nat, missing : Int, lost : Nat]
    BY <1>2 DEF Books
  <2>3. /\ q \in [refs : Nat, missing : Int, lost : Nat]
        /\ q.refs + q.missing - q.lost = b[o].refs + b[o].missing - b[o].lost + 1
        /\ ok => q.missing = b[o].missing /\ q.lost = b[o].lost
    BY <2>2, TakeOneEffect
  <2>4. q.refs >= b[o].refs
    BY <2>2 DEF TakeOne
  <2>5. Retained(b, o, f, ok) = [b EXCEPT ![o] = q]
    BY <1>2, <2>1 DEF Retained
  <2> HIDE DEF q
  <2>6. Retained(b, o, f, ok) \in Books
    BY <2>3, <2>5 DEF Books
  <2>7. Retained(b, o, f, ok)[o] = q
    BY <1>2, <2>5 DEF Books
  <2>8. \A x \in Objects \ {o} : Retained(b, o, f, ok)[x] = b[x]
    BY <2>5 DEF Books
  <2>9. Balance(Retained(b, o, f, ok), o) = Balance(b, o) + 1
    BY <2>2, <2>3, <2>7 DEF Balance
  <2>10. ASSUME NEW x \in Objects
         PROVE  /\ Balance(Retained(b, o, f, ok), x) = Balance(b, x) + One(o = x)
                /\ Retained(b, o, f, ok)[x].refs >= b[x].refs
    <3>1. CASE x = o
      BY <2>4, <2>7, <2>9, <3>1 DEF One
    <3>2. CASE x # o
      <4>1. Balance(b, x) \in Int /\ b[x].refs \in Nat
        BY DEF Balance, Books
      <4> QED  BY <2>8, <3>2, <4>1 DEF One, Balance
    <3> QED  BY <3>1, <3>2
  <2> QED  BY <2>3, <2>6, <2>7, <2>8, <2>10
<1>3. CASE ~(o \in Objects /\ counted[o])
  <2>1. o \in Objects \/ ~Calls(o, f)
    BY DEF Handles, Calls
  <2>2. Retained(b, o, f, ok) = b
    BY <1>3, <2>1 DEF Retained
  <2>3. \A x \in Objects : counted[x] => o # x
    BY <1>3
  <2>4. \A x \in Objects : Balance(b, x) \in Int /\ b[x].refs \in Nat
    BY DEF Balance, Books
  <2> QED  BY <2>2, <2>3, <2>4 DEF One
<1> QED  BY <1>2, <1>3

------------------------------------------------------------------------------
LEMMA RefsAtLeast ==
  ASSUME IndInv, faults = 0, NEW x \in Objects, counted[x]
  PROVE  books[x].refs >= OwnersIn(object, x) + raw[x] + inner[x]
<1>1. books[x].refs \in Nat /\ books[x].lost \in Nat /\ books[x].missing = 0
  BY DEF IndInv, TypeOK, Books, Clean
<1>2. OwnersIn(object, x) \in Nat /\ raw[x] \in Nat /\ inner[x] \in Nat
  BY OwnersNat DEF IndInv, TypeOK, SettingOK
<1>3. Balance(books, x) = OwnersIn(object, x) + raw[x] + inner[x]
  BY DEF IndInv, Accounted
<1> QED  BY <1>1, <1>2, <1>3 DEF Balance

LEMMA HeldIsLive ==
  ASSUME IndInv, faults = 0, NEW s \in Slots, object[s] \in Objects
  PROVE  ~Gone(books, object[s])
<1>1. CASE counted[object[s]]
  <2>1. books[object[s]].refs >= OwnersIn(object, object[s]) + raw[object[s]] + inner[object[s]]
    BY <1>1, RefsAtLeast
  <2>2. OwnersIn(object, object[s]) >= 1 /\ OwnersIn(object, object[s]) \in Nat
    BY OwnersHolds, OwnersNat
  <2>3. raw[object[s]] \in Nat /\ inner[object[s]] \in Nat /\ books[object[s]].refs \in Nat
    BY DEF IndInv, TypeOK, SettingOK, Books
  <2> QED  BY <2>1, <2>2, <2>3 DEF Gone
<1> QED  BY <1>1 DEF Gone

NoneOnRecord(b) == \A x \in Objects : b[x].missing = 0 /\ (kind # "event" => b[x].lost = 0)

\* A variable lets go of what it holds.
LEMMA LetGo ==
  ASSUME IndInv, NEW s \in Slots, NEW rel \in Answers(books, object[s], flag[s]),
         NEW n, n = IF object[s] = NULL THEN 0 ELSE Faulty(books, object[s], rel)
  PROVE  LET R == Released(books, object[s], flag[s], rel) IN
           /\ n \in Nat
           /\ R \in Books
           /\ \A x \in Objects : counted[x] =>
                Balance(R, x) = Balance(books, x) - One(object[s] = x)
           /\ \A x \in Objects \ {object[s]} : R[x] = books[x]
           /\ rel => \A x \in Objects : R[x].lost = books[x].lost
           /\ faults = 0 /\ n = 0 => rel /\ NoneOnRecord(R)
<1> DEFINE R == Released(books, object[s], flag[s], rel)
<1>1. /\ SettingOK /\ books \in Books /\ object[s] \in Handles /\ flag[s] \in BOOLEAN
      /\ Reaching(object[s], flag[s])
  BY DEF IndInv, TypeOK, FlagsRight
<1>2. /\ R \in Books
      /\ \A x \in Objects : counted[x] => Balance(R, x) = Balance(books, x) - One(object[s] = x)
      /\ \A x \in Objects \ {object[s]} : R[x] = books[x]
      /\ rel => \A x \in Objects : R[x].missing = books[x].missing /\ R[x].lost = books[x].lost
  BY <1>1, ReleaseEffect
<1>3. /\ object[s] = NULL => rel
      /\ Faulty(books, object[s], rel) \in Nat
      /\ Faulty(books, object[s], rel) = 0 /\ ~Gone(books, object[s]) => rel
  BY <1>1, AnswerFacts
<1>4. n \in Nat
  BY <1>3
<1>5. ASSUME faults = 0, n = 0 PROVE rel /\ NoneOnRecord(R)
  <2>1. rel
    <3>1. CASE object[s] = NULL
      BY <1>3, <3>1
    <3>2. CASE object[s] # NULL
      <4>1. ~Gone(books, object[s])
        BY <1>1, <1>5, <3>2, HeldIsLive DEF Handles
      <4> QED  BY <1>3, <1>5, <3>2, <4>1
    <3> QED  BY <3>1, <3>2
  <2>2. NoneOnRecord(books)
    BY <1>5 DEF IndInv, Clean, NoneOnRecord
  <2> HIDE DEF R
  <2> QED  BY <1>2, <2>1, <2>2 DEF NoneOnRecord
<1> QED  BY <1>2, <1>4, <1>5

\* What a step has to show.
LEMMA Preserved ==
  ASSUME IndInv, UNCHANGED setting,
         object' \in [Slots -> Handles], flag' \in [Slots -> BOOLEAN],
         books' \in Books, raw' \in [Objects -> Nat], faults' \in Nat,
         \A s \in Slots : Reaching(object'[s], flag'[s]),
         faults' = 0 => NoneOnRecord(books'),
         \A x \in Objects : counted[x] =>
           Balance(books', x) - OwnersIn(object', x) - raw'[x]
             = Balance(books, x) - OwnersIn(object, x) - raw[x]
  PROVE  IndInv'
<1>0. /\ kind' = kind /\ throws' = throws /\ newer' = newer /\ counted' = counted
      /\ inner' = inner
  BY DEF setting
<1>1. TypeOK'
  BY <1>0 DEF IndInv, TypeOK, SettingOK
<1>2. FlagsRight'
  BY <1>0 DEF FlagsRight, Reaching, Calls
<1>3. Accounted'
  <2>1. ASSUME NEW x \in Objects, counted[x]
        PROVE  Balance(books', x) = OwnersIn(object', x) + raw'[x] + inner[x]
    <3>1. /\ OwnersIn(object, x) \in Nat /\ OwnersIn(object', x) \in Nat
          /\ raw[x] \in Nat /\ raw'[x] \in Nat /\ inner[x] \in Nat
      BY OwnersNat DEF IndInv, TypeOK, SettingOK
    <3>2. Balance(books, x) \in Int /\ Balance(books', x) \in Int
      BY DEF Balance, Books, IndInv, TypeOK
    <3>3. Balance(books, x) = OwnersIn(object, x) + raw[x] + inner[x]
      BY <2>1 DEF IndInv, Accounted
    <3>4. Balance(books', x) - OwnersIn(object', x) - raw'[x]
            = Balance(books, x) - OwnersIn(object, x) - raw[x]
      BY <2>1
    <3> QED  BY <3>1, <3>2, <3>3, <3>4
  <2> QED  BY <1>0, <2>1 DEF Accounted, Balance, OwnersIn
<1>4. Clean'
  BY <1>0 DEF Clean, NoneOnRecord
<1> QED  BY <1>1, <1>2, <1>3, <1>4 DEF IndInv

LEMMA Facts ==
  ASSUME IndInv
  PROVE  /\ SettingOK /\ object \in [Slots -> Handles] /\ flag \in [Slots -> BOOLEAN]
         /\ books \in Books /\ raw \in [Objects -> Nat] /\ faults \in Nat /\ Faults \in Nat
         /\ \A s \in Slots : Reaching(object[s], flag[s])
         /\ faults = 0 => NoneOnRecord(books)
         /\ \A x \in Objects : Balance(books, x) \in Int /\ OwnersIn(object, x) \in Nat
BY OwnersNat, WrapperAssumption
   DEF IndInv, TypeOK, FlagsRight, Clean, NoneOnRecord, Balance, Books

\* A step that only fails.
LEMMA OnlyFails ==
  ASSUME IndInv, NEW n \in Nat, faults' = faults + n,
         UNCHANGED <<setting, object, flag, books, raw>>
  PROVE  IndInv'
<1>1. /\ object' \in [Slots -> Handles] /\ flag' \in [Slots -> BOOLEAN]
      /\ books' \in Books /\ raw' \in [Objects -> Nat] /\ faults' \in Nat
      /\ \A s \in Slots : Reaching(object'[s], flag'[s])
  BY Facts
<1>2. faults' = 0 => NoneOnRecord(books')
  <2>1. faults' = 0 => faults = 0
    BY Facts
  <2> QED  BY <2>1, Facts
<1> QED  BY <1>1, <1>2, Preserved

\* A variable gets a new handle, after a release whose effect is R.
LEMMA Stored ==
  ASSUME IndInv, NEW s \in Slots, NEW o \in Handles, NEW f \in BOOLEAN,
         Reaching(o, f), Holds(s, o, f)
  PROVE  /\ object' \in [Slots -> Handles] /\ flag' \in [Slots -> BOOLEAN]
         /\ \A t \in Slots : Reaching(object'[t], flag'[t])
         /\ \A x \in Objects : OwnersIn(object', x)
              = OwnersIn(object, x) - One(object[s] = x) + One(o = x)
<1>1. /\ object' = [object EXCEPT ![s] = o] /\ flag' = [flag EXCEPT ![s] = f]
      /\ object \in [Slots -> Handles] /\ flag \in [Slots -> BOOLEAN]
  BY Facts DEF Holds
<1>2. object' \in [Slots -> Handles] /\ flag' \in [Slots -> BOOLEAN]
  BY <1>1
<1>3. ASSUME NEW t \in Slots PROVE Reaching(object'[t], flag'[t])
  <2>1. CASE t = s
    BY <1>1, <2>1
  <2>2. CASE t # s
    <3>1. object'[t] = object[t] /\ flag'[t] = flag[t]
      BY <1>1, <2>2
    <3> QED  BY <3>1, Facts
  <2> QED  BY <2>1, <2>2
<1>4. \A x \in Objects : OwnersIn(object', x)
        = OwnersIn(object, x) - One(object[s] = x) + One(o = x)
  <2> SUFFICES ASSUME NEW x \in Objects
               PROVE  OwnersIn(object', x)
                        = OwnersIn(object, x) - One(object[s] = x) + One(o = x)
    OBVIOUS
  <2>1. object'[s] = o /\ \A r \in Slots \ {s} : object'[r] = object[r]
    BY <1>1
  <2> QED  BY <2>1, OwnersAfter DEF One
<1> QED  BY <1>2, <1>3, <1>4

LEMMA BornEffect ==
  ASSUME NEW b \in Books, NEW o \in Objects
  PROVE  /\ Born(b, o) \in Books
         /\ \A x \in Objects : Balance(Born(b, o), x) = Balance(b, x) + One(o = x)
         /\ \A x \in Objects : /\ Born(b, o)[x].missing = b[x].missing
                               /\ Born(b, o)[x].lost = b[x].lost
         /\ \A x \in Objects \ {o} : Born(b, o)[x] = b[x]
<1>1. b[o] \in [refs : Nat, missing : Int, lost : Nat]
  BY DEF Books
<1> DEFINE q == [b[o] EXCEPT !.refs = @ + 1]
<1>2. /\ q \in [refs : Nat, missing : Int, lost : Nat] /\ q.refs = b[o].refs + 1
      /\ q.missing = b[o].missing /\ q.lost = b[o].lost
  BY <1>1
<1>3. Born(b, o) = [b EXCEPT ![o] = q]
  BY DEF Born
<1> HIDE DEF q
<1>4. Born(b, o) \in Books /\ Born(b, o)[o] = q /\ \A x \in Objects \ {o} : Born(b, o)[x] = b[x]
  BY <1>2, <1>3 DEF Books
<1>5. ASSUME NEW x \in Objects
      PROVE  /\ Balance(Born(b, o), x) = Balance(b, x) + One(o = x)
             /\ Born(b, o)[x].missing = b[x].missing /\ Born(b, o)[x].lost = b[x].lost
  <2>1. CASE x = o
    BY <1>1, <1>2, <1>4, <2>1 DEF One, Balance
  <2>2. CASE x # o
    <3>1. b[x].refs \in Nat /\ b[x].missing \in Int /\ b[x].lost \in Nat
      BY DEF Books
    <3> QED  BY <1>4, <2>2, <3>1 DEF One, Balance
  <2> QED  BY <2>1, <2>2
<1> QED  BY <1>4, <1>5

LEMMA TakeRawStep == ASSUME IndInv, NEW o \in Objects, TakeRaw(o) PROVE IndInv'
<1>1. /\ UNCHANGED setting /\ object' = object /\ flag' = flag /\ faults' = faults
      /\ raw' = [raw EXCEPT ![o] = @ + 1]
      /\ books' = IF counted[o] THEN Born(books, o) ELSE books
  BY DEF TakeRaw
<1>2. /\ books \in Books /\ raw \in [Objects -> Nat]
      /\ \A x \in Objects : Balance(books, x) \in Int /\ OwnersIn(object, x) \in Nat
  BY Facts
<1>3. /\ Born(books, o) \in Books
      /\ \A x \in Objects : Balance(Born(books, o), x) = Balance(books, x) + One(o = x)
      /\ \A x \in Objects : /\ Born(books, o)[x].missing = books[x].missing
                            /\ Born(books, o)[x].lost = books[x].lost
  BY <1>2, BornEffect DEF One
<1>4. books' \in Books /\ raw' \in [Objects -> Nat]
  BY <1>1, <1>2, <1>3
<1>5. faults' = 0 => NoneOnRecord(books')
  BY <1>1, <1>3, Facts DEF NoneOnRecord
<1>6. ASSUME NEW x \in Objects, counted[x]
      PROVE  Balance(books', x) - OwnersIn(object', x) - raw'[x]
               = Balance(books, x) - OwnersIn(object, x) - raw[x]
  <2>1. raw'[x] = raw[x] + One(o = x) /\ raw[x] \in Nat
    BY <1>1, <1>2 DEF One
  <2>2. Balance(books', x) = Balance(books, x) + One(o = x)
    BY <1>1, <1>2, <1>3, <1>6 DEF One
  <2>3. OwnersIn(object', x) = OwnersIn(object, x)
    BY <1>1
  <2> QED  BY <1>2, <2>1, <2>2, <2>3 DEF One
<1> QED  BY <1>1, <1>4, <1>5, <1>6, Facts, Preserved

LEMMA DropRawStep == ASSUME IndInv, NEW o \in Objects, DropRaw(o) PROVE IndInv'
<1> DEFINE q == [books[o] EXCEPT !.refs = @ - 1]
<1>1. /\ UNCHANGED setting /\ object' = object /\ flag' = flag /\ faults' = faults
      /\ raw[o] > 0 /\ ~Gone(books, o)
      /\ raw' = [raw EXCEPT ![o] = @ - 1]
      /\ books' = IF counted[o] THEN [books EXCEPT ![o] = q] ELSE books
  BY DEF DropRaw
<1>2. /\ books \in Books /\ raw \in [Objects -> Nat]
      /\ books[o] \in [refs : Nat, missing : Int, lost : Nat]
      /\ \A x \in Objects : Balance(books, x) \in Int /\ OwnersIn(object, x) \in Nat
  BY Facts DEF Books
<1>3. counted[o] => /\ q \in [refs : Nat, missing : Int, lost : Nat]
                    /\ q.refs = books[o].refs - 1
                    /\ q.missing = books[o].missing /\ q.lost = books[o].lost
  BY <1>1, <1>2 DEF Gone
<1> HIDE DEF q
<1>4. books' \in Books
  BY <1>1, <1>2, <1>3 DEF Books
<1>5. raw' \in [Objects -> Nat]
  BY <1>1, <1>2
<1>6. ASSUME NEW x \in Objects
      PROVE  /\ books'[x].missing = books[x].missing /\ books'[x].lost = books[x].lost
             /\ counted[x] => Balance(books', x) = Balance(books, x) - One(o = x)
  <2>1. CASE x # o \/ ~counted[o]
    <3>1. books'[x] = books[x]
      BY <1>1, <1>2, <2>1 DEF Books
    <3>2. counted[x] => x # o
      BY <2>1
    <3> QED  BY <1>2, <3>1, <3>2 DEF Balance, One
  <2>2. CASE x = o /\ counted[o]
    <3>1. books'[x] = q
      BY <1>1, <1>2, <2>2 DEF Books
    <3> QED  BY <1>2, <1>3, <2>2, <3>1 DEF Balance, One
  <2> QED  BY <2>1, <2>2
<1>7. faults' = 0 => NoneOnRecord(books')
  BY <1>1, <1>6, Facts DEF NoneOnRecord
<1>8. ASSUME NEW x \in Objects, counted[x]
      PROVE  Balance(books', x) - OwnersIn(object', x) - raw'[x]
               = Balance(books, x) - OwnersIn(object, x) - raw[x]
  <2>1. raw'[x] = raw[x] - One(o = x) /\ raw[x] \in Nat
    BY <1>1, <1>2 DEF One
  <2>2. Balance(books', x) = Balance(books, x) - One(o = x)
    BY <1>6, <1>8 DEF One
  <2>3. OwnersIn(object', x) = OwnersIn(object, x)
    BY <1>1
  <2> QED  BY <1>2, <2>1, <2>2, <2>3 DEF One
<1> QED  BY <1>1, <1>4, <1>5, <1>7, <1>8, Facts, Preserved

\* One variable exchanges its handle, with its release and the retain of the
\* new handle, neither of which need have happened.
LEMMA Exchange ==
  ASSUME IndInv, UNCHANGED setting,
         NEW s \in Slots, NEW o \in Handles, NEW f \in BOOLEAN, Reaching(o, f),
         Holds(s, o, f), books' \in Books, raw' \in [Objects -> Nat], faults' \in Nat,
         faults' = 0 => NoneOnRecord(books'),
         \A x \in Objects : counted[x] =>
           Balance(books', x) - raw'[x]
             = Balance(books, x) - raw[x] - One(object[s] = x) + One(o = x)
  PROVE  IndInv'
<1>1. /\ object' \in [Slots -> Handles] /\ flag' \in [Slots -> BOOLEAN]
      /\ \A t \in Slots : Reaching(object'[t], flag'[t])
      /\ \A x \in Objects : OwnersIn(object', x)
           = OwnersIn(object, x) - One(object[s] = x) + One(o = x)
  BY Stored DEF One
<1>2. ASSUME NEW x \in Objects, counted[x]
      PROVE  Balance(books', x) - OwnersIn(object', x) - raw'[x]
               = Balance(books, x) - OwnersIn(object, x) - raw[x]
  <2>1. /\ Balance(books, x) \in Int /\ OwnersIn(object, x) \in Nat /\ raw[x] \in Nat
        /\ Balance(books', x) \in Int /\ raw'[x] \in Nat
    BY Facts DEF Balance, Books
  <2>2. Balance(books', x) - raw'[x]
          = Balance(books, x) - raw[x] - One(object[s] = x) + One(o = x)
    BY <1>2 DEF One
  <2>3. OwnersIn(object', x) = OwnersIn(object, x) - One(object[s] = x) + One(o = x)
    BY <1>1 DEF One
  <2> QED  BY <2>1, <2>2, <2>3 DEF One
<1> QED  BY <1>1, <1>2, Preserved

LEMMA CopyConstructStep ==
  ASSUME IndInv, NEW s \in Slots, NEW t \in Slots, CopyConstruct(s, t) PROVE IndInv'
<1> DEFINE o == object[t]
           f == Detected(o)
<1>1. PICK ok \in Answers(books, o, f) :
        /\ Counts(Faulty(books, o, ok))
        /\ IF throws /\ ~ok THEN UNCHANGED <<object, flag, books>>
           ELSE Holds(s, o, f) /\ books' = Retained(books, o, f, ok)
  BY DEF CopyConstruct
<1>2. object[s] = NULL /\ o \in Objects /\ UNCHANGED <<setting, raw>>
  BY Facts DEF CopyConstruct, Handles
<1>3. /\ o \in Handles /\ f \in BOOLEAN /\ Reaching(o, f)
      /\ SettingOK /\ books \in Books /\ faults \in Nat /\ raw \in [Objects -> Nat]
  BY <1>2, Facts, DetectedReaches DEF Handles
<1> HIDE DEF f
<1>4. /\ ok \in BOOLEAN /\ Faulty(books, o, ok) \in Nat
      /\ Faulty(books, o, ok) = 0 /\ ~Gone(books, o) => ok
  BY <1>3, AnswerFacts
<1>5. faults' = faults + Faulty(books, o, ok)
  BY <1>1 DEF Counts
<1>6. CASE throws /\ ~ok
  BY <1>1, <1>2, <1>4, <1>5, <1>6, OnlyFails
<1>7. CASE ~(throws /\ ~ok)
  <2>1. Holds(s, o, f) /\ books' = Retained(books, o, f, ok)
    BY <1>1, <1>7
  <2>2. /\ books' \in Books
        /\ \A x \in Objects : counted[x] => Balance(books', x) = Balance(books, x) + One(o = x)
        /\ ok => \A x \in Objects : /\ books'[x].missing = books[x].missing
                                    /\ books'[x].lost = books[x].lost
    BY <1>3, <1>4, <2>1, RetainEffect DEF One
  <2>3. faults' \in Nat /\ (faults' = 0 => faults = 0 /\ Faulty(books, o, ok) = 0)
    BY <1>3, <1>4, <1>5
  <2>4. faults' = 0 => NoneOnRecord(books')
    <3>1. faults' = 0 => ok
      BY <1>2, <1>4, <2>3, HeldIsLive
    <3> QED  BY <2>2, <2>3, <3>1, Facts DEF NoneOnRecord
  <2>5. ASSUME NEW x \in Objects, counted[x]
        PROVE  Balance(books', x) - raw'[x]
                 = Balance(books, x) - raw[x] - One(object[s] = x) + One(o = x)
    <3>1. object[s] # x /\ raw'[x] = raw[x] /\ raw[x] \in Nat
      BY <1>2, <1>3, WrapperAssumption
    <3>2. Balance(books', x) = Balance(books, x) + One(o = x) /\ Balance(books, x) \in Int
      BY <2>2, <2>5, Facts DEF One
    <3> QED  BY <3>1, <3>2 DEF One
  <2>6. UNCHANGED setting /\ raw' \in [Objects -> Nat]
    BY <1>2, <1>3
  <2> HIDE DEF o
  <2>7. o \in Handles
    BY <1>3
  <2> QED  BY <1>3, <2>1, <2>2, <2>3, <2>4, <2>5, <2>6, <2>7, Exchange DEF One
<1> QED  BY <1>6, <1>7

\* A release, then the new handle and its retain; live says that the object
\* of the new handle is there while nothing has failed.
LEMMA ReleaseThenRetain ==
  ASSUME IndInv, UNCHANGED <<setting, raw>>,
         NEW s \in Slots, NEW o \in Handles, NEW f \in BOOLEAN, Reaching(o, f),
         Holds(s, o, f),
         NEW rel \in Answers(books, object[s], flag[s]),
         NEW b, b = Released(books, object[s], flag[s], rel),
         NEW n, n = IF object[s] = NULL THEN 0 ELSE Faulty(books, object[s], rel),
         NEW ret \in Answers(b, o, f),
         books' = Retained(b, o, f, ret),
         faults' = faults + (n + IF o = NULL THEN 0 ELSE Faulty(b, o, ret)),
         faults = 0 /\ n = 0 /\ o # NULL => ~Gone(b, o)
  PROVE  IndInv'
<1> DEFINE m == IF o = NULL THEN 0 ELSE Faulty(b, o, ret)
<1>1. /\ n \in Nat /\ b \in Books
      /\ \A x \in Objects : counted[x] => Balance(b, x) = Balance(books, x) - One(object[s] = x)
      /\ faults = 0 /\ n = 0 => rel /\ NoneOnRecord(b)
  BY LetGo DEF One
<1>2. /\ ret \in BOOLEAN /\ (o = NULL => ret) /\ Faulty(b, o, ret) \in Nat
      /\ Faulty(b, o, ret) = 0 /\ ~Gone(b, o) => ret
  BY <1>1, Facts, AnswerFacts
<1>3. /\ books' \in Books
      /\ \A x \in Objects : counted[x] => Balance(books', x) = Balance(b, x) + One(o = x)
      /\ ret => \A x \in Objects : /\ books'[x].missing = b[x].missing
                                   /\ books'[x].lost = b[x].lost
  BY <1>1, <1>2, Facts, RetainEffect DEF One
<1>4. m \in Nat /\ faults \in Nat /\ faults' = faults + (n + m)
  BY <1>2, Facts
<1>5. faults' \in Nat /\ (faults' = 0 => faults = 0 /\ n = 0 /\ m = 0)
  <2> HIDE DEF m
  <2> QED  BY <1>1, <1>4
<1>6. faults' = 0 => NoneOnRecord(books')
  <2>1. faults' = 0 => ret
    BY <1>2, <1>5
  <2> QED  BY <1>1, <1>3, <1>5, <2>1 DEF NoneOnRecord
<1>7. ASSUME NEW x \in Objects, counted[x]
      PROVE  Balance(books', x) - raw'[x]
               = Balance(books, x) - raw[x] - One(object[s] = x) + One(o = x)
  <2>1. raw'[x] = raw[x] /\ raw[x] \in Nat /\ Balance(books, x) \in Int
    BY Facts
  <2>2. Balance(b, x) = Balance(books, x) - One(object[s] = x)
    BY <1>1, <1>7 DEF One
  <2>3. Balance(books', x) = Balance(b, x) + One(o = x)
    BY <1>3, <1>7 DEF One
  <2> QED  BY <2>1, <2>2, <2>3 DEF One
<1>8. UNCHANGED setting /\ raw' \in [Objects -> Nat]
  BY Facts
<1> QED  BY <1>3, <1>5, <1>6, <1>7, <1>8, Exchange DEF One

\* A release, then a new handle whose reference comes from a raw handle.
LEMMA ReleaseOnly ==
  ASSUME IndInv, UNCHANGED setting, raw' \in [Objects -> Nat],
         NEW s \in Slots, NEW o \in Handles, NEW f \in BOOLEAN, Reaching(o, f),
         Holds(s, o, f),
         \A x \in Objects : raw'[x] = raw[x] - One(o = x),
         NEW rel \in Answers(books, object[s], flag[s]),
         books' = Released(books, object[s], flag[s], rel),
         faults' = faults + IF object[s] = NULL THEN 0 ELSE Faulty(books, object[s], rel)
  PROVE  IndInv'
<1> DEFINE n == IF object[s] = NULL THEN 0 ELSE Faulty(books, object[s], rel)
<1>1. /\ n \in Nat /\ books' \in Books
      /\ \A x \in Objects : counted[x] =>
           Balance(books', x) = Balance(books, x) - One(object[s] = x)
      /\ faults = 0 /\ n = 0 => rel /\ NoneOnRecord(books')
  BY LetGo DEF One
<1>2. faults' \in Nat /\ (faults' = 0 => faults = 0 /\ n = 0)
  BY <1>1, Facts
<1>3. ASSUME NEW x \in Objects, counted[x]
      PROVE  Balance(books', x) - raw'[x]
               = Balance(books, x) - raw[x] - One(object[s] = x) + One(o = x)
  <2>1. raw'[x] = raw[x] - One(o = x) /\ raw[x] \in Nat /\ Balance(books, x) \in Int
    BY Facts DEF One
  <2>2. Balance(books', x) = Balance(books, x) - One(object[s] = x)
    BY <1>1, <1>3 DEF One
  <2> QED  BY <2>1, <2>2 DEF One
<1> QED  BY <1>1, <1>2, <1>3, Exchange DEF One

------------------------------------------------------------------------------
LEMMA AssignStep ==
  ASSUME IndInv, NEW s \in Slots, NEW t \in Slots, Assign(s, t) PROVE IndInv'
<1> DEFINE p == object[s]
           o == object[t]
           f == CopiedFlag(s, t)
<1>1. s # t /\ UNCHANGED <<setting, raw>>
  BY DEF Assign, Differs
<1>2. PICK rel \in Answers(books, p, flag[s]) :
        LET b == Released(books, p, flag[s], rel)
            n == IF p = NULL THEN 0 ELSE Faulty(books, p, rel) IN
        \/ throws /\ ~rel /\ Counts(n) /\ UNCHANGED <<object, flag, books>>
        \/ /\ throws => rel
           /\ Holds(s, o, f)
           /\ \E ret \in Answers(b, o, f) :
                /\ Counts(n + IF o = NULL THEN 0 ELSE Faulty(b, o, ret))
                /\ books' = Retained(b, o, f, ret)
  BY DEF Assign
<1> DEFINE b == Released(books, p, flag[s], rel)
           n == IF p = NULL THEN 0 ELSE Faulty(books, p, rel)
<1>3. /\ n \in Nat /\ b \in Books
      /\ \A x \in Objects : counted[x] => Balance(b, x) = Balance(books, x) - One(p = x)
      /\ rel => \A x \in Objects : b[x].lost = books[x].lost
      /\ faults = 0 /\ n = 0 => rel /\ NoneOnRecord(b)
  BY LetGo DEF One
<1>4. CASE throws /\ ~rel /\ Counts(n) /\ UNCHANGED <<object, flag, books>>
  <2>1. faults' = faults + n
    BY <1>4 DEF Counts
  <2> HIDE DEF n
  <2> QED  BY <1>1, <1>3, <1>4, <2>1, OnlyFails
<1>5. CASE /\ Holds(s, o, f)
           /\ \E ret \in Answers(b, o, f) :
                /\ Counts(n + IF o = NULL THEN 0 ELSE Faulty(b, o, ret))
                /\ books' = Retained(b, o, f, ret)
  <2>1. PICK ret \in Answers(b, o, f) :
          /\ faults' = faults + (n + IF o = NULL THEN 0 ELSE Faulty(b, o, ret))
          /\ books' = Retained(b, o, f, ret)
    BY <1>5 DEF Counts
  <2>2. o \in Handles /\ f \in BOOLEAN /\ Reaching(o, f)
    BY Facts DEF CopiedFlag
  <2>3. ASSUME faults = 0, n = 0, o # NULL PROVE ~Gone(b, o)
    <3>1. o \in Objects
      BY <2>2, <2>3 DEF Handles
    <3>2. CASE counted[o]
      <4>1. books[o].refs >= OwnersIn(object, o) + raw[o] + inner[o]
        BY <2>3, <3>1, <3>2, RefsAtLeast
      <4>2. /\ OwnersIn(object, o) \in Nat /\ raw[o] \in Nat /\ inner[o] \in Nat
            /\ books[o].refs \in Nat /\ books[o].missing = 0 /\ books[o].lost \in Nat
        BY <2>3, <3>1, Facts, OwnersNat DEF SettingOK, NoneOnRecord, Books
      <4>3. OwnersIn(object, o) >= 1 + One(p = o)
        BY <1>1, <3>1, Facts, OwnersTwo DEF One
      <4>4. /\ Balance(b, o) = Balance(books, o) - One(p = o)
            /\ b[o].missing = 0 /\ b[o].refs \in Nat /\ b[o].lost \in Nat
        BY <1>3, <2>3, <3>1, <3>2 DEF One, NoneOnRecord, Books
      <4>5. rel => b[o].lost = books[o].lost
        BY <1>3, <3>1
      <4>6. b[o].refs >= 1
        <5>1. b[o].lost = books[o].lost
          BY <1>3, <2>3, <4>5
        <5> HIDE DEF b, p, o
        <5> QED  BY <4>1, <4>2, <4>3, <4>4, <5>1 DEF Balance, One
      <4> QED  BY <4>6 DEF Gone
    <3> QED  BY <3>2 DEF Gone
  <2> HIDE DEF b, n, o, f
  <2>4. b = Released(books, object[s], flag[s], rel)
    BY DEF b
  <2>5. n = IF object[s] = NULL THEN 0 ELSE Faulty(books, object[s], rel)
    BY DEF n
  <2>6. rel \in Answers(books, object[s], flag[s])
    BY <1>2
  <2> QED  BY <1>1, <1>5, <2>1, <2>2, <2>3, <2>4, <2>5, <2>6, ReleaseThenRetain
<1> QED  BY <1>2, <1>4, <1>5

LEMMA GetInfoStep ==
  ASSUME IndInv, NEW s \in Slots, NEW o \in Objects, GetInfo(s, o) PROVE IndInv'
<1> DEFINE p == object[s]
           f == Detected(o)
<1>1. inner[o] = 1 /\ UNCHANGED <<setting, raw>>
  BY DEF GetInfo
<1>2. PICK rel \in Answers(books, p, flag[s]) :
        LET b == Released(books, p, flag[s], rel)
            n == IF p = NULL THEN 0 ELSE Faulty(books, p, rel) IN
        \/ throws /\ ~rel /\ Counts(n) /\ UNCHANGED <<object, flag, books>>
        \/ /\ throws => rel
           /\ Holds(s, o, f)
           /\ \E ret \in Answers(b, o, f) : /\ Counts(n + Faulty(b, o, ret))
                                            /\ books' = Retained(b, o, f, ret)
  BY DEF GetInfo
<1> DEFINE b == Released(books, p, flag[s], rel)
           n == IF p = NULL THEN 0 ELSE Faulty(books, p, rel)
<1>3. /\ n \in Nat /\ b \in Books
      /\ \A x \in Objects : counted[x] => Balance(b, x) = Balance(books, x) - One(p = x)
      /\ rel => \A x \in Objects : b[x].lost = books[x].lost
      /\ faults = 0 /\ n = 0 => rel /\ NoneOnRecord(b)
  BY LetGo DEF One
<1>4. CASE throws /\ ~rel /\ Counts(n) /\ UNCHANGED <<object, flag, books>>
  <2>1. faults' = faults + n
    BY <1>4 DEF Counts
  <2> HIDE DEF n
  <2> QED  BY <1>1, <1>3, <1>4, <2>1, OnlyFails
<1>5. CASE /\ Holds(s, o, f)
           /\ \E ret \in Answers(b, o, f) : /\ Counts(n + Faulty(b, o, ret))
                                            /\ books' = Retained(b, o, f, ret)
  <2>1. PICK ret \in Answers(b, o, f) :
          /\ faults' = faults + (n + IF o = NULL THEN 0 ELSE Faulty(b, o, ret))
          /\ books' = Retained(b, o, f, ret)
    BY <1>5, WrapperAssumption DEF Counts
  <2>2. o \in Handles /\ f \in BOOLEAN /\ Reaching(o, f)
    BY Facts, DetectedReaches DEF Handles
  <2>3. ASSUME faults = 0, n = 0, o # NULL PROVE ~Gone(b, o)
    <3>2. CASE counted[o]
      <4>1. books[o].refs >= OwnersIn(object, o) + raw[o] + inner[o]
        BY <2>3, <3>2, RefsAtLeast
      <4>2. /\ OwnersIn(object, o) \in Nat /\ raw[o] \in Nat
            /\ books[o].refs \in Nat /\ books[o].missing = 0 /\ books[o].lost \in Nat
        BY <2>3, Facts, OwnersNat DEF NoneOnRecord, Books
      <4>3. OwnersIn(object, o) >= One(p = o)
        BY <4>2, OwnersHolds DEF One
      <4>4. /\ Balance(b, o) = Balance(books, o) - One(p = o)
            /\ b[o].missing = 0 /\ b[o].refs \in Nat /\ b[o].lost \in Nat
        BY <1>3, <2>3, <3>2 DEF One, NoneOnRecord, Books
      <4>5. rel => b[o].lost = books[o].lost
        BY <1>3
      <4>6. b[o].refs >= 1
        <5>1. b[o].lost = books[o].lost
          BY <1>3, <2>3, <4>5
        <5> HIDE DEF b, p
        <5> QED  BY <1>1, <4>1, <4>2, <4>3, <4>4, <5>1 DEF Balance, One
      <4> QED  BY <4>6 DEF Gone
    <3> QED  BY <3>2 DEF Gone
  <2> HIDE DEF b, n, f
  <2>4. b = Released(books, object[s], flag[s], rel)
    BY DEF b
  <2>5. n = IF object[s] = NULL THEN 0 ELSE Faulty(books, object[s], rel)
    BY DEF n
  <2>6. rel \in Answers(books, object[s], flag[s])
    BY <1>2
  <2> QED  BY <1>1, <1>5, <2>1, <2>2, <2>3, <2>4, <2>5, <2>6, ReleaseThenRetain
<1> QED  BY <1>2, <1>4, <1>5

\* A release that ends in a variable without handle or with a handle over.
LEMMA AssignHandleStep ==
  ASSUME IndInv, NEW s \in Slots, NEW o \in Objects, AssignHandle(s, o) PROVE IndInv'
<1> DEFINE n(rel) == IF object[s] = NULL THEN 0 ELSE Faulty(books, object[s], rel)
<1>1. PICK rel \in Answers(books, object[s], flag[s]) :
        /\ faults' = faults + n(rel)
        /\ IF throws /\ ~rel THEN UNCHANGED <<object, flag, books, raw>>
           ELSE /\ Holds(s, o, Detected(o))
                /\ raw' = [raw EXCEPT ![o] = @ - 1]
                /\ books' = Released(books, object[s], flag[s], rel)
  BY DEF AssignHandle, Counts
<1>2. UNCHANGED setting /\ raw[o] > 0
  BY DEF AssignHandle
<1>3. CASE throws /\ ~rel
  <2>1. n(rel) \in Nat
    BY LetGo
  <2> HIDE DEF n
  <2> QED  BY <1>1, <1>2, <1>3, <2>1, OnlyFails
<1>4. CASE ~(throws /\ ~rel)
  <2>1. /\ Holds(s, o, Detected(o)) /\ raw' = [raw EXCEPT ![o] = @ - 1]
        /\ books' = Released(books, object[s], flag[s], rel)
    BY <1>1, <1>4
  <2>2. raw \in [Objects -> Nat]
    BY Facts
  <2>3. raw' \in [Objects -> Nat] /\ \A x \in Objects : raw'[x] = raw[x] - One(o = x)
    BY <1>2, <2>1, <2>2 DEF One
  <2>4. o \in Handles /\ Detected(o) \in BOOLEAN /\ Reaching(o, Detected(o))
    BY Facts, DetectedReaches DEF Handles
  <2> QED  BY <1>1, <1>2, <2>1, <2>3, <2>4, ReleaseOnly DEF One
<1> QED  BY <1>3, <1>4

LEMMA NullReaches == ASSUME NEW f PROVE NULL \in Handles /\ Reaching(NULL, f)
BY WrapperAssumption DEF Handles, Reaching

LEMMA AssignNullStep == ASSUME IndInv, NEW s \in Slots, AssignNull(s) PROVE IndInv'
<1> DEFINE n(rel) == IF object[s] = NULL THEN 0 ELSE Faulty(books, object[s], rel)
<1>1. PICK rel \in Answers(books, object[s], flag[s]) :
        /\ faults' = faults + n(rel)
        /\ IF throws /\ ~rel THEN UNCHANGED <<object, flag, books>>
           ELSE Holds(s, NULL, FALSE) /\ books' = Released(books, object[s], flag[s], rel)
  BY DEF AssignNull, Counts
<1>2. UNCHANGED <<setting, raw>>
  BY DEF AssignNull
<1>3. CASE throws /\ ~rel
  <2>1. n(rel) \in Nat
    BY LetGo
  <2> HIDE DEF n
  <2> QED  BY <1>1, <1>2, <1>3, <2>1, OnlyFails
<1>4. CASE ~(throws /\ ~rel)
  <2>1. Holds(s, NULL, FALSE) /\ books' = Released(books, object[s], flag[s], rel)
    BY <1>1, <1>4
  <2>2. raw' \in [Objects -> Nat] /\ \A x \in Objects : raw'[x] = raw[x] - One(NULL = x)
    BY <1>2, Facts, WrapperAssumption DEF One
  <2> QED  BY <1>1, <1>2, <2>1, <2>2, NullReaches, ReleaseOnly DEF One
<1> QED  BY <1>3, <1>4

LEMMA DestroyStep == ASSUME IndInv, NEW s \in Slots, Destroy(s) PROVE IndInv'
<1>1. PICK rel \in Answers(books, object[s], flag[s]) :
        /\ faults' = faults + IF object[s] = NULL THEN 0 ELSE Faulty(books, object[s], rel)
        /\ Holds(s, NULL, FALSE) /\ books' = Released(books, object[s], flag[s], rel)
  BY DEF Destroy, Counts, OnDestruction
<1>2. UNCHANGED <<setting, raw>>
  BY DEF Destroy
<1>3. raw' \in [Objects -> Nat] /\ \A x \in Objects : raw'[x] = raw[x] - One(NULL = x)
  BY <1>2, Facts, WrapperAssumption DEF One
<1> QED  BY <1>1, <1>2, <1>3, NullReaches, ReleaseOnly DEF One

\* The owners after a move.
LEMMA Moved ==
  ASSUME NEW f, NEW m, NEW s \in Slots, NEW t \in Slots, s # t, NEW x \in Objects,
         m[s] = f[t], \A r \in Slots \ {s, t} : m[r] = f[r]
  PROVE  OwnersIn(m, x) = OwnersIn(f, x) - One(f[s] = x) + One(m[t] = x)
<1>1. PICK g : g[s] = f[t] /\ \A r \in Slots \ {s} : g[r] = f[r]
  <2> DEFINE h == [r \in Slots |-> IF r = s THEN f[t] ELSE f[r]]
  <2>1. h[s] = f[t] /\ \A r \in Slots \ {s} : h[r] = f[r]
    OBVIOUS
  <2> QED  BY <2>1
<1>2. g[t] = f[t]
  BY <1>1
<1>3. \A r \in Slots \ {t} : m[r] = g[r]
  BY <1>1
<1>4. OwnersIn(g, x) = OwnersIn(f, x) - One(f[s] = x) + One(g[s] = x)
  BY <1>1, OwnersAfter DEF One
<1>5. OwnersIn(m, x) = OwnersIn(g, x) - One(g[t] = x) + One(m[t] = x)
  BY ONLY <1>3, OwnersAfter DEF One
<1>6. OwnersIn(f, x) \in Nat /\ OwnersIn(g, x) \in Nat
  BY OwnersNat
<1> QED  BY <1>1, <1>2, <1>4, <1>5, <1>6 DEF One

LEMMA MoveStep ==
  ASSUME IndInv, NEW s \in Slots, NEW t \in Slots, Move(s, t) PROVE IndInv'
<1> DEFINE n(rel) == IF object[s] = NULL THEN 0 ELSE Faulty(books, object[s], rel)
<1>1. PICK rel \in Answers(books, object[s], flag[s]) :
        /\ faults' = faults + n(rel)
        /\ IF throws /\ ~rel THEN UNCHANGED <<object, flag, books>>
           ELSE /\ object' = [object EXCEPT ![s] = object[t], ![t] = NULL]
                /\ flag' = [flag EXCEPT ![s] = flag[t], ![t] = FALSE]
                /\ books' = Released(books, object[s], flag[s], rel)
  BY DEF Move, Counts
<1>2. UNCHANGED <<setting, raw>> /\ s # t
  BY DEF Move, Differs
<1>3. CASE throws /\ ~rel
  <2>1. n(rel) \in Nat
    BY LetGo
  <2> HIDE DEF n
  <2> QED  BY <1>1, <1>2, <1>3, <2>1, OnlyFails
<1>4. CASE ~(throws /\ ~rel)
  <2>1. /\ object' = [object EXCEPT ![s] = object[t], ![t] = NULL]
        /\ flag' = [flag EXCEPT ![s] = flag[t], ![t] = FALSE]
        /\ books' = Released(books, object[s], flag[s], rel)
    BY <1>1, <1>4
  <2>2. /\ n(rel) \in Nat /\ books' \in Books
        /\ \A x \in Objects : counted[x] =>
             Balance(books', x) = Balance(books, x) - One(object[s] = x)
        /\ faults = 0 /\ n(rel) = 0 => NoneOnRecord(books')
    BY <2>1, LetGo DEF One
  <2>3. faults' \in Nat /\ (faults' = 0 => NoneOnRecord(books'))
    <3> HIDE DEF n
    <3> QED  BY <1>1, <2>2, Facts
  <2>4. /\ object \in [Slots -> Handles] /\ flag \in [Slots -> BOOLEAN]
        /\ raw' \in [Objects -> Nat] /\ NULL \in Handles
    BY <1>2, Facts, NullReaches
  <2>5. object' \in [Slots -> Handles] /\ flag' \in [Slots -> BOOLEAN]
    BY <2>1, <2>4
  <2>6. ASSUME NEW r \in Slots PROVE Reaching(object'[r], flag'[r])
    <3>1. CASE r = t
      BY <1>2, <2>1, <2>4, <3>1, NullReaches
    <3>2. CASE r = s
      BY <1>2, <2>1, <2>4, <3>2, Facts
    <3>3. CASE r # s /\ r # t
      BY <2>1, <2>4, <3>3, Facts
    <3> QED  BY <3>1, <3>2, <3>3
  <2>7. ASSUME NEW x \in Objects, counted[x]
        PROVE  Balance(books', x) - OwnersIn(object', x) - raw'[x]
                 = Balance(books, x) - OwnersIn(object, x) - raw[x]
    <3>1. OwnersIn(object', x) = OwnersIn(object, x) - One(object[s] = x)
      <4>1. /\ object'[s] = object[t] /\ object'[t] = NULL
            /\ \A r \in Slots \ {s, t} : object'[r] = object[r]
        BY <1>2, <2>1, <2>4
      <4>2. OwnersIn(object', x)
              = OwnersIn(object, x) - One(object[s] = x) + One(object'[t] = x)
        BY ONLY <1>2, <4>1, Moved DEF One
      <4>3. OwnersIn(object, x) \in Nat /\ NULL # x
        BY Facts, WrapperAssumption
      <4> QED  BY <4>1, <4>2, <4>3 DEF One
    <3>2. Balance(books', x) = Balance(books, x) - One(object[s] = x)
      BY <2>2, <2>7 DEF One
    <3>3. raw'[x] = raw[x] /\ raw[x] \in Nat /\ Balance(books, x) \in Int
          /\ OwnersIn(object, x) \in Nat
      BY <1>2, Facts
    <3> QED  BY <3>1, <3>2, <3>3 DEF One
  <2>8. UNCHANGED setting
    BY <1>2
  <2> QED  BY <2>2, <2>3, <2>4, <2>5, <2>6, <2>7, <2>8, Preserved
<1> QED  BY <1>3, <1>4

LEMMA LentIsLive ==
  ASSUME IndInv, faults = 0, NEW o \in Objects, inner[o] = 1 PROVE ~Gone(books, o)
<1>1. CASE counted[o]
  <2>1. books[o].refs >= OwnersIn(object, o) + raw[o] + inner[o]
    BY <1>1, RefsAtLeast
  <2>2. OwnersIn(object, o) \in Nat /\ raw[o] \in Nat /\ books[o].refs \in Nat
    BY Facts, OwnersNat DEF Books
  <2> QED  BY <2>1, <2>2 DEF Gone
<1> QED  BY <1>1 DEF Gone

\* Two variables that held nothing get a handle each.
LEMMA TwoStored ==
  ASSUME NEW f, NEW m, NEW s \in Slots, NEW t \in Slots, s # t, NEW x \in Objects,
         f[s] = NULL, f[t] = NULL, \A r \in Slots \ {s, t} : m[r] = f[r]
  PROVE  OwnersIn(m, x) = OwnersIn(f, x) + One(m[s] = x) + One(m[t] = x)
<1>1. PICK g : g[s] = m[s] /\ g[t] = NULL /\ \A r \in Slots \ {s} : g[r] = f[r]
  <2> DEFINE h == [r \in Slots |-> IF r = s THEN m[s] ELSE f[r]]
  <2>1. h[s] = m[s] /\ h[t] = NULL /\ \A r \in Slots \ {s} : h[r] = f[r]
    OBVIOUS
  <2> QED  BY <2>1
<1>2. \A r \in Slots \ {s} : g[r] = f[r]
  BY <1>1
<1>3. \A r \in Slots \ {t} : m[r] = g[r]
  BY <1>1
<1>4. OwnersIn(g, x) = OwnersIn(f, x) - One(f[s] = x) + One(g[s] = x)
  BY ONLY <1>2, OwnersAfter DEF One
<1>5. OwnersIn(m, x) = OwnersIn(g, x) - One(g[t] = x) + One(m[t] = x)
  BY ONLY <1>3, OwnersAfter DEF One
<1>6. OwnersIn(f, x) \in Nat /\ OwnersIn(g, x) \in Nat /\ NULL # x
  BY OwnersNat, WrapperAssumption
<1> QED  BY <1>1, <1>4, <1>5, <1>6 DEF One

LEMMA GetInfoVectorStep ==
  ASSUME IndInv, NEW s \in Slots, NEW t \in Slots, NEW o \in Objects, NEW q \in Objects,
         GetInfoVector(s, t, o, q)
  PROVE  IndInv'
<1> DEFINE fo == Detected(o)
           fq == Detected(q)
<1>1. /\ s # t /\ object[s] = NULL /\ object[t] = NULL /\ inner[o] = 1 /\ inner[q] = 1
      /\ UNCHANGED <<setting, raw>>
      /\ object' = [object EXCEPT ![s] = o, ![t] = q]
      /\ flag' = [flag EXCEPT ![s] = fo, ![t] = fq]
  BY DEF GetInfoVector
<1>2. PICK one \in Answers(books, o, fo) :
        LET b == Retained(books, o, fo, one) IN
        \E two \in IF one THEN Answers(b, q, fq) ELSE {FALSE} :
          /\ Counts(IF one THEN Faulty(b, q, two) ELSE Faulty(books, o, one))
          /\ books' = Retained(b, q, fq, two)
  BY DEF GetInfoVector
<1> DEFINE b == Retained(books, o, fo, one)
<1>3. PICK two \in IF one THEN Answers(b, q, fq) ELSE {FALSE} :
        /\ faults' = faults + IF one THEN Faulty(b, q, two) ELSE Faulty(books, o, one)
        /\ books' = Retained(b, q, fq, two)
  BY <1>2 DEF Counts
<1>4. /\ SettingOK /\ books \in Books /\ o \in Handles /\ q \in Handles
      /\ fo \in BOOLEAN /\ Reaching(o, fo) /\ fq \in BOOLEAN /\ Reaching(q, fq)
  BY Facts, DetectedReaches DEF Handles
<1> HIDE DEF fo, fq
<1>5. /\ one \in BOOLEAN /\ Faulty(books, o, one) \in Nat
      /\ Faulty(books, o, one) = 0 /\ ~Gone(books, o) => one
  BY <1>4, AnswerFacts
<1>6. /\ b \in Books
      /\ \A x \in Objects : counted[x] => Balance(b, x) = Balance(books, x) + One(o = x)
      /\ \A x \in Objects : b[x].refs >= books[x].refs
      /\ one => \A x \in Objects : b[x].missing = books[x].missing /\ b[x].lost = books[x].lost
  BY <1>4, <1>5, RetainEffect DEF One
<1> HIDE DEF b
<1>7. /\ two \in BOOLEAN
      /\ one => /\ Faulty(b, q, two) \in Nat
                /\ Faulty(b, q, two) = 0 /\ ~Gone(b, q) => two
  <2>1. CASE one
    BY <1>3, <1>4, <1>6, <2>1, AnswerFacts
  <2>2. CASE ~one
    BY <1>3, <2>2
  <2> QED  BY <2>1, <2>2
<1>8. /\ books' \in Books
      /\ \A x \in Objects : counted[x] => Balance(books', x) = Balance(b, x) + One(q = x)
      /\ two => \A x \in Objects : books'[x].missing = b[x].missing /\ books'[x].lost = b[x].lost
  BY <1>3, <1>4, <1>6, <1>7, RetainEffect DEF One
<1>9. faults' \in Nat /\ (faults' = 0 => NoneOnRecord(books'))
  <2>1. faults' \in Nat
    BY <1>3, <1>5, <1>7, Facts
  <2>2. ASSUME faults' = 0 PROVE NoneOnRecord(books')
    <3>1. faults = 0 /\ (IF one THEN Faulty(b, q, two) = 0 ELSE Faulty(books, o, one) = 0)
      BY <1>3, <1>5, <1>7, <2>2, Facts
    <3>2. ~Gone(books, o) /\ ~Gone(books, q)
      BY <1>1, <3>1, LentIsLive
    <3>3. one
      BY <1>5, <3>1, <3>2
    <3>4. ~Gone(b, q)
      <4>1. b[q].refs \in Nat /\ books[q].refs \in Nat /\ b[q].refs >= books[q].refs
        BY <1>4, <1>6 DEF Books
      <4> QED  BY <3>2, <4>1 DEF Gone
    <3>5. two
      BY <1>7, <3>1, <3>3, <3>4
    <3> QED  BY <1>6, <1>8, <3>1, <3>3, <3>5, Facts DEF NoneOnRecord
  <2> QED  BY <2>1, <2>2
<1>10. /\ object \in [Slots -> Handles] /\ flag \in [Slots -> BOOLEAN]
       /\ raw' \in [Objects -> Nat] /\ UNCHANGED setting
  BY <1>1, Facts
<1>11. object' \in [Slots -> Handles] /\ flag' \in [Slots -> BOOLEAN]
  BY <1>1, <1>4, <1>10
<1>12. ASSUME NEW r \in Slots PROVE Reaching(object'[r], flag'[r])
  <2>1. CASE r = t
    BY <1>1, <1>4, <1>10, <2>1
  <2>2. CASE r = s
    BY <1>1, <1>4, <1>10, <2>2
  <2>3. CASE r # s /\ r # t
    BY <1>1, <1>10, <2>3, Facts
  <2> QED  BY <2>1, <2>2, <2>3
<1>13. ASSUME NEW x \in Objects, counted[x]
       PROVE  Balance(books', x) - OwnersIn(object', x) - raw'[x]
                = Balance(books, x) - OwnersIn(object, x) - raw[x]
  <2>1. object'[s] = o /\ object'[t] = q
    BY <1>1, <1>10
  <2>2. \A r \in Slots \ {s, t} : object'[r] = object[r]
    BY <1>1, <1>10
  <2>3. s # t /\ object[s] = NULL /\ object[t] = NULL
    BY <1>1
  <2>4. OwnersIn(object', x) = OwnersIn(object, x) + One(object'[s] = x) + One(object'[t] = x)
    BY ONLY <2>2, <2>3, TwoStored DEF One
  <2>5. Balance(b, x) = Balance(books, x) + One(o = x)
    BY <1>6, <1>13 DEF One
  <2>6. Balance(books', x) = Balance(b, x) + One(q = x)
    BY <1>8, <1>13 DEF One
  <2>7. raw'[x] = raw[x] /\ raw[x] \in Nat /\ Balance(books, x) \in Int
        /\ OwnersIn(object, x) \in Nat
    BY <1>1, Facts
  <2> QED  BY <2>1, <2>4, <2>5, <2>6, <2>7 DEF One
<1> QED  BY <1>8, <1>9, <1>10, <1>11, <1>12, <1>13, Preserved

\* A new event has no holder yet.
LEMMA FreshHasNone ==
  ASSUME IndInv, NEW o \in Objects, Fresh(o), NEW s \in Slots PROVE object[s] # o
<1>1. SUFFICES ASSUME object[s] = o PROVE FALSE
  OBVIOUS
<1>2. counted[o] /\ books[o].refs = 0 /\ books[o].missing = 0 /\ books[o].lost = 0
  BY DEF Fresh
<1>3. Balance(books, o) = OwnersIn(object, o) + raw[o] + inner[o]
  BY <1>2 DEF IndInv, Accounted
<1>4. OwnersIn(object, o) >= 1 /\ OwnersIn(object, o) \in Nat
  BY <1>1, OwnersHolds, OwnersNat
<1>5. raw[o] \in Nat /\ inner[o] \in Nat
  BY Facts DEF SettingOK
<1> QED  BY <1>2, <1>3, <1>4, <1>5 DEF Balance

LEMMA EnqueueStep ==
  ASSUME IndInv, NEW s \in Slots, NEW o \in Objects, Enqueue(s, o) PROVE IndInv'
<1> DEFINE p == object[s]
           b == Born(books, o)
           n(rel) == IF p = NULL THEN 0 ELSE Faulty(books, p, rel)
<1>1. PICK rel \in Answers(books, p, flag[s]) :
        /\ faults' = faults + n(rel)
        /\ IF throws /\ ~rel
           THEN books' = [b EXCEPT ![o].lost = @ + 1] /\ UNCHANGED <<object, flag>>
           ELSE Holds(s, o, FALSE) /\ books' = Released(b, p, flag[s], rel)
  BY DEF Enqueue, Counts
<1>2. kind = "event" /\ Fresh(o) /\ UNCHANGED <<setting, raw>>
  BY DEF Enqueue
<1>3. p # o /\ p \in Handles /\ flag[s] \in BOOLEAN /\ Reaching(p, flag[s]) /\ SettingOK
      /\ books \in Books /\ raw' \in [Objects -> Nat] /\ faults \in Nat
  BY <1>2, FreshHasNone, Facts
<1>4. /\ b \in Books
      /\ \A x \in Objects : Balance(b, x) = Balance(books, x) + One(o = x)
      /\ \A x \in Objects : b[x].missing = books[x].missing /\ b[x].lost = books[x].lost
      /\ \A x \in Objects \ {o} : b[x] = books[x]
  BY <1>3, BornEffect DEF One
<1>5. n(rel) \in Nat /\ (faults = 0 /\ n(rel) = 0 => rel)
  BY LetGo
<1>6. faults' \in Nat /\ (faults' = 0 => faults = 0 /\ rel)
  <2> HIDE DEF n
  <2> QED  BY <1>1, <1>3, <1>5
<1>7. rel \in Answers(b, p, flag[s])
  <2>1. Calls(p, flag[s]) => b[p] = books[p]
    BY <1>3, <1>4 DEF Calls, Handles
  <2> HIDE DEF b, p
  <2> QED  BY <1>1, <2>1 DEF Answers, Gone
<1> HIDE DEF b, n
<1>8. CASE throws /\ ~rel
  <2>1. books' = [b EXCEPT ![o].lost = @ + 1] /\ UNCHANGED <<object, flag>>
    BY <1>1, <1>8
  <2> DEFINE q == [b[o] EXCEPT !.lost = @ + 1]
  <2>2. b[o] \in [refs : Nat, missing : Int, lost : Nat]
    BY <1>4 DEF Books
  <2>3. /\ q \in [refs : Nat, missing : Int, lost : Nat] /\ q.refs = b[o].refs
        /\ q.missing = b[o].missing /\ q.lost = b[o].lost + 1
    BY <2>2
  <2>4. books' = [b EXCEPT ![o] = q]
    BY <2>1
  <2> HIDE DEF q
  <2>5. books' \in Books /\ books'[o] = q /\ \A x \in Objects \ {o} : books'[x] = b[x]
    BY <1>4, <2>3, <2>4 DEF Books
  <2>6. ~(faults' = 0)
    BY <1>6, <1>8
  <2>7. ASSUME NEW x \in Objects, counted[x]
        PROVE  Balance(books', x) - OwnersIn(object', x) - raw'[x]
                 = Balance(books, x) - OwnersIn(object, x) - raw[x]
    <3>1. Balance(b, x) = Balance(books, x) + One(o = x) /\ Balance(books, x) \in Int
      BY <1>4, Facts DEF One
    <3>2. Balance(books', x) = Balance(b, x) - One(o = x)
      <4>1. CASE x = o
        BY <2>2, <2>3, <2>5, <4>1 DEF Balance, One
      <4>2. CASE x # o
        BY <2>5, <3>1, <4>2 DEF Balance, One
      <4> QED  BY <4>1, <4>2
    <3>3. object' = object /\ raw'[x] = raw[x]
      BY <1>2, <2>1
    <3> QED  BY <3>1, <3>2, <3>3 DEF One
  <2>8. \A r \in Slots : Reaching(object'[r], flag'[r])
    BY <2>1, Facts
  <2>9. object' \in [Slots -> Handles] /\ flag' \in [Slots -> BOOLEAN] /\ UNCHANGED setting
    BY <1>2, <2>1, Facts
  <2> QED  BY <1>3, <1>6, <2>5, <2>6, <2>7, <2>8, <2>9, Preserved
<1>9. CASE ~(throws /\ ~rel)
  <2>1. Holds(s, o, FALSE) /\ books' = Released(b, p, flag[s], rel)
    BY <1>1, <1>9
  <2>2. /\ books' \in Books
        /\ \A x \in Objects : counted[x] => Balance(books', x) = Balance(b, x) - One(p = x)
        /\ rel => \A x \in Objects : /\ books'[x].missing = b[x].missing
                                     /\ books'[x].lost = b[x].lost
    BY <1>3, <1>4, <1>7, <2>1, ReleaseEffect DEF One
  <2>3. faults' = 0 => NoneOnRecord(books')
    BY <1>4, <1>6, <2>2, Facts DEF NoneOnRecord
  <2>4. o \in Handles
    BY DEF Handles
  <2>5. Reaching(o, FALSE) /\ UNCHANGED setting
    BY <1>2, WrapperAssumption DEF Reaching, Calls
  <2>6. ASSUME NEW x \in Objects, counted[x]
        PROVE  Balance(books', x) - raw'[x]
                 = Balance(books, x) - raw[x] - One(object[s] = x) + One(o = x)
    <3>1. Balance(b, x) = Balance(books, x) + One(o = x) /\ Balance(books, x) \in Int
      BY <1>4, Facts DEF One
    <3>2. Balance(books', x) = Balance(b, x) - One(object[s] = x)
      BY <2>2, <2>6 DEF One
    <3>3. raw'[x] = raw[x] /\ raw[x] \in Nat
      BY <1>2, Facts
    <3> QED  BY <3>1, <3>2, <3>3 DEF One
  <2> QED  BY <1>3, <1>6, <2>1, <2>2, <2>3, <2>4, <2>5, <2>6, Exchange DEF One
<1> QED  BY <1>8, <1>9

LEMMA MapBufferStep ==
  ASSUME IndInv, NEW s \in Slots, NEW o \in Objects, MapBuffer(s, o) PROVE IndInv'
<1> DEFINE p == object[s]
           b == Born(books, o)
<1>1. /\ kind = "event" /\ Fresh(o) /\ Holds(s, o, FALSE)
      /\ books' = IF p = NULL THEN b ELSE [b EXCEPT ![p] = GiveBack(@, FALSE)]
      /\ UNCHANGED <<setting, raw, faults>>
  BY DEF MapBuffer
<1>2. p # o /\ p \in Handles /\ SettingOK /\ books \in Books
      /\ raw' \in [Objects -> Nat] /\ faults' \in Nat
  BY <1>1, FreshHasNone, Facts
<1>3. /\ b \in Books
      /\ \A x \in Objects : Balance(b, x) = Balance(books, x) + One(o = x)
      /\ \A x \in Objects : b[x].missing = books[x].missing /\ b[x].lost = books[x].lost
      /\ \A x \in Objects \ {o} : b[x] = books[x]
  BY <1>2, BornEffect DEF One
<1> HIDE DEF b
<1>4. /\ books' \in Books
      /\ \A x \in Objects : /\ Balance(books', x) = Balance(b, x) - One(p = x)
                            /\ faults = 0 => books'[x].missing = b[x].missing
  <2>0. \A x \in Objects : Balance(b, x) \in Int
    BY <1>3 DEF Balance, Books
  <2>1. CASE p = NULL
    BY <1>1, <1>3, <2>0, <2>1, WrapperAssumption DEF One
  <2>2. CASE p # NULL
    <3>1. p \in Objects
      BY <1>2, <2>2 DEF Handles
    <3> DEFINE q == GiveBack(b[p], FALSE)
    <3>2. b[p] \in [refs : Nat, missing : Int, lost : Nat]
      BY <1>3, <3>1 DEF Books
    <3>3. /\ q \in [refs : Nat, missing : Int, lost : Nat]
          /\ q.refs + q.missing - q.lost = b[p].refs + b[p].missing - b[p].lost - 1
      BY <3>2, GiveBackEffect
    <3>4. faults = 0 => q.missing = b[p].missing
      <4>1. faults = 0 => ~Gone(books, p)
        BY <3>1, HeldIsLive
      <4>2. counted[p]
        BY <1>1, <1>2, <3>1 DEF SettingOK
      <4>3. faults = 0 => b[p].refs # 0
        BY <1>2, <1>3, <3>1, <4>1, <4>2 DEF Gone
      <4> QED  BY <3>2, <4>3 DEF GiveBack
    <3>5. books' = [b EXCEPT ![p] = q]
      BY <1>1, <2>2
    <3> HIDE DEF p, q
    <3>6. books' \in Books /\ books'[p] = q /\ \A x \in Objects \ {p} : books'[x] = b[x]
      BY <1>3, <3>1, <3>3, <3>5 DEF Books
    <3>7. ASSUME NEW x \in Objects
          PROVE  /\ Balance(books', x) = Balance(b, x) - One(p = x)
                 /\ faults = 0 => books'[x].missing = b[x].missing
      <4>1. CASE x = p
        BY <3>2, <3>3, <3>4, <3>6, <4>1 DEF Balance, One
      <4>2. CASE x # p
        BY <2>0, <3>6, <4>2 DEF Balance, One
      <4> QED  BY <4>1, <4>2
    <3> QED  BY <3>6, <3>7
  <2> QED  BY <2>1, <2>2
<1>5. faults' = 0 => NoneOnRecord(books')
  BY <1>1, <1>3, <1>4, Facts DEF NoneOnRecord
<1>6. o \in Handles /\ Reaching(o, FALSE) /\ UNCHANGED setting
  BY <1>1, WrapperAssumption DEF Reaching, Calls, Handles
<1>7. ASSUME NEW x \in Objects, counted[x]
      PROVE  Balance(books', x) - raw'[x]
               = Balance(books, x) - raw[x] - One(object[s] = x) + One(o = x)
  <2>1. Balance(b, x) = Balance(books, x) + One(o = x) /\ Balance(books, x) \in Int
    BY <1>3, Facts DEF One
  <2>2. Balance(books', x) = Balance(b, x) - One(object[s] = x)
    BY <1>4 DEF One
  <2>3. raw'[x] = raw[x] /\ raw[x] \in Nat
    BY <1>1, Facts
  <2> QED  BY <2>1, <2>2, <2>3 DEF One
<1> QED  BY <1>1, <1>2, <1>4, <1>5, <1>6, <1>7, Exchange DEF One

------------------------------------------------------------------------------
LEMMA InitIndInv == Init => IndInv
<1> SUFFICES ASSUME Init PROVE IndInv
  OBVIOUS
<1>1. /\ SettingOK /\ object = [s \in Slots |-> NULL] /\ flag = [s \in Slots |-> FALSE]
      /\ raw = [o \in Objects |-> 0] /\ faults = 0
      /\ books = [o \in Objects |-> [refs |-> inner[o], missing |-> 0, lost |-> 0]]
  BY DEF Init, SettingOK
<1>2. \A o \in Objects : inner[o] \in Nat
  BY <1>1 DEF SettingOK
<1>3. books \in Books
  BY <1>1, <1>2 DEF Books
<1>4. TypeOK
  BY <1>1, <1>3 DEF TypeOK, Handles
<1>5. FlagsRight
  BY <1>1, NullReaches DEF FlagsRight
<1>6. ASSUME NEW o \in Objects
      PROVE  Balance(books, o) = OwnersIn(object, o) + raw[o] + inner[o]
  <2>1. {s \in Slots : object[s] = o} = {}
    BY <1>1, WrapperAssumption
  <2>2. OwnersIn(object, o) = 0
    BY <2>1, FS_EmptySet DEF OwnersIn
  <2>3. books[o] = [refs |-> inner[o], missing |-> 0, lost |-> 0] /\ raw[o] = 0
    BY <1>1
  <2> QED  BY <1>2, <2>2, <2>3 DEF Balance
<1>7. Clean
  BY <1>1 DEF Clean
<1> QED  BY <1>4, <1>5, <1>6, <1>7 DEF IndInv, Accounted

LEMMA Step == IndInv /\ [Next]_vars => IndInv'
<1> SUFFICES ASSUME IndInv, [Next]_vars PROVE IndInv'
  OBVIOUS
<1>1. ASSUME NEW o \in Objects, TakeRaw(o) \/ DropRaw(o) PROVE IndInv'
  BY <1>1, TakeRawStep, DropRawStep
<1>2. ASSUME NEW s \in Slots, NEW t \in Slots,
             CopyConstruct(s, t) \/ Assign(s, t) \/ Move(s, t)
      PROVE  IndInv'
  BY <1>2, CopyConstructStep, AssignStep, MoveStep
<1>3. ASSUME NEW s \in Slots, AssignNull(s) \/ Destroy(s) PROVE IndInv'
  BY <1>3, AssignNullStep, DestroyStep
<1>4. ASSUME NEW s \in Slots, NEW o \in Objects,
             AssignHandle(s, o) \/ GetInfo(s, o) \/ Enqueue(s, o) \/ MapBuffer(s, o)
      PROVE  IndInv'
  BY <1>4, AssignHandleStep, GetInfoStep, EnqueueStep, MapBufferStep
<1>5. ASSUME NEW s \in Slots, NEW t \in Slots, NEW o \in Objects, NEW q \in Objects,
             GetInfoVector(s, t, o, q)
      PROVE  IndInv'
  BY <1>5, GetInfoVectorStep
<1>6. CASE UNCHANGED vars
  BY <1>6 DEF vars, setting, IndInv, TypeOK, SettingOK, FlagsRight, Reaching, Calls,
              Accounted, Balance, OwnersIn, Clean
<1> QED  BY <1>1, <1>2, <1>3, <1>4, <1>5, <1>6 DEF Next

\* The inductive invariant holds of every run.
THEOREM WrapperInvariance == Spec => []IndInv
BY InitIndInv, Step, PTL DEF Spec

\* Whatever fails, the driver's count of each object is the number of its
\* holders corrected by the failures on record (detail::Wrapper).
THEOREM EveryReferenceAccounted == Spec => []ReferencesAccounted
<1>1. IndInv => ReferencesAccounted
  <2> SUFFICES ASSUME IndInv, NEW o \in Objects, counted[o]
               PROVE  books[o].refs + books[o].missing
                        = Owners(o) + raw[o] + inner[o] + books[o].lost
    BY DEF ReferencesAccounted
  <2>1. Balance(books, o) = OwnersIn(object, o) + raw[o] + inner[o]
    BY DEF IndInv, Accounted
  <2>2. books[o].refs \in Nat /\ books[o].missing \in Int /\ books[o].lost \in Nat
    BY Facts DEF Books
  <2>3. OwnersIn(object, o) = Owners(o) /\ OwnersIn(object, o) \in Nat /\ raw[o] \in Nat
        /\ inner[o] \in Nat
    BY Facts DEF OwnersIn, Owners, SettingOK
  <2> QED  BY <2>1, <2>2, <2>3 DEF Balance
<1> QED  BY <1>1, WrapperInvariance, PTL

\* While no call failed, no variable holds an object that is gone.
THEOREM HeldHandlesAreLive == Spec => []HandlesLive
<1>1. IndInv => HandlesLive
  BY HeldIsLive, Facts DEF HandlesLive, Handles
<1> QED  BY <1>1, WrapperInvariance, PTL

\* While no call failed, an object without holders is gone.
THEOREM NothingIsLeaked == Spec => []NothingLeaks
<1>1. IndInv => NothingLeaks
  <2> SUFFICES ASSUME IndInv, faults = 0, kind # "event", NEW o \in Objects, counted[o],
                      Owners(o) + raw[o] + inner[o] = 0
               PROVE  Gone(books, o)
    BY DEF NothingLeaks
  <2>1. Balance(books, o) = OwnersIn(object, o) + raw[o] + inner[o]
    BY DEF IndInv, Accounted
  <2>2. books[o].refs \in Nat /\ books[o].missing = 0 /\ books[o].lost = 0
    BY Facts DEF Books, NoneOnRecord
  <2>3. OwnersIn(object, o) = Owners(o)
    BY DEF OwnersIn, Owners
  <2> QED  BY <2>1, <2>2, <2>3 DEF Balance, Gone
<1> QED  BY <1>1, WrapperInvariance, PTL

------------------------------------------------------------------------------
\* ClFunctor.
FunctorsTyped ==
  /\ raises \in BOOLEAN
  /\ holds \in [Callers -> Kernels]
  /\ types \in [Callers -> Arities]
  /\ params \in [Kernels -> 1 .. MaxTypes]

CallsTyped ==
  /\ stage \in [Callers -> {"idle", "setting"}]
  /\ number \in [Callers -> Nat] /\ place \in [Callers -> Nat \ {0}]
  /\ \A c \in Callers : ~Busy(c) => place[c] = 1
  /\ DOMAIN queue_ = Callers /\ DOMAIN events_ = Callers /\ DOMAIN event = Callers
  /\ DOMAIN skipped = Callers /\ DOMAIN beside = Callers

ArgumentsTyped ==
  /\ DOMAIN argument = Kernels
  /\ \A k \in Kernels : DOMAIN argument[k] = 1 .. params[k]

\* Two calls under way each know of the other.
Overlap ==
  \A c, d \in Callers : Busy(c) /\ Busy(d) /\ c # d => Call(d) \in beside[c]

\* The value v of the i-th parameter is one that the call of c may launch with.
\* s are the arguments it skipped, o the calls that overlapped it.
Set(c, i, v, s, o) ==
  \/ v = Value(c, i)
  \/ ~raises /\ i \in s
  \/ \E d \in Callers : \E n \in Nat :
       v = <<d, n, i>> /\ <<d, n>> \in o /\ holds[d] = holds[c]

\* The arguments a call has been through are set by it, or by another beside it.
SoFarSet ==
  \A c \in Callers : Busy(c) =>
    \A i \in 1 .. params[holds[c]] :
      i < place[c] => Set(c, i, argument[holds[c]][i], skipped[c], beside[c])

\* Only events of calls that enqueued are waited for.
EventsLaunched ==
  \A c \in Callers : /\ event[c] \in launched \cup {NoEvent}
                     /\ events_[c] \subseteq launched \cup {NoEvent}

FunctorInv == /\ FunctorsTyped /\ CallsTyped /\ ArgumentsTyped
              /\ Overlap /\ SoFarSet /\ EventsLaunched /\ LaunchesOwnArguments

LEMMA Prefix ==
  ASSUME NEW d, NEW n, NEW i PROVE SubSeq(<<d, n, i>>, 1, 2) = <<d, n>>
<1> DEFINE S == {d, n, i}
           t == SubSeq(<<d, n, i>>, 1, 2)
<1>1. <<d, n, i>> \in Seq(S) /\ <<d, n>> \in Seq(S)
  OBVIOUS
<1>2. 1 \in 1 .. Len(<<d, n, i>>) + 1 /\ 2 \in 1 - 1 .. Len(<<d, n, i>>)
  OBVIOUS
<1>2a. t \in Seq(S) /\ Len(t) = 2 - 1 + 1 /\ \A j \in 1 .. 2 - 1 + 1 : t[j] = <<d, n, i>>[1 + j - 1]
  BY <1>1, <1>2, SubSeqProperties
<1>3. t \in Seq(S) /\ Len(t) = 2 /\ t[1] = d /\ t[2] = n
  BY <1>2a
<1> HIDE DEF t
<1>4. t = <<d, n>>
  BY <1>1, <1>3, SeqEqual
<1> QED BY <1>4 DEF t

LEMMA Extended == ASSUME NEW d, NEW n, NEW i PROVE <<d, n>> \o <<i>> = <<d, n, i>>
<1> DEFINE S == {d, n, i}
           t == <<d, n>> \o <<i>>
<1>1. <<d, n, i>> \in Seq(S) /\ <<d, n>> \in Seq(S) /\ <<i>> \in Seq(S)
  OBVIOUS
<1>2. t \in Seq(S) /\ Len(t) = 3
   /\ t[1] = d /\ t[2] = n /\ t[3] = i
  BY <1>1
<1> HIDE DEF t
<1>4. t = <<d, n, i>>
  BY <1>1, <1>2, SeqEqual
<1> QED BY <1>4 DEF t

LEMMA PrepareStep ==
  ASSUME FunctorInv, NEW c \in Callers, Prepare(c) PROVE FunctorInv'
<1> DEFINE others == {Call(b) : b \in {b \in Callers \ {c} : Busy(b)}}
<1>1. /\ UNCHANGED functors /\ argument' = argument /\ place' = place /\ skipped' = skipped
      /\ event' = event /\ launch' = launch /\ launched' = launched
      /\ stage' = [stage EXCEPT ![c] = "setting"] /\ number' = [number EXCEPT ![c] = @ + 1]
      /\ stage[c] = "idle"
  BY DEF Prepare, history
<1>2. beside' = [d \in Callers |-> IF d = c THEN others
                    ELSE IF Busy(d) THEN beside[d] \cup {<<c, number'[c]>>} ELSE {}]
  BY DEF Prepare
<1>3. \E d \in Callers : events_' \in {[events_ EXCEPT ![c] = e] : e \in {{}, {event[d]}}}
  BY DEF Prepare
<1>4. /\ FunctorsTyped /\ CallsTyped /\ ArgumentsTyped
      /\ Overlap /\ SoFarSet /\ EventsLaunched /\ LaunchesOwnArguments
  BY DEF FunctorInv
<1>5. FunctorsTyped' /\ ArgumentsTyped'
  BY <1>1, <1>4 DEF FunctorsTyped, ArgumentsTyped, functors
<1>6. CallsTyped'
  <2>1. DOMAIN queue_' = Callers
    BY <1>4 DEF Prepare, CallsTyped
  <2>2. DOMAIN events_' = Callers
    BY <1>3, <1>4 DEF CallsTyped
  <2>3. \A d \in Callers : ~Busy(d)' => ~Busy(d)
    BY <1>1, <1>4 DEF Busy, CallsTyped
  <2>4. DOMAIN beside' = Callers
    BY <1>2
  <2> QED BY <1>1, <1>4, <2>1, <2>2, <2>3, <2>4 DEF CallsTyped
<1>7. \A d \in Callers : d # c => (Busy(d)' <=> Busy(d)) /\ number'[d] = number[d]
  BY <1>1, <1>4 DEF Busy, CallsTyped
<1>8. Overlap'
  <2> SUFFICES ASSUME NEW d \in Callers, NEW e \in Callers, Busy(d)', Busy(e)', d # e
               PROVE  <<e, number'[e]>> \in beside'[d]
    BY DEF Overlap, Call
  <2>1. CASE d = c
    BY <2>1, <1>2, <1>7 DEF Call
  <2>2. CASE e = c
    BY <2>2, <1>2, <1>7
  <2>3. CASE d # c /\ e # c
    BY <2>3, <1>2, <1>4, <1>7 DEF Overlap, Call
  <2> QED BY <2>1, <2>2, <2>3
<1>9. SoFarSet'
  <2> SUFFICES ASSUME NEW d \in Callers, Busy(d)', NEW i \in 1 .. params[holds[d]], i < place[d]
               PROVE  Set(d, i, argument[holds[d]][i], skipped[d], beside[d])'
    BY <1>1 DEF SoFarSet, functors
  <2>1. d # c
    BY <1>1, <1>4 DEF CallsTyped, Busy
  <2>2. Set(d, i, argument[holds[d]][i], skipped[d], beside[d])
    BY <2>1, <1>4, <1>7 DEF SoFarSet
  <2>3. beside[d] \subseteq beside'[d]
    BY <2>1, <1>2, <1>7
  <2> QED BY <2>1, <2>2, <2>3, <1>1, <1>7 DEF Set, Value, functors
<1>10. EventsLaunched'
  BY <1>1, <1>3, <1>4 DEF EventsLaunched, CallsTyped
<1>11. LaunchesOwnArguments'
  BY <1>1, <1>4 DEF LaunchesOwnArguments, functors
<1> QED BY <1>5, <1>6, <1>8, <1>9, <1>10, <1>11 DEF FunctorInv
LEMMA Forgets ==
  ASSUME FunctorInv, NEW c \in Callers, Forget(c), UNCHANGED functors, argument' = argument,
         number' = number
  PROVE  /\ FunctorsTyped' /\ ArgumentsTyped' /\ Overlap' /\ SoFarSet'
         /\ DOMAIN event' = Callers => CallsTyped'
         /\ \A d \in Callers : events_'[d] \subseteq launched \cup {NoEvent}
<1>1. /\ FunctorsTyped /\ CallsTyped /\ ArgumentsTyped /\ Overlap /\ SoFarSet /\ EventsLaunched
  BY DEF FunctorInv
<1>2. ~Busy(c)' /\ \A d \in Callers : Busy(d)' => d # c /\ Busy(d)
  BY <1>1 DEF Forget, Busy, CallsTyped
<1>3. \A d \in Callers : d # c => /\ place'[d] = place[d] /\ skipped'[d] = skipped[d]
                                  /\ beside'[d] = beside[d] /\ Busy(d)' = Busy(d)
  BY <1>1 DEF Forget, CallsTyped, Busy
<1>4. FunctorsTyped' /\ ArgumentsTyped'
  BY <1>1 DEF FunctorsTyped, ArgumentsTyped, functors
<1>5. Overlap'
  BY <1>1, <1>2, <1>3 DEF Overlap, Call
<1>6. SoFarSet'
  BY <1>1, <1>2, <1>3 DEF SoFarSet, Set, Value, functors
<1>7. ASSUME DOMAIN event' = Callers PROVE CallsTyped'
  <2>1. \A d \in Callers : ~Busy(d)' => place'[d] = 1
    BY <1>1, <1>3 DEF Forget, CallsTyped
  <2> QED BY <1>1, <1>7, <2>1 DEF Forget, CallsTyped
<1>8. \A d \in Callers : events_'[d] \subseteq launched \cup {NoEvent}
  BY <1>1 DEF Forget, CallsTyped, EventsLaunched
<1> QED BY <1>4, <1>5, <1>6, <1>7, <1>8

LEMMA SetArgStep ==
  ASSUME FunctorInv, NEW c \in Callers, SetArg(c) PROVE FunctorInv'
<1> DEFINE k == holds[c]
           p == place[c]
<1>1. /\ UNCHANGED functors /\ number' = number /\ event' = event
      /\ launch' = launch /\ launched' = launched /\ Busy(c)
  BY DEF SetArg, history, Busy
<1>2. /\ FunctorsTyped /\ CallsTyped /\ ArgumentsTyped
      /\ Overlap /\ SoFarSet /\ EventsLaunched /\ LaunchesOwnArguments
  BY DEF FunctorInv
<1>3. FunctorsTyped' /\ LaunchesOwnArguments'
  BY <1>1, <1>2 DEF LaunchesOwnArguments, FunctorsTyped, functors
<1>4. p \in Nat \ {0} /\ k \in Kernels
  BY <1>2 DEF CallsTyped, FunctorsTyped
<1>5. CASE Forget(c) /\ UNCHANGED argument
  BY <1>1, <1>2, <1>3, <1>5, Forgets DEF FunctorInv, EventsLaunched, CallsTyped
<1>6. ASSUME place' = [place EXCEPT ![c] = @ + 1], UNCHANGED <<stage, queue_, events_, beside>>,
             DOMAIN skipped' = Callers
      PROVE  CallsTyped' /\ Overlap' /\ EventsLaunched' /\ \A d \in Callers : Busy(d)' = Busy(d)
  <2>1. CallsTyped'
    BY <1>1, <1>2, <1>6 DEF CallsTyped, Busy
  <2>2. Overlap' /\ EventsLaunched'
    BY <1>1, <1>2, <1>6 DEF Overlap, EventsLaunched, Busy, Call
  <2> QED BY <2>1, <2>2, <1>6 DEF Busy
<1>7. CASE /\ setArg(k, p, Value(c, p)) /\ place' = [place EXCEPT ![c] = @ + 1]
           /\ UNCHANGED <<stage, queue_, events_, skipped, beside>>
  <2>1. CallsTyped' /\ Overlap' /\ EventsLaunched' /\ \A d \in Callers : Busy(d)' = Busy(d)
    BY <1>2, <1>6, <1>7 DEF CallsTyped
  <2>2. p \in 1 .. params[k] /\ argument' = [argument EXCEPT ![k][p] = Value(c, p)]
    BY <1>2, <1>4, <1>7 DEF setArg, FunctorsTyped
  <2>3. ArgumentsTyped'
    BY <1>1, <1>2, <2>2 DEF ArgumentsTyped, functors
  <2>4. SoFarSet'
    <3> SUFFICES ASSUME NEW d \in Callers, Busy(d), NEW i \in 1 .. params[holds[d]], i < place'[d]
                 PROVE  Set(d, i, argument[holds[d]][i], skipped[d], beside[d])'
      BY <2>1, <1>1 DEF SoFarSet, functors
    <3>1. argument'[k][p] = Value(c, p)
      BY <1>2, <1>4, <2>2 DEF ArgumentsTyped
    <3>2. CASE holds[d] = k /\ i = p /\ d = c
      BY <1>1, <3>1, <3>2 DEF Set, Value, functors
    <3>3. CASE holds[d] = k /\ i = p /\ d # c
      <4>1. <<c, number[c]>> \in beside[d] /\ number[c] \in Nat
        BY <1>1, <1>2, <3>3 DEF Overlap, Call, CallsTyped
      <4> QED BY <1>1, <1>7, <3>1, <3>3, <4>1 DEF Set, Value, functors
    <3>4. CASE ~(holds[d] = k /\ i = p)
      <4>1. argument'[holds[d]][i] = argument[holds[d]][i]
        BY <1>2, <2>2, <3>4 DEF ArgumentsTyped, FunctorsTyped
      <4>2. i < place[d]
        BY <1>2, <1>4, <1>7, <3>4 DEF CallsTyped
      <4>3. Set(d, i, argument[holds[d]][i], skipped[d], beside[d])
        BY <1>2, <4>2 DEF SoFarSet
      <4> QED BY <1>1, <1>7, <4>1, <4>3 DEF Set, Value, functors
    <3> QED BY <3>2, <3>3, <3>4
  <2> QED BY <1>2, <1>3, <2>1, <2>3, <2>4 DEF FunctorInv
<1>8. CASE /\ ~raises /\ skipped' = [skipped EXCEPT ![c] = @ \cup {p}]
           /\ place' = [place EXCEPT ![c] = @ + 1]
           /\ UNCHANGED <<argument, stage, queue_, events_, beside>>
  <2>1. CallsTyped' /\ Overlap' /\ EventsLaunched' /\ \A d \in Callers : Busy(d)' = Busy(d)
    BY <1>2, <1>6, <1>8 DEF CallsTyped
  <2>2. ArgumentsTyped'
    BY <1>1, <1>2, <1>8 DEF ArgumentsTyped, functors
  <2>3. SoFarSet'
    <3> SUFFICES ASSUME NEW d \in Callers, Busy(d), NEW i \in 1 .. params[holds[d]], i < place'[d]
                 PROVE  Set(d, i, argument[holds[d]][i], skipped[d], beside[d])'
      BY <2>1, <1>1 DEF SoFarSet, functors
    <3>1. CASE d = c /\ i = p
      BY <1>1, <1>2, <1>8, <3>1 DEF Set, functors, CallsTyped
    <3>2. CASE ~(d = c /\ i = p)
      <4>1. i < place[d] /\ skipped[d] \subseteq skipped'[d]
        BY <1>2, <1>4, <1>8, <3>2 DEF CallsTyped
      <4>2. Set(d, i, argument[holds[d]][i], skipped[d], beside[d])
        BY <1>2, <4>1 DEF SoFarSet
      <4> QED BY <1>1, <1>8, <4>1, <4>2 DEF Set, Value, functors
    <3> QED BY <3>1, <3>2
  <2> QED BY <1>2, <1>3, <2>1, <2>2, <2>3 DEF FunctorInv
<1> QED BY <1>5, <1>7, <1>8 DEF SetArg, ArgIndex

LEMMA EnqueueKernelStep ==
  ASSUME FunctorInv, NEW c \in Callers, EnqueueKernel(c) PROVE FunctorInv'
<1>1. /\ UNCHANGED functors /\ argument' = argument /\ number' = number /\ Forget(c)
      /\ Busy(c) /\ OnlyNullTypes(c)
  BY DEF EnqueueKernel, Busy
<1>2. /\ FunctorsTyped /\ CallsTyped /\ ArgumentsTyped
      /\ Overlap /\ SoFarSet /\ EventsLaunched /\ LaunchesOwnArguments
  BY DEF FunctorInv
<1>3. DOMAIN event' = Callers
  BY <1>2 DEF EnqueueKernel, CallsTyped
<1>4. /\ FunctorsTyped' /\ ArgumentsTyped' /\ Overlap' /\ SoFarSet' /\ CallsTyped'
      /\ \A d \in Callers : events_'[d] \subseteq launched \cup {NoEvent}
  BY <1>1, <1>3, Forgets
<1>5. CASE /\ event' = IF raises THEN event ELSE [event EXCEPT ![c] = NoEvent]
           /\ UNCHANGED history
  <2>1. event' = event \/ event' = [event EXCEPT ![c] = NoEvent]
    BY <1>5
  <2>2. EventsLaunched'
    BY <1>2, <1>4, <1>5, <2>1 DEF EventsLaunched, history, CallsTyped
  <2>3. LaunchesOwnArguments'
    BY <1>1, <1>2, <1>5 DEF LaunchesOwnArguments, history, functors
  <2> QED BY <1>4, <2>2, <2>3 DEF FunctorInv
<1>6. CASE /\ Accepts(c)
           /\ launch' = [call |-> Call(c), args |-> argument[holds[c]], after |-> events_[c],
                         skipped |-> skipped[c], beside |-> beside[c]]
           /\ launched' = launched \cup {Call(c)}
           /\ event' = [event EXCEPT ![c] = Call(c)]
  <2>1. EventsLaunched'
    BY <1>2, <1>4, <1>6 DEF EventsLaunched, CallsTyped
  <2>2. events_[c] \subseteq launched'
    BY <1>2, <1>6 DEF EventsLaunched, Accepts
  <2>3. ASSUME NEW i \in 1 .. params[holds[c]]
        PROVE  LET v == argument[holds[c]][i]
               IN  \/ v = Call(c) \o <<i>>
                   \/ i > types[c]
                   \/ ~raises /\ i \in skipped[c]
                   \/ SubSeq(v, 1, 2) \in beside[c] /\ holds[v[1]] = holds[c]
    <3>1. CASE i <= types[c]
      <4>1. Set(c, i, argument[holds[c]][i], skipped[c], beside[c])
        BY <1>1, <1>2, <3>1 DEF SoFarSet, OnlyNullTypes, FunctorsTyped, CallsTyped, Arities
      <4>2. CASE argument[holds[c]][i] = Value(c, i)
        BY <4>2, Extended DEF Value, Call
      <4>3. ASSUME NEW d \in Callers, NEW n \in Nat, argument[holds[c]][i] = <<d, n, i>>,
                   <<d, n>> \in beside[c], holds[d] = holds[c]
            PROVE  SubSeq(argument[holds[c]][i], 1, 2) \in beside[c]
                   /\ holds[argument[holds[c]][i][1]] = holds[c]
        <5> DEFINE v == argument[holds[c]][i]
        <5>1. v = <<d, n, i>> /\ SubSeq(<<d, n, i>>, 1, 2) = <<d, n>>
          BY <4>3, Prefix
        <5>2. v[1] = d
          BY <4>3
        <5> HIDE DEF v
        <5>3. SubSeq(v, 1, 2) \in beside[c] /\ holds[v[1]] = holds[c]
          BY <4>3, <5>1, <5>2
        <5> QED BY <5>3 DEF v
      <4> QED BY <4>1, <4>2, <4>3 DEF Set
    <3>2. CASE i > types[c]
      BY <3>2
    <3> QED BY <1>2, <3>1, <3>2 DEF FunctorsTyped, Arities
  <2>4. DOMAIN launch'.args = 1 .. params[holds[c]]
    BY <1>2, <1>6 DEF ArgumentsTyped, FunctorsTyped
  <2>5. Call(c)[1] = c
    BY DEF Call
  <2>6. LaunchesOwnArguments'
    BY <1>1, <1>6, <2>2, <2>3, <2>4, <2>5 DEF LaunchesOwnArguments, functors
  <2> QED BY <1>4, <2>1, <2>6 DEF FunctorInv
<1> QED BY <1>5, <1>6 DEF EnqueueKernel

LEMMA FunctorStart == FunctorInit => FunctorInv
<1> SUFFICES ASSUME FunctorInit PROVE FunctorInv
  OBVIOUS
<1> USE DEF FunctorInit, FunctorIdle
<1>1. FunctorsTyped
  BY DEF FunctorsTyped, Holdings
<1>2. CallsTyped /\ \A c \in Callers : ~Busy(c)
  BY DEF CallsTyped, Busy
<1>3. ArgumentsTyped
  BY DEF ArgumentsTyped
<1>4. Overlap /\ SoFarSet /\ EventsLaunched
  BY <1>2 DEF Overlap, SoFarSet, EventsLaunched
<1>5. LaunchesOwnArguments
  BY DEF LaunchesOwnArguments, NoLaunch
<1> QED BY <1>1, <1>2, <1>3, <1>4, <1>5 DEF FunctorInv

\* However the calls of any number of threads interleave, whichever of their
\* functors share a cl_kernel and whichever setArg or enqueue fails, a kernel is
\* launched with the arguments of the call that launches it, but for those
\* LaunchesOwnArguments lists (KernelFunctorGlobal::operator()).
THEOREM OwnArgumentsLaunched == FunctorSpec => []LaunchesOwnArguments
<1>1. FunctorInv /\ [FunctorNext]_functorVars => FunctorInv'
  <2> SUFFICES ASSUME FunctorInv, [FunctorNext]_functorVars PROVE FunctorInv'
    OBVIOUS
  <2>1. CASE FunctorNext
    BY <2>1, PrepareStep, SetArgStep, EnqueueKernelStep DEF FunctorNext
  <2>2. CASE UNCHANGED functorVars
    <3> USE <2>2 DEF functorVars, functors, callState, history, FunctorInv
    <3>1. FunctorsTyped' /\ CallsTyped' /\ ArgumentsTyped'
      BY DEF FunctorsTyped, CallsTyped, ArgumentsTyped, Busy
    <3>2. Overlap' /\ EventsLaunched'
      BY DEF Overlap, EventsLaunched, Busy, Call
    <3>3. SoFarSet'
      BY DEF SoFarSet, Set, Value, Busy
    <3>4. LaunchesOwnArguments'
      BY DEF LaunchesOwnArguments
    <3> QED BY <3>1, <3>2, <3>3, <3>4
  <2> QED BY <2>1, <2>2
<1>2. FunctorInv => LaunchesOwnArguments
  BY DEF FunctorInv
<1> QED BY <1>1, <1>2, FunctorStart, PTL DEF FunctorSpec

------------------------------------------------------------------------------
\* ClTransfer.
Steps == {"context", "create", "queue", "map", "elements", "unmap", "wait", "returned", "threw"}

FlagsTyped ==
  /\ excepts \in BOOLEAN /\ told \in BOOLEAN /\ unheard \in BOOLEAN
  /\ contextLive \in BOOLEAN /\ bufferLive \in BOOLEAN /\ queueLive \in BOOLEAN
NumbersTyped == round \in Nat /\ mapped \in Int /\ broken \in Int

TransferTyped ==
  transfer \in Constructions \cup Copies /\ step \in Steps /\ FlagsTyped /\ NumbersTyped

\* Only between the map and the unmap is there a mapping that is still to be
\* undone, and then the buffer is there.
MappingsCounted ==
  /\ step \in {"elements", "unmap"} => mapped = broken + 1
  /\ step \notin {"elements", "unmap"} => mapped = broken

BufferThere == step \in {"elements", "unmap", "wait"} => bufferLive

\* How far the elements have come.
RegionRead == step \in {"elements", "unmap", "wait"} /\ transfer.does = "copyOut"
                => region = content
HostFilled == step \in {"unmap", "wait"} /\ transfer.does = "copyOut" => host = region
RegionFilled == step \in {"unmap", "wait"} /\ transfer.does # "copyOut" => region = round

MakesBuffer == step \in {"context", "create"} => Constructing

SuccessIsReal ==
  step = "returned" /\ told /\ ~unheard =>
    /\ bufferLive
    /\ transfer.does = "copyOut" => host = content
    /\ transfer.does # "copyOut" => content = round

TransferInv == /\ TransferTyped /\ MappingsCounted /\ BufferThere
               /\ RegionRead /\ HostFilled /\ RegionFilled /\ MakesBuffer /\ SuccessIsReal

LEMMA TransferKinds ==
  ASSUME NEW t \in Constructions \cup Copies
  PROVE  /\ t.does \in {"construct", "copyIn", "copyOut"} /\ t.wraps \in BOOLEAN
         /\ t \in Constructions <=> t.does = "construct"
BY DEF Constructions, Copies

LEMMA Begins ==
  ASSUME TransferInv, NEW t \in Constructions \cup Copies, Begin(t) PROVE TransferInv'
<1> USE DEF TransferInv, TransferTyped, Begin
<1>0. /\ transfer' = t /\ told' = FALSE /\ step' \in {"context", "queue"}
      /\ step' = "context" => t \in Constructions
      /\ step \in {"returned", "threw"} /\ round' = round + 1
  OBVIOUS
<1>1. FlagsTyped'
  BY Zenon DEF FlagsTyped
<1>2. NumbersTyped' /\ step' \in Steps
  BY <1>0 DEF NumbersTyped, Steps
<1>3. MappingsCounted'
  BY <1>0 DEF NumbersTyped, MappingsCounted
<1>4. BufferThere' /\ RegionRead' /\ HostFilled' /\ RegionFilled' /\ SuccessIsReal'
  BY <1>0 DEF BufferThere, RegionRead, HostFilled, RegionFilled, SuccessIsReal
<1>5. MakesBuffer'
  BY <1>0, TransferKinds DEF MakesBuffer, Constructing
<1> QED BY <1>0, <1>1, <1>2, <1>3, <1>4, <1>5

LEMMA ContextFound ==
  ASSUME TransferInv, FindContext PROVE TransferInv'
<1> USE DEF TransferInv, TransferTyped, FindContext
<1>0. /\ transfer' = transfer /\ step = "context" /\ step' \in {"create", "threw"}
      /\ transfer \in Constructions \cup Copies
  BY DEF FailsAt, MakesBuffer, Constructing, AfterCreate, AfterUnmap
<1>1. FlagsTyped'
  BY <1>0 DEF FlagsTyped, handles, data
<1>2. NumbersTyped' /\ step' \in Steps
  BY <1>0 DEF NumbersTyped, Steps, handles, data
<1>3. MappingsCounted'
  BY <1>0 DEF NumbersTyped, MappingsCounted, FailsAt
<1>4. BufferThere' /\ MakesBuffer'
  BY <1>0 DEF BufferThere, MakesBuffer, Constructing, handles
<1>5. RegionRead' /\ HostFilled' /\ RegionFilled'
  BY <1>0 DEF RegionRead, HostFilled, RegionFilled, handles, data
<1>6. SuccessIsReal'
  BY <1>0, TransferKinds DEF SuccessIsReal
<1> QED BY <1>0, <1>1, <1>2, <1>3, <1>4, <1>5, <1>6

LEMMA Creates ==
  ASSUME TransferInv, CreateBuffer PROVE TransferInv'
<1> USE DEF TransferInv, TransferTyped, CreateBuffer
<1>0. /\ transfer' = transfer /\ step = "create" /\ step' \in {"queue", "returned", "threw"}
      /\ transfer \in Constructions \cup Copies
  BY DEF FailsAt, MakesBuffer, Constructing, AfterCreate, AfterUnmap
<1>1. FlagsTyped'
  BY <1>0 DEF FlagsTyped, handles, data
<1>2. NumbersTyped' /\ step' \in Steps
  BY <1>0 DEF NumbersTyped, Steps, handles, data
<1>3. MappingsCounted'
  BY <1>0 DEF NumbersTyped, MappingsCounted, FailsAt
<1>4. BufferThere' /\ MakesBuffer'
  BY <1>0 DEF BufferThere, MakesBuffer, Constructing, handles
<1>5. RegionRead' /\ HostFilled' /\ RegionFilled'
  BY <1>0 DEF RegionRead, HostFilled, RegionFilled, handles, data
<1>6. SuccessIsReal'
  BY <1>0, TransferKinds DEF SuccessIsReal, MakesBuffer, Constructing, AfterCreate
<1> QED BY <1>0, <1>1, <1>2, <1>3, <1>4, <1>5, <1>6

LEMMA QueueFound ==
  ASSUME TransferInv, FindQueue PROVE TransferInv'
<1> USE DEF TransferInv, TransferTyped, FindQueue
<1>0. /\ transfer' = transfer /\ step = "queue" /\ step' \in {"map", "returned", "threw"}
      /\ transfer \in Constructions \cup Copies
  BY DEF FailsAt, MakesBuffer, Constructing, AfterCreate, AfterUnmap
<1>1. FlagsTyped'
  BY <1>0 DEF FlagsTyped, handles, data
<1>2. NumbersTyped' /\ step' \in Steps
  BY <1>0 DEF NumbersTyped, Steps, handles, data
<1>3. MappingsCounted'
  BY <1>0 DEF NumbersTyped, MappingsCounted, FailsAt
<1>4. BufferThere' /\ MakesBuffer'
  BY <1>0 DEF BufferThere, MakesBuffer, Constructing, handles
<1>5. RegionRead' /\ HostFilled' /\ RegionFilled'
  BY <1>0 DEF RegionRead, HostFilled, RegionFilled, handles, data
<1>6. SuccessIsReal'
  BY <1>0, TransferKinds DEF SuccessIsReal
<1> QED BY <1>0, <1>1, <1>2, <1>3, <1>4, <1>5, <1>6

LEMMA Maps ==
  ASSUME TransferInv, Map PROVE TransferInv'
<1> USE DEF TransferInv, TransferTyped, Map
<1>0. /\ transfer' = transfer /\ step = "map" /\ step' \in {"elements", "returned", "threw"}
      /\ transfer \in Constructions \cup Copies
  BY DEF FailsAt, MakesBuffer, Constructing, AfterCreate, AfterUnmap
<1>1. FlagsTyped'
  BY <1>0 DEF FlagsTyped, handles, data
<1>2. NumbersTyped' /\ step' \in Steps
  BY <1>0 DEF NumbersTyped, Steps, handles, data
<1>3. MappingsCounted'
  BY <1>0 DEF NumbersTyped, MappingsCounted, FailsAt
<1>4. BufferThere' /\ MakesBuffer'
  BY <1>0 DEF BufferThere, MakesBuffer, Constructing, FailsAt, handles
<1>5. RegionRead' /\ HostFilled' /\ RegionFilled'
  BY <1>0 DEF RegionRead, HostFilled, RegionFilled, FailsAt, handles, data
<1>6. SuccessIsReal'
  BY <1>0, TransferKinds DEF SuccessIsReal
<1> QED BY <1>0, <1>1, <1>2, <1>3, <1>4, <1>5, <1>6

LEMMA CopiesElements ==
  ASSUME TransferInv, CopyElements PROVE TransferInv'
<1> USE DEF TransferInv, TransferTyped, CopyElements
<1>0. /\ transfer' = transfer /\ step = "elements" /\ step' \in {"unmap", "threw"}
      /\ transfer \in Constructions \cup Copies
  BY DEF FailsAt, MakesBuffer, Constructing, AfterCreate, AfterUnmap
<1>1. FlagsTyped'
  BY <1>0 DEF FlagsTyped, handles, data
<1>2. NumbersTyped' /\ step' \in Steps
  BY <1>0 DEF NumbersTyped, Steps, handles, data
<1>3. MappingsCounted'
  BY <1>0 DEF NumbersTyped, MappingsCounted, FailsAt
<1>4. BufferThere' /\ MakesBuffer'
  BY <1>0 DEF BufferThere, MakesBuffer, Constructing, handles
<1>5. RegionRead' /\ HostFilled' /\ RegionFilled'
  BY <1>0 DEF RegionRead, HostFilled, RegionFilled, handles, data
<1>6. SuccessIsReal'
  BY <1>0, TransferKinds DEF SuccessIsReal
<1> QED BY <1>0, <1>1, <1>2, <1>3, <1>4, <1>5, <1>6

LEMMA Unmaps ==
  ASSUME TransferInv, Unmap PROVE TransferInv'
<1> USE DEF TransferInv, TransferTyped, Unmap
<1>0. /\ transfer' = transfer /\ step = "unmap" /\ step' \in {"wait", "returned", "threw"}
      /\ transfer \in Constructions \cup Copies
  BY DEF FailsAt, MakesBuffer, Constructing, AfterCreate, AfterUnmap
<1>1. FlagsTyped'
  BY <1>0 DEF FlagsTyped, handles, data
<1>2. NumbersTyped' /\ step' \in Steps
  BY <1>0 DEF NumbersTyped, Steps, handles, data
<1>3. MappingsCounted'
  BY <1>0 DEF NumbersTyped, MappingsCounted, FailsAt
<1>4. BufferThere' /\ MakesBuffer'
  BY <1>0 DEF BufferThere, MakesBuffer, Constructing, handles
<1>5. RegionRead' /\ HostFilled' /\ RegionFilled'
  BY <1>0 DEF RegionRead, HostFilled, RegionFilled, handles, data
<1>6. SuccessIsReal'
  BY <1>0, TransferKinds DEF SuccessIsReal, AfterUnmap
<1> QED BY <1>0, <1>1, <1>2, <1>3, <1>4, <1>5, <1>6

LEMMA Waits ==
  ASSUME TransferInv, WaitUnmapped PROVE TransferInv'
<1> USE DEF TransferInv, TransferTyped, WaitUnmapped
<1>0. /\ transfer' = transfer /\ step = "wait" /\ step' \in {"returned", "threw"}
      /\ transfer \in Constructions \cup Copies
  BY DEF FailsAt, MakesBuffer, Constructing, AfterCreate, AfterUnmap
<1>1. FlagsTyped'
  BY <1>0 DEF FlagsTyped, handles, data
<1>2. NumbersTyped' /\ step' \in Steps
  BY <1>0 DEF NumbersTyped, Steps, handles, data
<1>3. MappingsCounted'
  BY <1>0 DEF NumbersTyped, MappingsCounted, FailsAt
<1>4. BufferThere' /\ MakesBuffer'
  BY <1>0 DEF BufferThere, MakesBuffer, Constructing, handles
<1>5. RegionRead' /\ HostFilled' /\ RegionFilled'
  BY <1>0 DEF RegionRead, HostFilled, RegionFilled, handles, data
<1>6. SuccessIsReal'
  BY <1>0, TransferKinds DEF SuccessIsReal, BufferThere, RegionRead, HostFilled,
     RegionFilled, FailsAt, handles
<1> QED BY <1>0, <1>1, <1>2, <1>3, <1>4, <1>5, <1>6

\* After any number of transfers, whichever step of each fails, in a build
\* with exceptions or without: success reported is success, and only a failed
\* unmap or a caller's iterator leaves a mapping (cl::copy, Buffer::Buffer).
THEOREM SuccessMeansDone == TransferSpec => []SuccessMeansCopied
<1>1. TransferInit => TransferInv
  <2> SUFFICES ASSUME TransferInit PROVE TransferInv
    OBVIOUS
  <2>1. transfer \in Copies /\ step = "returned"
    BY DEF TransferInit, TransferIdle, Copies
  <2>2. FlagsTyped
    BY DEF TransferInit, TransferIdle, FlagsTyped
  <2>3. NumbersTyped /\ step \in Steps
    BY DEF TransferInit, TransferIdle, NumbersTyped, Steps
  <2> QED
    BY <2>1, <2>2, <2>3 DEF TransferInit, TransferIdle, TransferInv, TransferTyped,
                            MappingsCounted,
       BufferThere, RegionRead, HostFilled, RegionFilled, MakesBuffer, SuccessIsReal
<1>2. TransferInv /\ [TransferNext]_transferVars => TransferInv'
  <2> SUFFICES ASSUME TransferInv, [TransferNext]_transferVars PROVE TransferInv'
    OBVIOUS
  <2>1. CASE TransferNext
    BY <2>1, Begins, ContextFound, Creates, QueueFound, Maps, CopiesElements, Unmaps, Waits
    DEF TransferNext
  <2>2. CASE UNCHANGED transferVars
    BY <2>2 DEF transferVars, handles, data, TransferInv, TransferTyped, FlagsTyped,
                NumbersTyped,
       MappingsCounted, BufferThere, RegionRead, HostFilled, RegionFilled, MakesBuffer,
       SuccessIsReal, Constructing
  <2> QED BY <2>1, <2>2
<1>3. TransferInv => SuccessMeansCopied
  BY DEF TransferInv, SuccessIsReal, MappingsCounted, SuccessMeansCopied
<1> QED BY <1>1, <1>2, <1>3, PTL DEF TransferSpec
=============================================================================
