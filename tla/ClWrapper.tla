------------------------------ MODULE ClWrapper ------------------------------
(***************************************************************************)
(* The reference counting wrappers of the C++ bindings (cl.hpp): variables *)
(* of the classes Context, Buffer, Event, Device, ... that derive from     *)
(* detail::Wrapper, and the references they hold on the driver's objects.  *)
(* The variables of one behaviour have the same kind of handle, since a    *)
(* handle of one kind is never assigned to a variable of another.          *)
(*                                                                         *)
(* A retain or a release can fail.  For each object, books keeps what the  *)
(* driver counts (refs) and two history values: missing, the holders of a  *)
(* handle that own no reference, and lost, the references without holder.  *)
(***************************************************************************)
EXTENDS Integers, FiniteSets

CONSTANTS Slots,      \* variables of a wrapper class
          Objects,    \* objects of the driver
          NULL,       \* no object
          Faults,     \* bound on the retains and releases that fail
          Cap         \* bound on the references of an object held by raw handles
                      \* and on those lost by overwriting

ASSUME WrapperAssumption == /\ IsFiniteSet(Slots)
                            /\ NULL \notin Objects
                            /\ Faults \in Nat /\ Cap \in Nat

VARIABLES kind,       \* kind of handle: "platform", "device", "event" or "other"
          throws,     \* built with __CL_ENABLE_EXCEPTIONS
          newer,      \* object -> its platform implements OpenCL 1.2 or later
          counted,    \* object -> the driver counts its references
          inner,      \* object -> references held by other objects of the driver
          object,     \* object_ of each variable, NULL where there is none
          flag,       \* referenceCountable_ of each Device
          books,      \* object -> [refs, missing, lost]
          raw,        \* object -> references held by raw handles
          faults      \* failures so far

setting == <<kind, throws, newer, counted, inner>>
vars    == <<setting, object, flag, books, raw, faults>>

Owners(o) == Cardinality({s \in Slots : object[s] = o})

------------------------------------------------------------------------------
\* Wrapper<cl_device_id>::isReferenceCountable: getDevicePlatformVersion is
\* above 1.1.  Only that class has the flag.
Detected(o) == kind = "device" /\ o # NULL /\ newer[o]

\* Variant: the flag stays that of the device held before.
KeptFlag(s, t) == flag[s]

\* operator=(const Wrapper&) of a Device takes the flag with the handle.
CopiedFlag(s, t) == flag[t]

\* ReferenceHandler: a retain or a release of this handle calls the driver.
Calls(o, f) == o # NULL /\ kind # "platform" /\ (kind = "device" => f)

\* An object without references is gone; a call on it is an error.
Gone(b, o)       == counted[o] /\ b[o].refs = 0
Answers(b, o, f) == CASE ~Calls(o, f) -> {TRUE}
                      [] Calls(o, f) /\ Gone(b, o) -> {FALSE}
                      [] OTHER -> BOOLEAN

Faulty(b, o, ok) == IF ok \/ Gone(b, o) THEN 0 ELSE 1

GiveBack(r, ok) == CASE ok -> [r EXCEPT !.refs = @ - 1]
                     [] ~ok /\ r.refs = 0 -> [r EXCEPT !.missing = @ - 1]
                     [] OTHER -> [r EXCEPT !.lost = @ + 1]
TakeOne(r, ok)  == IF ok THEN [r EXCEPT !.refs = @ + 1]
                   ELSE [r EXCEPT !.missing = @ + 1]

Released(b, o, f, ok) == IF Calls(o, f) /\ counted[o]
                         THEN [b EXCEPT ![o] = GiveBack(@, ok)] ELSE b
Retained(b, o, f, ok) == IF Calls(o, f) /\ counted[o]
                         THEN [b EXCEPT ![o] = TakeOne(@, ok)] ELSE b

\* Variant: the check for self-assignment is dropped.
NeverTheSame(s, t) == TRUE

\* Self-assignment is excluded (this != &rhs).
Differs(s, t) == s # t


\* ~Wrapper releases whatever the variable holds.
OnDestruction(b, o, f, ok) == Released(b, o, f, ok)

Holds(s, o, f) == /\ object' = [object EXCEPT ![s] = o]
                  /\ flag' = [flag EXCEPT ![s] = f]

Counts(n) == faults' = faults + n /\ faults + n <= Faults

\* A new object of the driver, whose one reference is the caller's.
Fresh(o)  == counted[o] /\ books[o] = [refs |-> 0, missing |-> 0, lost |-> 0]
Born(b, o) == [b EXCEPT ![o].refs = @ + 1]

------------------------------------------------------------------------------
\* Root devices and platforms are not counted; sub-devices exist from OpenCL
\* 1.2 on.  No query of the driver answers with an event.
Init == /\ kind \in {"platform", "device", "event", "other"}
        /\ throws \in BOOLEAN
        /\ newer \in [Objects -> BOOLEAN]
        /\ counted \in [Objects -> BOOLEAN]
        /\ \A o \in Objects : /\ kind = "platform" => ~counted[o]
                              /\ kind = "device" /\ counted[o] => newer[o]
                              /\ kind \in {"event", "other"} => counted[o]
        /\ inner \in [Objects -> IF kind = "event" THEN {0} ELSE {0, 1}]
        /\ object = [s \in Slots |-> NULL]
        /\ flag = [s \in Slots |-> FALSE]
        /\ raw = [o \in Objects |-> 0]
        /\ books = [o \in Objects |-> [refs |-> inner[o], missing |-> 0, lost |-> 0]]
        /\ faults = 0

\* A raw handle: an object the caller created, or one that it retained.
TakeRaw(o) ==
  /\ raw[o] < Cap
  /\ counted[o] => Fresh(o) \/ books[o].refs > 0
  /\ raw' = [raw EXCEPT ![o] = @ + 1]
  /\ books' = IF counted[o] THEN Born(books, o) ELSE books
  /\ UNCHANGED <<setting, object, flag, faults>>

DropRaw(o) ==
  /\ raw[o] > 0 /\ ~Gone(books, o)
  /\ raw' = [raw EXCEPT ![o] = @ - 1]
  /\ books' = IF counted[o] THEN [books EXCEPT ![o].refs = @ - 1] ELSE books
  /\ UNCHANGED <<setting, object, flag, faults>>

\* Wrapper(const Wrapper&): a Device detects the flag anew.  With exceptions
\* a retain that fails leaves no variable behind.
CopyConstruct(s, t) ==
  LET o == object[t]  f == Detected(o) IN
  /\ object[s] = NULL /\ o # NULL
  /\ \E ok \in Answers(books, o, f) :
       /\ Counts(Faulty(books, o, ok))
       /\ IF throws /\ ~ok THEN UNCHANGED <<object, flag, books>>
          ELSE Holds(s, o, f) /\ books' = Retained(books, o, f, ok)
  /\ UNCHANGED <<setting, raw>>

\* operator=(const Wrapper&): release, copy both members, retain.  With
\* exceptions a release that fails ends it; the retain comes too late for that.
Assign(s, t) ==
  LET p == object[s]  o == object[t]  f == CopiedFlag(s, t) IN
  /\ Differs(s, t)
  /\ UNCHANGED <<setting, raw>>
  /\ \E rel \in Answers(books, p, flag[s]) :
     LET b == Released(books, p, flag[s], rel)
         n == IF p = NULL THEN 0 ELSE Faulty(books, p, rel) IN
     \/ throws /\ ~rel /\ Counts(n) /\ UNCHANGED <<object, flag, books>>
     \/ /\ throws => rel
        /\ Holds(s, o, f)
        /\ \E ret \in Answers(b, o, f) :
             /\ Counts(n + IF o = NULL THEN 0 ELSE Faulty(b, o, ret))
             /\ books' = Retained(b, o, f, ret)

\* Wrapper(Wrapper&&) and operator=(Wrapper&&): the reference changes hands.
Move(s, t) ==
  LET p == object[s] IN
  /\ Differs(s, t)
  /\ UNCHANGED <<setting, raw>>
  /\ \E rel \in Answers(books, p, flag[s]) :
       /\ Counts(IF p = NULL THEN 0 ELSE Faulty(books, p, rel))
       /\ IF throws /\ ~rel THEN UNCHANGED <<object, flag, books>>
          ELSE /\ object' = [object EXCEPT ![s] = object[t], ![t] = NULL]
               /\ flag' = [flag EXCEPT ![s] = flag[t], ![t] = FALSE]
               /\ books' = Released(books, p, flag[s], rel)

\* Wrapper(const cl_type&) and operator=(const cl_type&), also as Device,
\* Context, Event, ...::operator= and by createSubDevices: the variable takes
\* over the reference of the raw handle.
AssignHandle(s, o) ==
  LET p == object[s] IN
  /\ raw[o] > 0
  /\ UNCHANGED setting
  /\ \E rel \in Answers(books, p, flag[s]) :
       /\ Counts(IF p = NULL THEN 0 ELSE Faulty(books, p, rel))
       /\ IF throws /\ ~rel THEN UNCHANGED <<object, flag, books, raw>>
          ELSE /\ Holds(s, o, Detected(o))
               /\ raw' = [raw EXCEPT ![o] = @ - 1]
               /\ books' = Released(books, p, flag[s], rel)

\* operator=(const cl_type&) with NULL.
AssignNull(s) ==
  LET p == object[s] IN
  /\ p # NULL
  /\ UNCHANGED <<setting, raw>>
  /\ \E rel \in Answers(books, p, flag[s]) :
       /\ Counts(Faulty(books, p, rel))
       /\ IF throws /\ ~rel THEN UNCHANGED <<object, flag, books>>
          ELSE Holds(s, NULL, FALSE) /\ books' = Released(books, p, flag[s], rel)

\* ~Wrapper: the result of the release is not looked at.
Destroy(s) ==
  LET p == object[s] IN
  /\ p # NULL
  /\ UNCHANGED <<setting, raw>>
  /\ \E rel \in Answers(books, p, flag[s]) :
       /\ Counts(Faulty(books, p, rel))
       /\ Holds(s, NULL, FALSE)
       /\ books' = OnDestruction(books, p, flag[s], rel)

\* getInfoHelper for one object: the driver lends a handle, the variable takes
\* it and then retains it.
GetInfo(s, o) ==
  LET p == object[s]  f == Detected(o) IN
  /\ inner[o] = 1
  /\ UNCHANGED <<setting, raw>>
  /\ \E rel \in Answers(books, p, flag[s]) :
     LET b == Released(books, p, flag[s], rel)
         n == IF p = NULL THEN 0 ELSE Faulty(books, p, rel) IN
     \/ throws /\ ~rel /\ Counts(n) /\ UNCHANGED <<object, flag, books>>
     \/ /\ throws => rel
        /\ Holds(s, o, f)
        /\ \E ret \in Answers(b, o, f) : /\ Counts(n + Faulty(b, o, ret))
                                         /\ books' = Retained(b, o, f, ret)

\* getInfoHelper for a vector of two new variables: both take their handle,
\* then the retains follow in order until one fails.
GetInfoVector(s, t, o, q) ==
  LET fo == Detected(o)  fq == Detected(q) IN
  /\ s # t /\ object[s] = NULL /\ object[t] = NULL
  /\ inner[o] = 1 /\ inner[q] = 1
  /\ UNCHANGED <<setting, raw>>
  /\ object' = [object EXCEPT ![s] = o, ![t] = q]
  /\ flag' = [flag EXCEPT ![s] = fo, ![t] = fq]
  /\ \E one \in Answers(books, o, fo) :
     LET b == Retained(books, o, fo, one) IN
     \E two \in IF one THEN Answers(b, q, fq) ELSE {FALSE} :
       /\ Counts(IF one THEN Faulty(b, q, two) ELSE Faulty(books, o, one))
       /\ books' = Retained(b, q, fq, two)

\* CommandQueue::enqueue...(..., Event* event): the driver's event is kept in
\* a local and assigned on success.  If the assignment throws, nobody has it.
Enqueue(s, o) ==
  LET p == object[s]  b == Born(books, o) IN
  /\ kind = "event" /\ Fresh(o)
  /\ UNCHANGED <<setting, raw>>
  /\ \E rel \in Answers(books, p, flag[s]) :
       /\ Counts(IF p = NULL THEN 0 ELSE Faulty(books, p, rel))
       /\ IF throws /\ ~rel
          THEN books' = [b EXCEPT ![o].lost = @ + 1] /\ UNCHANGED <<object, flag>>
          ELSE Holds(s, o, FALSE) /\ books' = Released(b, p, flag[s], rel)

\* The function cl::enqueueMapBuffer passes the variable itself to the driver,
\* which overwrites the handle: no release.
MapBuffer(s, o) ==
  LET p == object[s]  b == Born(books, o) IN
  /\ kind = "event" /\ Fresh(o)
  /\ p # NULL => books[p].lost < Cap
  /\ Holds(s, o, FALSE)
  /\ books' = IF p = NULL THEN b ELSE [b EXCEPT ![p] = GiveBack(@, FALSE)]
  /\ UNCHANGED <<setting, raw, faults>>

Next == \/ \E o \in Objects : TakeRaw(o) \/ DropRaw(o)
        \/ \E s, t \in Slots : CopyConstruct(s, t) \/ Assign(s, t) \/ Move(s, t)
        \/ \E s \in Slots : AssignNull(s) \/ Destroy(s)
        \/ \E s \in Slots, o \in Objects : \/ AssignHandle(s, o) \/ GetInfo(s, o)
                                           \/ Enqueue(s, o) \/ MapBuffer(s, o)
        \/ \E s, t \in Slots, o, q \in Objects : GetInfoVector(s, t, o, q)

Spec == Init /\ [][Next]_vars

------------------------------------------------------------------------------
\* The driver's count of an object and the holders of its handle agree, up to
\* the failures on record.
ReferencesAccounted ==
  \A o \in Objects : counted[o] =>
    books[o].refs + books[o].missing = Owners(o) + raw[o] + inner[o] + books[o].lost

\* As long as no retain and no release failed, what a variable holds is live.
HandlesLive ==
  faults = 0 => \A s \in Slots : object[s] # NULL => ~Gone(books, object[s])

\* As long as nothing failed, an object that nobody holds is gone; an event
\* may have been overwritten by cl::enqueueMapBuffer.
NothingLeaks ==
  faults = 0 /\ kind # "event" =>
    \A o \in Objects : counted[o] /\ Owners(o) + raw[o] + inner[o] = 0 => Gone(books, o)
=============================================================================
