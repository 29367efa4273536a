----------------------------- MODULE ClTransfer ------------------------------
(***************************************************************************)
(* The blocking transfers of the C++ bindings (cl.hpp): cl::copy between   *)
(* iterators and a Buffer, and the Buffer constructors that take           *)
(* iterators.  Each maps the buffer, copies the elements and unmaps it.    *)
(*                                                                         *)
(* Without exceptions the constructors go on after a failed step, with     *)
(* handles that are null, and overwrite the error they have stored; and    *)
(* nobody looks at what endEvent.wait() returns.                           *)
(***************************************************************************)
EXTENDS Naturals, FiniteSets

CONSTANT MaxTransfers    \* bound on the calls

ASSUME TransferAssumption == MaxTransfers \in Nat

VARIABLES
  excepts,      \* built with __CL_ENABLE_EXCEPTIONS
  transfer,     \* the call: what it does and where its queue comes from
  round,        \* its number; the elements it transfers are called by it
  step,         \* where it is, "returned" or "threw" at the end
  contextLive,  \* its context is not null
  bufferLive,   \* object_ of the Buffer is not null
  queueLive,    \* its queue is not null
  content,      \* what the buffer holds; 0 is undefined
  region,       \* what the mapped region holds
  host,         \* what the iterators of a copy to the host point at
  mapped,       \* mappings of the buffer that were not undone
  told,         \* *err or the result: no error
  unheard,      \* the wait failed in a build without exceptions (history)
  broken        \* mappings an exception or a failed unmap left (history)

handles == <<contextLive, bufferLive, queueLive>>
data    == <<content, region, host>>
transferVars == <<excepts, transfer, round, step, handles, data, mapped, told, unheard, broken>>

\* A constructor makes its buffer from the default context, from a context or
\* from that of a queue, with the host's memory (useHostPtr) or a copy of it.
Constructions == [does : {"construct"}, from : {"default", "context", "queue"}, wraps : BOOLEAN]
Copies        == [does : {"copyIn", "copyOut"}, from : {"default", "queue"}, wraps : {FALSE}]

TransferIdle ==
  /\ transfer = [does |-> "copyIn", from |-> "queue", wraps |-> FALSE]
  /\ round = 0 /\ step = "returned"
  /\ contextLive = FALSE /\ bufferLive = FALSE /\ queueLive = FALSE
  /\ content = 0 /\ region = 0 /\ host = 0 /\ mapped = 0
  /\ told = FALSE /\ unheard = FALSE /\ broken = 0

TransferInit == excepts \in BOOLEAN /\ TransferIdle

Constructing == transfer.does = "construct"

\* A failed step of a constructor: errHandler throws, or the error is stored
\* and the constructor goes on.
FailsAt(next) == step' = IF excepts THEN "threw" ELSE next

------------------------------------------------------------------------------
\* A constructor makes a new Buffer; a copy uses the last one, null if its
\* construction failed and gone if its constructor threw.
Begin(t) ==
  /\ step \in {"returned", "threw"} /\ round < MaxTransfers
  /\ t \in Constructions \/ ~(step = "threw" /\ Constructing)
  /\ transfer' = t /\ round' = round + 1
  /\ step' = IF t \in Constructions THEN "context" ELSE "queue"
  /\ contextLive' = FALSE /\ queueLive' = FALSE
  /\ IF t \in Constructions
     THEN bufferLive' = FALSE /\ content' = 0 /\ mapped' = 0 /\ broken' = 0
     ELSE UNCHANGED <<bufferLive, content, mapped, broken>>
  /\ region' = 0 /\ host' = 0 /\ told' = FALSE /\ unheard' = FALSE
  /\ UNCHANGED excepts

\* The context: given, Context::getDefault(err), or asked of the queue
\* without looking at the error.
FindContext ==
  /\ step = "context"
  /\ \/ contextLive' = TRUE /\ step' = "create"
     \/ transfer.from # "context" /\ FailsAt("create") /\ UNCHANGED contextLive
  /\ UNCHANGED <<excepts, transfer, round, bufferLive, queueLive, data, mapped, told,
                 unheard, broken>>

AfterCreate == IF transfer.wraps THEN "returned" ELSE "queue"

\* clCreateBuffer, which refuses a null context.  The error is stored.
CreateBuffer ==
  /\ step = "create"
  /\ \/ /\ contextLive
        /\ bufferLive' = TRUE /\ told' = TRUE /\ step' = AfterCreate
        /\ content' = IF transfer.wraps THEN round ELSE 0
     \/ /\ told' = FALSE /\ FailsAt(AfterCreate)
        /\ UNCHANGED <<bufferLive, content>>
  /\ UNCHANGED <<excepts, transfer, round, contextLive, queueLive, region, host, mapped,
                 unheard, broken>>

\* The queue: given, made for the context by a constructor (its error replaces
\* that of clCreateBuffer, and the copy goes on with a null queue), or the
\* default, without which cl::copy returns its error.
FindQueue ==
  /\ step = "queue"
  /\ \/ queueLive' = TRUE /\ step' = "map"
        /\ told' = IF transfer.from = "context" THEN TRUE ELSE told
     \/ transfer.from = "context" /\ told' = FALSE /\ FailsAt("map") /\ UNCHANGED queueLive
     \/ transfer.from = "default" /\ told' = FALSE /\ FailsAt("returned") /\ UNCHANGED queueLive
  /\ UNCHANGED <<excepts, transfer, round, contextLive, bufferLive, data, mapped, unheard,
                 broken>>

\* A blocking map, which the driver refuses for a null queue or buffer.
Map ==
  /\ step = "map"
  /\ \/ /\ queueLive /\ bufferLive
        /\ region' = IF transfer.does = "copyOut" THEN content ELSE 0
        /\ mapped' = mapped + 1 /\ step' = "elements" /\ UNCHANGED told
     \/ /\ told' = FALSE /\ FailsAt("returned")
        /\ UNCHANGED <<region, mapped>>
  /\ UNCHANGED <<excepts, transfer, round, handles, content, host, unheard, broken>>

\* std::copy.  An iterator or an assignment of the caller's may throw.
CopyElements ==
  /\ step = "elements"
  /\ \/ /\ step' = "unmap" /\ UNCHANGED broken
        /\ IF transfer.does = "copyOut" THEN host' = region /\ UNCHANGED region
           ELSE region' = round /\ UNCHANGED host
     \/ step' = "threw" /\ broken' = broken + 1 /\ UNCHANGED <<region, host>>
  /\ UNCHANGED <<excepts, transfer, round, handles, content, mapped, told, unheard>>

\* Variant: the copy returns without waiting for the unmap.
NoWait == "returned"

AfterUnmap == "wait"

\* enqueueUnmapMemObject: only enqueued.
Unmap ==
  /\ step = "unmap"
  /\ \/ step' = AfterUnmap /\ mapped' = mapped - 1 /\ told' = (AfterUnmap = "returned")
        /\ UNCHANGED broken
     \/ told' = FALSE /\ FailsAt("returned") /\ broken' = broken + 1 /\ UNCHANGED mapped
  /\ UNCHANGED <<excepts, transfer, round, handles, data, unheard>>

\* endEvent.wait(): what was written arrives, unless the command or the wait
\* fails, which only an exception tells.
WaitUnmapped ==
  /\ step = "wait"
  /\ \/ /\ step' = "returned" /\ told' = TRUE
        /\ content' = (IF transfer.does = "copyOut" THEN content ELSE region)
        /\ UNCHANGED unheard
     \/ /\ told' = ~excepts /\ FailsAt("returned")
        /\ content' \in {0, content, region}
        /\ unheard' = ~excepts
  /\ UNCHANGED <<excepts, transfer, round, handles, region, host, mapped, broken>>

TransferNext ==
  \/ \E t \in Constructions \cup Copies : Begin(t)
  \/ FindContext \/ CreateBuffer \/ FindQueue
  \/ Map \/ CopyElements \/ Unmap \/ WaitUnmapped

TransferSpec == TransferInit /\ [][TransferNext]_transferVars

------------------------------------------------------------------------------
\* A transfer that reports success has transferred: the buffer of a
\* constructor or of a copy to it holds the elements, the host has what the
\* buffer holds; only a failed wait without exceptions goes unheard.  This
\* although the constructors overwrite the error of an earlier step.  And a
\* mapping outlives its call only when the unmap failed or the caller's
\* iterators threw (cl::copy, Buffer::Buffer).
SuccessMeansCopied ==
  /\ step = "returned" /\ told /\ ~unheard =>
       /\ bufferLive
       /\ IF transfer.does = "copyOut" THEN host = content ELSE content = round
  /\ step \in {"returned", "threw"} => mapped = broken
=============================================================================
