----------------------------- MODULE MCStubLoader -----------------------------
(* A small instance of StubLoader: one library that exports every function  *)
(* and one that lacks the last one.                                         *)
EXTENDS StubLoader

LOCAL INSTANCE TLC

CONSTANTS full, partial

MCExports == (full :> Funcs) @@ (partial :> Funcs \ {NR_FUNC})
===============================================================================
