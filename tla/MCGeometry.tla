------------------------------- MODULE MCGeometry -----------------------------
(***************************************************************************)
(* LaunchGeometry on a scaled machine: a 9-bit word, and log2f that rounds *)
(* up within 2^(k-6) of 2^k for the larger exponents.                      *)
(***************************************************************************)
EXTENDS LaunchGeometry

MCMargin == [k \in 0 .. W |-> IF k < 6 THEN 0 ELSE 2^(k - 6)]
===============================================================================
