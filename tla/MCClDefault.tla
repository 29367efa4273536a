---------------------------- MODULE MCClDefault ----------------------------
(***************************************************************************)
(* Two threads that ask for either default again and again, in every       *)
(* build, on machines that keep the order of stores and on others.         *)
(***************************************************************************)
EXTENDS ClDefault

CONSTANTS t1, t2

MCThreads == {t1, t2}
=============================================================================
