------------------------------ MODULE MCRunKernel -----------------------------
(* Two calls of run_kernel with few iterations; a warm-up launch takes      *)
(* longer than any measured one, so a sample that contains it is noticed.   *)
EXTENDS RunKernel

MCColdTimes == {7}
===============================================================================
