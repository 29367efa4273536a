----------------------------- MODULE MCBenchLoop -----------------------------
\* The loops of every table, with the scaled numbers of the cfg.
EXTENDS CpuLoops

MCBench == CpuBench
=============================================================================
