\* Every benchmark loop with every choice of operand registers from its pool.
CONSTANTS
  RUNS = 2
  SCALE = 2
  MODULUS = 16
  IterCap = 6
  Bench <- MCBench
SPECIFICATION FairSpec
INVARIANTS
  InputOperandsKept
  RunsExactly
  CallerRegistersKept
  CountsOperationsBut
  ThroughputIndependent
  LatencyChained
PROPERTY
  Terminates
