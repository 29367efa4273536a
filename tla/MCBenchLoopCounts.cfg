CONSTANTS
  RUNS = 2
  SCALE = 2
  MODULUS = 16
  IterCap = 6
  Bench <- MCBench
SPECIFICATION Spec
INVARIANT CountsOperations
