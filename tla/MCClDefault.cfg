SPECIFICATION Spec
CONSTANTS
  t1 = t1
  t2 = t2
  Threads <- MCThreads
  NULL = NULL
INVARIANTS HandedOutAlive ErrorTold
PROPERTIES SameAsFirst CallsReturn
CHECK_DEADLOCK FALSE
