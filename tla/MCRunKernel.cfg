SPECIFICATION FairSpec
CONSTANTS
  ITERS = 3
  MinTime = 1
  MaxTime = 2
  ColdTimes <- MCColdTimes
  MaxOverhead = 1
  MaxCalls = 2
INVARIANTS
  ReturnsDeviceTime
  EventsLeaked
  DrainedOnReturn
PROPERTIES
  CallEnds
CHECK_DEADLOCK FALSE
