SPECIFICATION Bindings
CONSTANTS
  s1 = s1
  s2 = s2
  s3 = s3
  o1 = o1
  o2 = o2
  c1 = c1
  c2 = c2
  k1 = k1
  k2 = k2
  Slots <- MCSlots
  Objects <- MCObjects
  NULL = NULL
  Faults = 2
  Cap = 1
  Callers <- MCCallers
  Kernels <- MCKernels
  MaxTypes = 2
  MaxFunctorCalls = 3
  MaxTransfers = 3
SYMMETRY Symmetry
INVARIANTS ReferencesAccounted HandlesLive LaunchesOwnArguments SuccessMeansCopied
CHECK_DEADLOCK FALSE
