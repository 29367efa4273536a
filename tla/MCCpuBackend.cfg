SPECIFICATION Spec
CONSTANTS
  Builds <- MCBuilds
  Machines <- MCMachines
  Cores <- MCCores
  Durations = {1, 2}
INVARIANTS
  FiguresAreOwn
  DiesOnlyHere
CHECK_DEADLOCK FALSE
