SPECIFICATION Spec
CONSTANTS
  Builds <- MCBuilds
  Machines <- MCMachines
  Cores <- MCCores
  Durations = {1}
INVARIANTS
  DetectedIsEnabled
CHECK_DEADLOCK FALSE
