SPECIFICATION Spec
CONSTANTS
  W = 14
  Margin <- MCMargin
  DEFAULT_WG = 4
  QUALCOMM_WG = 2
  NVIDIA_WG = 4
  LOCAL_ELEMS = 64
  WI_PER_CU = 8
  Builds = {"arm", "other"}
  Devices <- MCFewDevices
  KernelLimits = {3, 4}
INVARIANTS
  ArgumentSizesAccepted
CHECK_DEADLOCK FALSE
