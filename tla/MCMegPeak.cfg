SPECIFICATION ProgSpec
CONSTANTS
  W = 14
  Margin <- MCMargin
  DEFAULT_WG = 4
  QUALCOMM_WG = 2
  NVIDIA_WG = 4
  LOCAL_ELEMS = 64
  WI_PER_CU = 8
  Builds = {"arm", "other"}
  Devices = {}
  KernelLimits = {3, 4}
  Machines <- MCMachines
  Missing = {{}, {"clCreateContext"}, {"clCreateCommandQueue"}, {"clCreateContext", "clCreateCommandQueue"}}
  MaxProps = 32
  CommandLines <- MCCommandLines
  SIZES = 16
  INTS = 8
INVARIANTS
  LaunchLegal
  TouchesInBounds
  LocalMemoryMatches
  OnlyBuffersKept
  ArgumentSizeConfined
  RefusesOnlyHere
  RunsOnLiveHandles
  ZeroMeansComplete
PROPERTY
  ChoosesAskedGpu
CHECK_DEADLOCK FALSE
