SPECIFICATION Enumerate
CONSTANTS
  W = 9
  Margin <- MCMargin
  DEFAULT_WG = 4
  QUALCOMM_WG = 2
  NVIDIA_WG = 4
  LOCAL_ELEMS = 64
  WI_PER_CU = 8
  MaxRaw = 1100
  MaxLocal = 6
  MaxGroup = 2
  UNSET = UNSET
INVARIANTS
  BuffersFit
  FiguresMatchWork
  ItemsKeepApart
  EachElementOnce
CHECK_DEADLOCK FALSE
