SPECIFICATION SearchSpec
CONSTANTS
  a = a
  b = b
  c = c
  empty = empty
  None = None
  EmptyPath = empty
  Paths <- MCPaths
  EnvLists <- MCEnvLists
  default_so_paths <- MCDefaults
INVARIANTS
  FirstLibraryWins
  OnlyResultOpened
CHECK_DEADLOCK FALSE
