SPECIFICATION FairSpec
CONSTANTS
  full = full
  partial = partial
  Threads = {t1, t2, t3}
  NR_FUNC = 3
  Libs = {full, partial}
  Exports <- MCExports
INVARIANTS
  AtMostOneEntry
  AnswersFromHandle
PROPERTIES
  ImplementsDispatch
  CallsAnswered
