SPECIFICATION FairSpec
CONSTANTS
  LogCap = 2
  PipeCap = 1
  CtxEnds <- BothEnds
  Programs <- MCPrograms
INVARIANTS
  NoSendAfterClose
  Accounted
  ExitCodeKept
PROPERTIES
  RunEnds
  ImplementsContract
