SPECIFICATION FairSpec
CONSTANTS
  LogCap = 2
  PipeCap = 1
  CtxEnds <- NoEnd
  Programs <- HangingProgram
PROPERTY
  EveryCommandEnds
CHECK_DEADLOCK FALSE
