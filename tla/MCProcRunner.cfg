SPECIFICATION FairSpec
CONSTANTS
  PipeCap = 1
  CtxEnds <- BothEnds
  Programs <- MCPrograms
INVARIANTS
  CompleteResult
  NoLateLine
PROPERTIES
  RunEnds
  ImplementsContract
