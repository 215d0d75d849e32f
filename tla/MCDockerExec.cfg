SPECIFICATION FairSpec
CONSTANTS
  CtxEnds <- BothEnds
  Programs <- MCPrograms
INVARIANTS
  CompleteResult
  DeadlineReported
  LateOnlyAfterError
  ContainerRemoved
PROPERTIES
  RunEnds
  ImplementsContract
