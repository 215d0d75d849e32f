SPECIFICATION FairSpec
CONSTANTS
  LogCap = 2
  NetCap = 2
  CtxEnds <- BothEnds
  Programs <- MCPrograms
INVARIANTS
  StreamedResult
  FailureSurvives
PROPERTIES
  RunEnds
  ImplementsContract
