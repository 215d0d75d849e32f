SPECIFICATION Spec
CONSTANTS
  LogCap = 2
  PipeCap = 1
  CtxEnds <- NoEnd
  Programs <- EndingProgram
INVARIANT
  OutputComplete
