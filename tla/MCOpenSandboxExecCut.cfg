SPECIFICATION Spec
CONSTANTS
  LogCap = 2
  NetCap = 2
  CtxEnds <- NoEnd
  Programs <- LongProgram
INVARIANT
  NoFalseSuccess
