SPECIFICATION Spec
CONSTANTS
  Configs <- OneConfig
  MaxSetupSteps = 1
  ExitCodes <- MCExitCodes
INVARIANT
  EveryRunWritesIndex
