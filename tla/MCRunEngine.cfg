SPECIFICATION FairSpec
CONSTANTS
  Configs <- MCConfigs
  MaxSetupSteps = 2
  ExitCodes <- MCExitCodes
INVARIANTS
  TypeOK
  SuccessIsWhole
  FilesNeverOverclaim
  FilesAgree
  FailureReported
  NothingLeftOpen
  SandboxSettled
  ExitCodeTellsTruth
PROPERTIES
  FailureIsFinal
  Terminates
  ImplementsLifecycle
