SPECIFICATION FairSpec
CONSTANTS
  Runs <- TwoRuns
  Configurations <- MCConfigurations
  FoundBoxes <- MCFoundBoxes
INVARIANTS
  OwnSandbox
  LeftoversAccounted
  ProbeLeftoverNoted
  FetchNoted
PROPERTIES
  OnlyAskedRemovals
  RunsEnd
