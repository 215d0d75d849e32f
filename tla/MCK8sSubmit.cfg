SPECIFICATION Spec
CONSTANTS
  Submissions <- TwoSubmissions
  Inputs <- MCInputs
  Seconds <- OneSecond
  HostOS = "darwin"
INVARIANTS
  PodOfOne
  OwnConfig
  PodAgrees
  AcceptedAgree
