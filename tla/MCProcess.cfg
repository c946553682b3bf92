SPECIFICATION MCSpec
CONSTANTS
  Releases <- MCReleases
  Setting = "semver"
  CurrentVersion = 2
  CurrentPre <- MCCurrentPre
  Wanted = 6
  Count = 2
  GH_PAGE_SIZE = 2
  MaxPublished = 3
  None = None
  Callers = {c1}
INVARIANTS
  FirstEligible
  NoneMeansNone
  CleanExit
PROPERTIES
  TriggerExits
  CallSettles
CHECK_DEADLOCK FALSE
