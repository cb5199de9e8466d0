SPECIFICATION FairSpec
CONSTANTS
  Ranks = {"r1", "r2"}
  Leader = "r1"
  Roles <- MCRoles
  Configs <- MCConfigs
  TotalSteps = 4
  SaveFreq = 2
  MaxCrashes = 2
INVARIANTS TrackerComplete ResumesConsistent StoreBounded
PROPERTIES JobEnds
CHECK_DEADLOCK FALSE
