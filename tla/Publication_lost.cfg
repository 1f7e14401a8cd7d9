SPECIFICATION Spec
INVARIANTS
  ArmedIsReviewed
CONSTANTS
  k1 = k1
  k2 = k2
  Rearmer = {}
  MaxResumptions = 0
  MaxVersions = 2
  MaxExternal = 1
  MaxDecisions = 0
  MaxLost = 1
  MaxCrashes = 0
CHECK_DEADLOCK FALSE
