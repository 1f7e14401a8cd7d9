SPECIFICATION FairSpec
INVARIANTS
  RepeatsWithinDecisions
  ClosedMeansMerged
  UndisturbedArmedIsReviewed
  
PROPERTIES
  MergedIsSettled
CONSTANTS
  k1 = k1
  k2 = k2
  Rearmer = {k1, k2}
  MaxResumptions = 1
  MaxVersions = 4
  MaxExternal = 2
  MaxDecisions = 2
  MaxLost = 1
  MaxCrashes = 1
CHECK_DEADLOCK FALSE
