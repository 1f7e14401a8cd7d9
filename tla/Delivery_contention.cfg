SPECIFICATION Spec
INVARIANTS
  LandsOnce
  ClosedMeansLanded
  TurnExcludesRuns
PROPERTIES
  ImplementsLanding
CONSTANTS
  r1 = r1
  r2 = r2
  Run = {r1, r2}
  External = External
  Nobody = Nobody
  Publishing = FALSE
  Evidence = {r2}
  RepairBudget = 0
  ReplayLimit = 0
  MaxResumptions = 1
  MaxGrants = 0
  MaxEdit = 1
  MaxExternal = 1
  MaxCrashes = 1
CHECK_DEADLOCK FALSE
