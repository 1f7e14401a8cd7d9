SPECIFICATION Spec
INVARIANTS
  NothingLandsUnjudged
  LandingRecoverable
CONSTANTS
  r1 = r1
  r2 = r2
  Run = {r1}
  External = External
  Nobody = Nobody
  Publishing = FALSE
  Evidence = {}
  RepairBudget = 1
  ReplayLimit = 1
  MaxResumptions = 1
  MaxGrants = 1
  MaxEdit = 2
  MaxExternal = 2
  MaxCrashes = 2
CHECK_DEADLOCK FALSE
