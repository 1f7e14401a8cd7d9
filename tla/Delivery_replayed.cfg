SPECIFICATION Spec
INVARIANTS
  NothingLandsUnjudged
CONSTANTS
  r1 = r1
  r2 = r2
  Run = {r1}
  External = External
  Nobody = Nobody
  Publishing = TRUE
  Evidence = {}
  RepairBudget = 0
  ReplayLimit = 0
  MaxResumptions = 1
  MaxGrants = 0
  MaxEdit = 1
  MaxExternal = 1
  MaxCrashes = 0
CHECK_DEADLOCK FALSE
