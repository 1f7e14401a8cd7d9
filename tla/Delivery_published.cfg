SPECIFICATION FairSpec
INVARIANTS
  LandsApprovedEdit
  ChargedBeforeSpent
PROPERTIES
  PromotionCompletes
  EndsOrWaits
CONSTANTS
  r1 = r1
  r2 = r2
  Run = {r1}
  External = External
  Nobody = Nobody
  Publishing = TRUE
  Evidence = {}
  RepairBudget = 1
  ReplayLimit = 0
  MaxResumptions = 1
  MaxGrants = 1
  MaxEdit = 2
  MaxExternal = 2
  MaxCrashes = 2
CHECK_DEADLOCK FALSE
