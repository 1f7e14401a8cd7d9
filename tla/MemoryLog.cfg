SPECIFICATION Spec
INVARIANTS
  TipIsTrusted
  ArchivesAreMended
  LiveWithinBudget
PROPERTIES
  FragmentsAreKept
  UndisturbedReads
  ImplementsNotebook
CONSTANTS
  w1 = w1
  r1 = r1
  plan = plan
  taste = taste
  Nobody = Nobody
  Writer = {w1}
  Reader = {r1}
  Name = {plan, taste}
  RollAt = 2
  Budget = 1
  MaxSeq = 2
  MaxFaults = 2
CHECK_DEADLOCK FALSE
