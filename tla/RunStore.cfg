SPECIFICATION FairSpec
INVARIANTS
  OneWriterPerRun
  LoadedIsDurable
  SecondRunWasContinued
PROPERTIES
  FreshRunsWithinCapacity
  BornOwned
  LockIsReturned
  ImplementsRegistry
CONSTANTS
  p1 = p1
  p2 = p2
  r1 = r1
  r2 = r2
  r3 = r3
  i1 = i1
  i2 = i2
  Process = {p1, p2}
  Run = {r1, r2, r3}
  Item = {i1, i2}
  ItemOf <- MCItemOf
  MaxConcurrent <- MCMaxConcurrent
  Continuable = {r1}
  Nobody = Nobody
  ForkedChild = ForkedChild
CHECK_DEADLOCK FALSE
