SPECIFICATION FairSpec
INVARIANTS
  RecordKeepsRounds
PROPERTIES
  ClosedOnce
  ThreadsEnd
CONSTANTS
  a1 = a1
  a2 = a2
  s1 = s1
  Nobody = Nobody
  Askers = {a1, a2}
  Sweepers = {s1}
  MaxRounds = 2
  MaxAsked = 3
  MaxCrashes = 2
CHECK_DEADLOCK FALSE
