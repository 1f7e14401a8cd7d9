SPECIFICATION Spec
PROPERTIES
  ClosedStaysClosed
CONSTANTS
  a1 = a1
  a2 = a2
  s1 = s1
  Nobody = Nobody
  Askers = {a1, a2}
  Sweepers = {s1}
  MaxRounds = 2
  MaxAsked = 2
  MaxCrashes = 0
CHECK_DEADLOCK FALSE
