SPECIFICATION Spec
CONSTANTS
  MaxPause = 2
  Probe = 1
  InProcess = 1
  Overload = 1
  Relaunches = 1
  Window = 1
  MaxInterval = 1
  Entry = 1
  MaxSweeps = 2
  MaxReset = 2
  MaxTaken = 2
  MaxCalls = 2
  MaxCrashes = 2
INVARIANTS SleepsWithinBudget RetriesWithinWindow AsksOnceMore
PROPERTIES AsksWhenDue WaitEnds
CHECK_DEADLOCK FALSE
