SPECIFICATION Spec
CONSTANTS
  Runs = 3
  Attempts = 0
  GrantSize = 2
  Caps <- MCCaps
  MaxCrossings = 1
  Carriers = {c1, c2}
  MaxDecisions = 2
  MaxMishaps = 1
INVARIANTS RoundsAreCounted PromisesWithinCap ReservedForStanding OneFreshRunPerClaim
SYMMETRY Symmetry
CHECK_DEADLOCK FALSE
