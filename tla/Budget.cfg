CONSTANTS
  r1 = r1
  r2 = r2
  Requests = {r1, r2}
  Cost <- MCCost
  Initial = 3
  Admins = {a1}
  Added = 2
  Threshold = 2
  Target = 3
  MaxSyncs = 2
  MaxExpiries = 1
  MaxFaults = 1
  None = None
SPECIFICATION Spec
INVARIANTS TypeOK ChargedOnce SerialBooks
CHECK_DEADLOCK FALSE
