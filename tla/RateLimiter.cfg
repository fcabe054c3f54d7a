CONSTANTS
  r1 = r1
  r2 = r2
  Requests <- MCRequests
  Estimate <- MCEstimate
  Limit <- MCLimit
  MaxMinute = 2
  MaxActual = 3
  MaxFaults = 1
SPECIFICATION Spec
INVARIANTS TypeOK Balanced WithinLimit RefusedGivesBack
CHECK_DEADLOCK FALSE
