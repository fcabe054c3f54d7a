CONSTANTS
  Responses = {"video"}
  Media = {"video"}
  Resyncers = {"leader", "manual"}
  Leader = "leader"
  Limit = 1
  MaxFaults = 2
SPECIFICATION Spec
INVARIANT TypeOK
INVARIANT CompletedIsEarned
INVARIANT GivesUpForCause
INVARIANT BilledIsEarned
PROPERTY Implements
CHECK_DEADLOCK FALSE
