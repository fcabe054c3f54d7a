CONSTANTS
  Responses = {"video"}
  Media = {"video"}
  Resyncers = {"leader"}
  Leader = "leader"
  Limit = 1
  MaxFaults = 0
SPECIFICATION Spec
INVARIANT CompletedIsStored
CHECK_DEADLOCK FALSE
