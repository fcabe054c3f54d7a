CONSTANTS
  Responses <- MCResponses
  Media <- MCMedia
  Resyncers = {"leader"}
  Leader = "leader"
  Limit = 2
  MaxFaults = 2
SPECIFICATION MCFairSpec
PROPERTY Settles
CHECK_DEADLOCK FALSE
