CONSTANTS
  Responses <- MCResponses
  Media <- MCMedia
  Resyncers = {"leader"}
  Leader = "leader"
  Limit = 1
  MaxFaults = 2
SPECIFICATION MCFairSpec
PROPERTY MediaSettles
CHECK_DEADLOCK FALSE
