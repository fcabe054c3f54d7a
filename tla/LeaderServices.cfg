CONSTANTS
  Nodes = {"n1", "n2"}
  Hosts = {"n1"}
  Threaded = {"sync"}
  Manual = {"sync"}
  Resync = "resync"
  Slots = {"a", "b"}
  MaxFaults = 2
  MaxCalls = 1
SPECIFICATION FairSpec
INVARIANTS TypeOK LeaderHolds OneLoop LeaderServes
PROPERTIES Retires Led
CHECK_DEADLOCK FALSE
