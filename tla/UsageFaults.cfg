CONSTANTS
  MaxRecords = 3
  Syncers = {"leader"}
  Compressors = {"compress"}
  PerMinute = 1
  PerHour = 1
  BatchSize = 2
  MinuteOf <- MCMinuteOf
  HourOf <- MCHourOf
  MaxFaults = 1
SPECIFICATION FairSpec
INVARIANT CountedExactly
PROPERTY LockIsFreed
CHECK_DEADLOCK FALSE
