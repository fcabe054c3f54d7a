CONSTANTS
  MaxRecords = 2
  Syncers = {"leader"}
  Compressors = {}
  PerMinute = 1
  PerHour = 1
  BatchSize = 2
  MinuteOf <- MCMinuteOf
  HourOf <- MCHourOf
  MaxFaults = 0
SPECIFICATION Spec
INVARIANT NothingLeftBehind
CHECK_DEADLOCK FALSE
