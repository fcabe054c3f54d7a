CONSTANTS
  MaxRecords = 3
  Syncers = {"leader", "manual"}
  Compressors = {}
  PerMinute = 1
  PerHour = 1
  BatchSize = 2
  MinuteOf <- MCMinuteOf
  HourOf <- MCHourOf
  MaxFaults = 0
SPECIFICATION Spec
INVARIANT CountsFromCurrent
CHECK_DEADLOCK FALSE
