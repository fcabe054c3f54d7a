CONSTANTS
  MaxRecords = 3
  Syncers = {s1, s2}
  Compressors = {c1, c2}
  PerMinute = 1
  PerHour = 1
  BatchSize = 2
  MinuteOf <- MCMinuteOf
  HourOf <- MCHourOf
  MaxFaults = 0
SPECIFICATION Spec
SYMMETRY MCSymmetry
INVARIANT TypeOK
INVARIANT CountedOnce
INVARIANT Conserved
INVARIANT CountedExactly
CHECK_DEADLOCK FALSE
