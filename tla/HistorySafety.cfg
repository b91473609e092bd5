\* A sample with a value and one without; workers may be suspended.
CONSTANTS
  s1 = s1
  s2 = s2
  n1 = n1
  Sample = {s1, n1}
  NonObserved = {n1}
  HourLength = 1
  DayLength = 2
  ObservedRetention = 2
  NonObservedRetention = 4
  HourRetention = 4
  DayRetention = 6
  PartitionsPerTick = 1
  DeleteBatch = 1
  Instants = {1, 2}
  MaxDelay = 8
  MaxClock = 8
  MaxFaults = 1
  MaxRestarts = 1
SPECIFICATION Spec
INVARIANTS
  RetentionHonoured
  RawNotStranded
  BackupIsBoundary
CHECK_DEADLOCK FALSE
