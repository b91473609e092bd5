\* Prompt workers; up to three failing statements, a stop or a crash; fair scheduling.
CONSTANTS
  s1 = s1
  s2 = s2
  n1 = n1
  Sample = {s1, s2}
  NonObserved = {}
  HourLength = 1
  DayLength = 2
  ObservedRetention = 2
  NonObservedRetention = 4
  HourRetention = 4
  DayRetention = 6
  PartitionsPerTick = 1
  DeleteBatch = 1
  Instants = {1, 2}
  MaxDelay = 1
  MaxClock = 4
  MaxFaults = 3
  MaxRestarts = 1
SPECIFICATION LiveSpec
PROPERTIES
  EventuallyCompacted
  CompactorRecovers
CHECK_DEADLOCK FALSE
