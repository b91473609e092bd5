\* Four samples of a counter up to 2 over three days, with one reboot.
CONSTANTS
  HourLength = 2
  DayLength = 4
  RawRetention = 4
  HourRetention = 4
  DayRetention = 8
  MaxDelay = 1
  MaxInt = 2
  Instants = {3, 4, 5, 7, 9, 11}
  MaxClock = 12
  MaxSamples = 4
  MaxBoot = 2
SPECIFICATION CounterSpec
INVARIANTS
  RollupsExact
CHECK_DEADLOCK FALSE
