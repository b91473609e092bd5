\* One permit, no faults but process death; liveness under LiveSpec.
CONSTANTS
  h1 = h1
  h2 = h2
  m1 = m1
  m2 = m2
  s1 = s1
  d1 = d1
  del1 = del1
  Scheduler = Scheduler
  Host = {h1, h2}
  ManualRun = {m1}
  ScheduledRun = {s1}
  DiscoveryRun = {d1}
  HostOf <- MCHostOfLive
  Deleter = {del1}
  Scope <- MCScope
  MaxConcurrency = 1
  MaxRestarts = 1
  Fault = {}
SPECIFICATION LiveSpec
INVARIANTS
  ActiveRunOwned
PROPERTIES
  RunsEnd
  DeletionEnds
  DrainEnds
CHECK_DEADLOCK FALSE
