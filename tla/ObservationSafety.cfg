\* Two permits, every fault, one restart.
CONSTANTS
  h1 = h1
  h2 = h2
  m1 = m1
  m2 = m2
  s1 = s1
  d1 = d1
  del1 = del1
  Scheduler = Scheduler
  Host = {h1, h2}
  ManualRun = {m1, m2}
  ScheduledRun = {s1}
  DiscoveryRun = {d1}
  HostOf <- MCHostOf
  Deleter = {del1}
  Scope <- MCScope
  MaxConcurrency = 2
  MaxRestarts = 1
  Fault = {"storage", "disconnect"}
SPECIFICATION Spec
INVARIANTS
  TypeOK
  PermitsConserved
  QuiescentUnderBarrier
  FrozenSnapshot
  DrainedWhenStopped
PROPERTIES
  TerminalStable
  ImplementsHostSlot
CHECK_DEADLOCK FALSE
