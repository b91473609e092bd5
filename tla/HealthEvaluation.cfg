\* Three runs, two versions of the policy.
CONSTANTS
  disk = disk
  load = load
  r1 = r1
  r2 = r2
  r3 = r3
  Run = {r1, r2, r3}
  Condition = {disk, load}
  Required = {disk}
  Kind <- Kinds
  Config <- Policies
  Sample <- Samples
  StaleAfter = 2
  Interval = 1
  Width = 3
  MaxPolicies = 2
  MaxTime = 3
SPECIFICATION Spec
SYMMETRY Runs
INVARIANTS
  OneReceipt
  HealthyIsCurrent
  GreenBandHidesNothing
PROPERTIES
  AlarmsAreDebounced
CHECK_DEADLOCK FALSE
