\* Two racing updates over eight instants.
CONSTANTS
  u1 = u1
  u2 = u2
  Interval = {2, 3}
  Jitter = {0, 1}
  Update = {u1, u2}
  MaxTime = 8
SPECIFICATION Spec
SYMMETRY Updates
INVARIANTS
  SlotHasOneVersion
  RunsAnswerExpectedSlots
  MissedSlotsAccounted
PROPERTIES
  CatchUpIsOneRun
CHECK_DEADLOCK FALSE
