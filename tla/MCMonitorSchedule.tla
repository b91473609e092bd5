------------------------- MODULE MCMonitorSchedule -------------------------
(* Two updates that may keep or change the grid, intervals of two and three. *)
EXTENDS MonitorSchedule, TLC

CONSTANTS u1, u2

Updates == Permutations({u1, u2})
=============================================================================
