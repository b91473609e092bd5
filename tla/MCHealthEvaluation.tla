------------------------- MODULE MCHealthEvaluation -------------------------
(* A required and an optional condition, of which one leaves its normal range *)
(* at a time.                                                                 *)
EXTENDS HealthEvaluation, TLC

CONSTANTS disk, load, r1, r2, r3

Runs == Permutations(Run)

Kinds == [c \in {disk, load} |-> IF c = disk THEN "filesystem" ELSE "load"]

Sees(c, value, second) ==
  [d \in {disk, load} |-> IF d = c THEN [value |-> value, second |-> second]
                         ELSE [value |-> "low", second |-> "good"]]

Samples ==
  {Sees(disk, value, "good") : value \in {"low", "mid", "crit"}}
  \cup {Sees(disk, "low", second) : second \in {"bad", "none"}}
  \cup {Sees(load, value, "good") : value \in {"warn", "crit"}}

SlowAlarm   == [enabled |-> TRUE, bytes |-> TRUE, enter |-> 2, recover |-> 1]
SlowRelease == [enabled |-> TRUE, bytes |-> FALSE, enter |-> 1, recover |-> 2]
Disabled    == [enabled |-> FALSE, bytes |-> TRUE, enter |-> 2, recover |-> 2]

Sluggish    == [enabled |-> TRUE, bytes |-> TRUE, enter |-> 11, recover |-> 1]

Policies    == {SlowAlarm, SlowRelease, Disabled, Sluggish}
=============================================================================
