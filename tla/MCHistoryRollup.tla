-------------------------- MODULE MCHistoryRollup --------------------------
(* Days of two hours; raw samples are kept for a day, those without a value  *)
(* and hours for two, days for three.                                        *)
EXTENDS HistoryRollup, TLC

CONSTANTS s1, s2, n1
=============================================================================
