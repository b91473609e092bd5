-------------------------- MODULE MCCounterRollup --------------------------
(* Hours of two ticks, days of two hours, raw samples and hours kept for one *)
(* day, days for two.  A counter that may begin anew once, between samples at *)
(* both ends of a day, of successive days, and across an empty one.           *)
EXTENDS CounterRollup
=============================================================================
