------------------------------ MODULE HostSlot ------------------------------
(***************************************************************************)
(* What the observation subsystem promises about one managed host, with    *)
(* no scheduler, permits or fences in sight: a host has one observation    *)
(* slot, an SSH session is only ever opened by the run that occupies the   *)
(* slot, and the slot is not given away while that session is open.  Only  *)
(* the death of the process closes a session without its run.              *)
(***************************************************************************)

CONSTANTS Host, Run, HostOf

VARIABLES slot,     \* the runs that occupy the slot of their host
          open      \* the runs with an SSH session open

vars == <<slot, open>>

Init == slot = {} /\ open = {}

Take(r) ==
  /\ \A q \in slot : HostOf[q] # HostOf[r]
  /\ slot' = slot \cup {r}
  /\ UNCHANGED open

Open(r) ==
  /\ r \in slot \ open
  /\ open' = open \cup {r}
  /\ UNCHANGED slot

Close(r) ==
  /\ r \in open
  /\ open' = open \ {r}
  /\ UNCHANGED slot

\* Several slots are vacated at once by startup recovery and by a deletion.
Free(S) ==
  /\ S \cap open = {}
  /\ slot' = slot \ S
  /\ UNCHANGED open

Crash ==
  /\ open' = {}
  /\ UNCHANGED slot

Next ==
  \/ \E r \in Run : Take(r) \/ Open(r) \/ Close(r)
  \/ \E S \in SUBSET slot : Free(S)
  \/ Crash

Spec == Init /\ [][Next]_vars
=============================================================================
