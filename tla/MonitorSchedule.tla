-------------------------- MODULE MonitorSchedule --------------------------
(***************************************************************************)
(* The interval schedule of one host: the persisted due time, the ledger   *)
(* of schedule versions whose due grids say which observations were        *)
(* expected, the scheduler's claims, and the PATCHes that race with them.  *)
(*                                                                         *)
(* The scheduler reads due rows at the start of a tick and claims them     *)
(* later; a PATCH reads the schedule before its transaction.  Both compare *)
(* the revision when they write, the scheduler the due time as well.       *)
(* Which other work occupies the host, and whether a permit is to be had,  *)
(* is decided in Observation; here it is a nondeterministic input.         *)
(*                                                                         *)
(* Time is a counter; 0 stands for an absent time.  A definition named X_Y *)
(* is X with the defect Y; nothing here uses it.                           *)
(***************************************************************************)
EXTENDS Naturals

CONSTANTS
  Interval,      \* interval_seconds a client may ask for
  Jitter,        \* jitter_seconds
  Update,        \* PATCH /monitor-schedules/{id} requests
  MaxTime        \* bound on the clock

ASSUME IntervalAssumption == Interval \subseteq Nat \ {0}
ASSUME JitterAssumption   == Jitter \subseteq Nat
ASSUME TimeAssumption     == MaxTime \in Nat \ {0}

VARIABLES
  now,        \* the wall clock
  schedule,   \* the row in monitor_schedules; revision 0 before it is created
  versions,   \* monitor_schedule_versions
  runs,       \* the scheduled rows of monitor_runs
  tick,       \* the due row the scheduler holds, read at tick.at
  update      \* what each PATCH has read and asks for

vars == <<now, schedule, versions, runs, tick, update>>

-----------------------------------------------------------------------------

Never == 0
Time  == 0..MaxTime
State == {"enabled", "paused", "archived"}

\* Due times and version ends may lie beyond the bound of the clock.
TypeOK ==
  /\ now \in Time
  /\ schedule \in [revision : Nat, state : State, interval : Nat, jitter : Nat, next : Nat]
  /\ schedule.revision > 0 => (schedule.state = "enabled" <=> schedule.next # Never)
  /\ versions \subseteq [revision : Nat, state : State, interval : Nat,
                         from : Nat, until : Nat, open : BOOLEAN]
  /\ runs \subseteq [revision : Nat, slot : Nat, missed : Nat, at : Time,
                     state : {"queued", "skipped_overlap"}]
  /\ tick \in [held : BOOLEAN, at : Time, revision : Nat, next : Nat, interval : Nat]
  /\ update \in [Update -> [pc : {"idle", "loaded", "answered"}, revision : Nat, next : Nat,
                            interval : Nat, jitter : Nat, state : State]]

NoTick   == [held |-> FALSE, at |-> 0, revision |-> 0, next |-> Never, interval |-> 0]
Idle(pc) == [pc |-> pc, revision |-> 0, next |-> Never, interval |-> 0, jitter |-> 0,
             state |-> "paused"]

Init ==
  /\ now = 1
  /\ schedule = [revision |-> 0, state |-> "paused", interval |-> 0, jitter |-> 0, next |-> Never]
  /\ versions = {}
  /\ runs = {}
  /\ tick = NoTick
  /\ update = [u \in Update |-> Idle("idle")]

-----------------------------------------------------------------------------
(* The ledger *)

\* The slots a version expects before a horizon.
ExpectedSlots(v, horizon) ==
  LET end == IF v.until = Never \/ horizon < v.until THEN horizon ELSE v.until
  IN  IF v.state # "enabled" THEN {}
      ELSE {t \in v.from..end : t < end /\ (t - v.from) % v.interval = 0}

NewVersion(row) ==
  [revision |-> row.revision, state |-> row.state, interval |-> row.interval,
   from |-> row.next, until |-> Never, open |-> TRUE]

\* Where the due grid of the version being replaced ends: a pending slot goes
\* to the new version unless the update starts a new grid.
DueUntil_Now(before, persisted, regrid) == now
DueUntil(before, persisted, regrid) ==
  IF regrid
  THEN IF before.next > now THEN before.next ELSE now
  ELSE IF persisted.next = Never THEN now ELSE persisted.next

Close(v, until) ==
  [v EXCEPT !.open = FALSE, !.until = IF v.state = "enabled" THEN until ELSE Never]

-----------------------------------------------------------------------------
(* Actions *)

Tick ==
  /\ now < MaxTime
  /\ now' = now + 1
  /\ UNCHANGED <<schedule, versions, runs, tick, update>>

\* An offset is a hash of the schedule id and its revision.
Create(interval, jitter, offset, state) ==
  /\ schedule.revision = 0
  /\ jitter < interval /\ offset <= jitter
  /\ schedule' = [revision |-> 1, state |-> state, interval |-> interval, jitter |-> jitter,
                  next |-> IF state = "enabled" THEN now + interval + offset ELSE Never]
  /\ versions' = {NewVersion(schedule')}
  /\ UNCHANGED <<now, runs, tick, update>>

\* Checks If-Match and the archived state outside the transaction.
LoadUpdate(u, interval, jitter, state) ==
  /\ update[u].pc = "idle"
  /\ schedule.revision > 0 /\ schedule.state # "archived"
  /\ jitter < interval
  /\ update' = [update EXCEPT ![u] =
       [pc |-> "loaded", revision |-> schedule.revision, next |-> schedule.next,
        interval |-> interval, jitter |-> jitter, state |-> state]]
  /\ UNCHANGED <<now, schedule, versions, runs, tick>>

\* The due time an update that keeps the grid leaves in the row: the row's
\* own, which a claim may have moved on since the update loaded it.
KeptDue_Loaded(u) == update[u].next
KeptDue(u)        == schedule.next

NextDue(u, regrid, offset) ==
  IF ~regrid THEN KeptDue(u)
  ELSE IF update[u].state = "enabled" THEN now + update[u].interval + offset ELSE Never

Regrid(u) ==
  \/ update[u].interval # schedule.interval
  \/ update[u].jitter # schedule.jitter
  \/ update[u].state # schedule.state

\* One transaction, a writer from its first statement on.
CommitUpdate(u, offset) ==
  /\ update[u].pc = "loaded"
  /\ schedule.revision = update[u].revision
  /\ offset <= update[u].jitter
  /\ schedule' = [revision |-> schedule.revision + 1, state |-> update[u].state,
                  interval |-> update[u].interval, jitter |-> update[u].jitter,
                  next |-> NextDue(u, Regrid(u), offset)]
  /\ LET old   == CHOOSE v \in versions : v.open
         until == DueUntil(schedule, schedule', Regrid(u))
     IN  versions' = (versions \ {old}) \cup {Close(old, until), NewVersion(schedule')}
  /\ update' = [update EXCEPT ![u] = Idle("answered")]
  /\ UNCHANGED <<now, runs, tick>>

RefuseUpdate(u) ==
  /\ update[u].pc = "loaded"
  /\ schedule.revision # update[u].revision
  /\ update' = [update EXCEPT ![u] = Idle("answered")]
  /\ UNCHANGED <<now, schedule, versions, runs, tick>>

\* tick_once_inner selects the enabled schedules that are due.
Scan ==
  /\ ~tick.held
  /\ schedule.revision > 0 /\ schedule.state = "enabled" /\ schedule.next <= now
  /\ tick' = [held |-> TRUE, at |-> now, revision |-> schedule.revision,
              next |-> schedule.next, interval |-> schedule.interval]
  /\ UNCHANGED <<now, schedule, versions, runs, update>>

StillDue_Revision == schedule.next = tick.next
StillDue ==
  /\ schedule.state = "enabled"
  /\ schedule.revision = tick.revision
  /\ schedule.next = tick.next

Missed_None == 0
Missed      == (tick.at - tick.next) \div tick.interval

\* The latest slot not after the tick becomes the one run of all the slots
\* since the last claim; an occupied host gets a terminal skipped run.
Claim(state) ==
  /\ tick.held /\ StillDue
  /\ LET slot == tick.next + Missed * tick.interval IN
     /\ \A r \in runs : r.slot # slot
     /\ runs' = runs \cup {[revision |-> tick.revision, slot |-> slot, missed |-> Missed,
                            at |-> tick.at, state |-> state]}
     /\ schedule' = [schedule EXCEPT !.next = slot + tick.interval]
  /\ tick' = NoTick
  /\ UNCHANGED <<now, versions, update>>

\* The compare-and-set fails, the host is idle but no permit is to be had, the
\* tick ends early, or the process dies: the slot stays due.
Forgo ==
  /\ tick.held
  /\ tick' = NoTick
  /\ UNCHANGED <<now, schedule, versions, runs, update>>

Next ==
  \/ Tick
  \/ \E i \in Interval, j \in Jitter, s \in {"enabled", "paused"}, o \in 0..MaxTime :
       Create(i, j, o, s)
  \/ \E u \in Update :
       \/ \E i \in Interval, j \in Jitter, s \in State : LoadUpdate(u, i, j, s)
       \/ \E o \in 0..MaxTime : CommitUpdate(u, o)
       \/ RefuseUpdate(u)
  \/ Scan \/ Forgo
  \/ \E s \in {"queued", "skipped_overlap"} : Claim(s)

Spec == Init /\ [][Next]_vars

-----------------------------------------------------------------------------
(* Properties *)

\* No due slot is expected by two versions: however updates and claims
\* interleave, a slot pending at an update belongs to one side of it only.
SlotHasOneVersion ==
  \A v, w \in versions :
    v # w => ExpectedSlots(v, MaxTime) \cap ExpectedSlots(w, MaxTime) = {}

\* Every scheduled run, queued or skipped, answers a slot the ledger expects
\* of the version the run is pinned to, at the time the run was materialized.
RunsAnswerExpectedSlots ==
  \A r \in runs : \E v \in versions :
    v.revision = r.revision /\ r.slot \in ExpectedSlots(v, r.slot + 1)

RunsOf(v) == {r \in runs : r.revision = v.revision}

\* The slots a run answers: its own and the ones its missed_due_count counts.
Answered(r, v) == {r.slot - k * v.interval : k \in 0..r.missed}

\* No slot up to the last claim of a version is forgotten, and none is counted
\* twice: each is the slot, or in the missed_due_count, of exactly one run.
MissedSlotsAccounted ==
  \A v \in versions : \A r \in RunsOf(v) :
    /\ Answered(r, v) \subseteq ExpectedSlots(v, r.slot + 1)
    /\ \A q \in RunsOf(v) : q # r => Answered(q, v) \cap Answered(r, v) = {}
    /\ \A t \in ExpectedSlots(v, r.slot + 1) : \E q \in RunsOf(v) : t \in Answered(q, v)

\* A restart or a long outage is caught up with one run: a claim leaves no
\* slot behind that was already due when its tick began.
CatchUpIsOneRun ==
  [][\A r \in runs' \ runs : schedule'.next > r.at]_vars
=============================================================================
