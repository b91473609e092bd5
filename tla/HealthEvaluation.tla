-------------------------- MODULE HealthEvaluation --------------------------
(***************************************************************************)
(* The health of one host: the versions of its policy, the monitor runs    *)
(* that are pinned to them, the receipt each run leaves when it ends, and   *)
(* what is read from the receipts: the current health and the health bands.*)
(*                                                                         *)
(* A condition of a policy looks at one metric of a run.  Its status is    *)
(* debounced: it depends on the receipts before, as far as they follow     *)
(* each other without a gap.  A writer takes the time of its receipt       *)
(* before its transaction, and a claim that skips an occupied host takes   *)
(* the time of its tick, so receipts may be committed out of order.        *)
(* Queued and running are one state here: Observation has the difference.  *)
(*                                                                         *)
(* Time is a counter; 0 stands for an absent time.  A definition named X_Y *)
(* is X with the defect Y; nothing here uses it.                           *)
(***************************************************************************)
EXTENDS Naturals, Sequences, FiniteSets, FiniteSetsExt, SequencesExt

CONSTANTS
  Run,           \* rows of monitor_runs
  Condition,     \* condition keys of the policies
  Required,      \* those whose requirement is "required"
  Kind,          \* the metric a condition looks at
  Config,        \* policies a client may PUT
  Sample,        \* what a session may observe: a reading for each condition
  StaleAfter,    \* stale_after_seconds
  Interval,      \* the interval of the host's schedule
  Width,         \* the width of a health band
  MaxPolicies,   \* bound on the versions of the policy
  MaxTime        \* bound on the clock

\* The value of a metric against the thresholds of the policy, from below the
\* recovery threshold up (for memory, from above it down); "none" is a value that
\* was not observed.  The second sample a rule needs is the window of a CPU
\* reading, the total of the memory, the available bytes of a filesystem.
Value   == {"none", "low", "mid", "warn", "crit"}
Second  == {"good", "bad", "none"}
Reading == [value : Value, second : Second]

\* validate: an enabled policy has a required condition.
ASSUME ConditionAssumption ==
  /\ Required \subseteq Condition /\ Required # {}
  /\ Kind \in [Condition -> {"cpu", "memory", "load", "filesystem"}]
\* bytes: the policy has a limit for the available bytes of filesystems.
ASSUME ConfigAssumption ==
  Config \subseteq [enabled : BOOLEAN, bytes : BOOLEAN, enter : Nat, recover : Nat]
ASSUME SampleAssumption == Sample \subseteq [Condition -> Reading]
ASSUME TimeAssumption ==
  /\ StaleAfter \in Nat \ {0} /\ Interval \in Nat \ {0} /\ Width \in Nat \ {0}
  /\ MaxPolicies \in Nat /\ MaxTime \in Nat

VARIABLES
  now,        \* the wall clock
  policies,   \* health_policy_versions, by revision; the last one is current
  run,        \* monitor_runs; admitted is the time of an active one's admission
  receipts,   \* health_evaluations, by the revision of their policy, 0 without one,
              \* ordered by evaluated_at and evaluation_id
  due         \* next_due_at of the schedule

vars == <<now, policies, run, receipts, due>>

-----------------------------------------------------------------------------
Terminal == {"observed", "failed", "interrupted", "skipped_overlap"}
Status   == {"ok", "warning", "critical", "unknown"}
Health   == {"healthy", "degraded", "unhealthy", "unknown"}

Unseen   == [c \in Condition |-> [value |-> "none", second |-> "none"]]
NoRun    == [state |-> "none", trigger |-> "manual", slot |-> 0, missed |-> 0, policy |-> 0,
             admitted |-> 0]

\* The policies that are not refused: their thresholds part the values into the
\* bands of Value, and streaks are not longer than what an evaluation reads back.
MaxStreak     == 10
Valid(config) == {config.enter, config.recover} \subseteq 1..MaxStreak
Policy        == {config \in Config : Valid(config)}

Evaluation == [run : Run, at : 1..MaxTime, until : Nat, health : Health,
               condition : [Condition -> [status : Status, candidate : Status, value : Value]]]

TypeOK ==
  /\ now \in 1..MaxTime
  /\ policies \in Seq(Policy) /\ Len(policies) <= MaxPolicies
  /\ run \in [Run -> [state : {"none", "active"} \cup Terminal,
                      trigger : {"manual", "scheduled", "catch_up"},
                      slot : Nat, missed : Nat, policy : Nat, admitted : 0..MaxTime]]
  /\ receipts \in [0..MaxPolicies -> Seq(Evaluation)]
  /\ due \in Nat

Init ==
  /\ now = 1
  /\ policies = <<>>
  /\ run = [r \in Run |-> NoRun]
  /\ receipts = [v \in 0..MaxPolicies |-> <<>>]
  /\ due = 1

-----------------------------------------------------------------------------
(* Thresholds *)

OfValue(value) ==
  CASE value = "none" -> "unknown"
    [] value = "crit" -> "critical"
    [] value = "warn" -> "warning"
    [] OTHER          -> "ok"

\* A busy percentage over too short a window says nothing.
CpuBusy(reading) ==
  IF reading.second = "good" THEN OfValue(reading.value) ELSE "unknown"

\* A ratio needs both samples, and a total above zero.
MemoryAvailable(reading) ==
  IF reading.second = "good" THEN OfValue(reading.value) ELSE "unknown"

NormalizedLoad(reading) == OfValue(reading.value)

\* With a limit for the available bytes, being below it is critical whatever the
\* ratio, and not to know them is unknown.
Filesystem(p, reading) ==
  CASE reading.value = "none" \/ (p.bytes /\ reading.second = "none") -> "unknown"
    [] reading.value # "none" /\ p.bytes /\ reading.second = "bad"    -> "critical"
    [] OTHER -> OfValue(reading.value)

Candidate(p, c, reading) ==
  CASE Kind[c] = "cpu"        -> CpuBusy(reading)
    [] Kind[c] = "memory"     -> MemoryAvailable(reading)
    [] Kind[c] = "load"       -> NormalizedLoad(reading)
    [] Kind[c] = "filesystem" -> Filesystem(p, reading)

\* What the recovery rule says of a value alone, as of those in older receipts.
ValueRecovered(value) == value = "low"

Recovered(p, c, reading) ==
  /\ ValueRecovered(reading.value)
  /\ Kind[c] = "filesystem" /\ p.bytes => reading.second = "good"

Severity(status) == CASE status = "critical" -> 2 [] status = "warning" -> 1 [] OTHER -> 0

-----------------------------------------------------------------------------
(* Debounce *)

\* The receipts of a version that precede an observation at a time, newest
\* first, up to the first that was no longer valid when the next was made.
History_Valid(v, at) == Reverse(SelectSeq(receipts[v], LAMBDA e : e.until > 0))
History(v, at) ==
  LET rows    == Reverse(receipts[v])
      next(i) == IF i = 1 THEN at ELSE rows[i - 1].at
      first   == {i \in 1..Len(rows) : rows[i].until <= next(i)}
  IN  IF first = {} THEN rows ELSE SubSeq(rows, 1, Min(first) - 1)

\* count_consecutive and count_recovery: the receipts from the newest on that
\* hold what is counted, an unknown candidate ending them, and the present one.
Streak(history, c, holding) ==
  LET breaks == {i \in 1..Len(history) :
                   i \notin holding \/ history[i].condition[c].candidate = "unknown"}
  IN  1 + (IF breaks = {} THEN Len(history) ELSE Min(breaks) - 1)

Calling(history, c, severity) ==
  {i \in 1..Len(history) : Severity(history[i].condition[c].candidate) >= severity}

Recovering(history, c) ==
  {i \in 1..Len(history) : ValueRecovered(history[i].condition[c].value)}

Raised(p, c, candidate, history) ==
  LET Called(severity) == Streak(history, c, Calling(history, c, severity)) >= p.enter IN
  IF Called(Severity(candidate)) THEN candidate ELSE IF Called(1) THEN "warning" ELSE "unknown"

Held(p, c, reading, history) ==
  LET before == history[1].condition[c].status IN
  CASE Recovered(p, c, reading) ->
         IF Streak(history, c, Recovering(history, c)) >= p.recover THEN "ok" ELSE before
    [] before = "warning" /\ Candidate(p, c, reading) = "critical"
         /\ Streak(history, c, Calling(history, c, 2)) >= p.enter -> "critical"
    [] OTHER -> before

\* debounced_status: a run that caught up starts afresh.
Debounced(p, c, reading, history, missed) ==
  LET candidate == Candidate(p, c, reading) IN
  CASE candidate = "unknown" -> "unknown"
    [] candidate # "unknown" /\ missed > 0 -> IF candidate = "ok" THEN "ok" ELSE "unknown"
    [] OTHER ->
         IF history # <<>> /\ history[1].condition[c].status \in {"warning", "critical"}
         THEN Held(p, c, reading, history)
         ELSE IF candidate = "ok" THEN "ok" ELSE Raised(p, c, candidate, history)

-----------------------------------------------------------------------------
(* Receipts *)

\* The status of the host, worst first; an unknown required condition counts
\* less than a critical one and more than a warning.
HealthOf(condition) ==
  LET Has(cs, statuses) == \E c \in cs : condition[c].status \in statuses IN
  CASE Has(Required, {"critical"}) -> "unhealthy"
    [] ~Has(Required, {"critical"}) /\ Has(Required, {"unknown"}) -> "unknown"
    [] ~Has(Required, {"critical", "unknown"})
         /\ Has(Condition, {"warning", "critical"}) -> "degraded"
    [] OTHER -> "healthy"

\* The policy a run is evaluated with is the one it was admitted under.
Pinned_Current(row) == Len(policies)
Pinned(row)         == row.policy

\* evaluate_run_tx: a run that observed nothing, or has no enabled policy,
\* leaves an unknown receipt and is valid at no time.
Conditions(p, seen, history, missed) ==
  [c \in Condition |->
    LET candidate == Candidate(p, c, seen[c]) IN
    [candidate |-> candidate, status |-> Debounced(p, c, seen[c], history, missed),
     value |-> IF candidate = "unknown" THEN "none" ELSE seen[c].value]]

DisabledConditions ==
  [c \in Condition |-> [candidate |-> "unknown", status |-> "unknown", value |-> "none"]]

Receipt(r, row, end, at, sample) ==
  LET v         == Pinned(row)
      observed  == end = "observed"
      enabled   == v > 0 /\ policies[v].enabled
      seen      == IF observed THEN sample ELSE Unseen
      condition == IF enabled THEN Conditions(policies[v], seen, History(v, at), row.missed)
                   ELSE DisabledConditions
  IN  [run |-> r, at |-> at, until |-> IF observed THEN at + StaleAfter ELSE 0,
       condition |-> condition,
       health |-> IF enabled THEN HealthOf(condition) ELSE "unknown"]

\* Receipts of one millisecond are ordered by their random ids.
Record(v, e) ==
  LET rows == receipts[v] IN
  \E i \in 0..Len(rows) :
    /\ \A j \in 1..Len(rows) : IF j <= i THEN rows[j].at <= e.at ELSE rows[j].at >= e.at
    /\ receipts' = [receipts EXCEPT ![v] = InsertAt(rows, i + 1, e)]

Evaluate(r, row, end, at, sample) == Record(Pinned(row), Receipt(r, row, end, at, sample))

Occupied == \E r \in Run : run[r].state = "active"

-----------------------------------------------------------------------------
(* Actions *)

Clock ==
  /\ now < MaxTime
  /\ now' = now + 1
  /\ UNCHANGED <<policies, run, receipts, due>>

\* If-Match is compared, and an equal policy recognized, inside the
\* transaction: a stale or repeated PUT changes nothing.
PutHealthPolicy(config) ==
  /\ Valid(config)
  /\ Len(policies) < MaxPolicies
  /\ policies # <<>> => Last(policies) # config
  /\ policies' = Append(policies, config)
  /\ UNCHANGED <<now, run, receipts, due>>

CreateMonitorRun(r) ==
  /\ run[r].state = "none" /\ ~Occupied
  /\ run' = [run EXCEPT ![r] = [state |-> "active", trigger |-> "manual", slot |-> 0, missed |-> 0,
                                policy |-> Len(policies), admitted |-> now]]
  /\ UNCHANGED <<now, policies, receipts, due>>

\* The slots the claim of a tick passes over; the run answers the last one not
\* after the tick.
Missed(tick) == (tick - due) \div Interval

SkipReceipt(r, row, tick) == Evaluate(r, row, "skipped_overlap", tick, Unseen)

\* A tick may be some time ago when its claim is committed.  A discovery may
\* occupy the host as well as a run.
Claim(r, tick, discovery) ==
  /\ run[r].state = "none"
  /\ due <= tick /\ tick <= now
  /\ LET slot == due + Missed(tick) * Interval
         skip == Occupied \/ discovery
         row  == [state |-> IF skip THEN "skipped_overlap" ELSE "active",
                  trigger |-> IF Missed(tick) > 0 THEN "catch_up" ELSE "scheduled",
                  slot |-> slot, missed |-> Missed(tick), policy |-> Len(policies),
                  admitted |-> IF skip THEN 0 ELSE now]
     IN  /\ run' = [run EXCEPT ![r] = row]
         /\ due' = slot + Interval
         /\ IF skip THEN SkipReceipt(r, row, tick) ELSE UNCHANGED receipts
  /\ UNCHANGED <<now, policies>>

Ended(row, end) ==
  [state |-> end, trigger |-> row.trigger, slot |-> row.slot, missed |-> row.missed,
   policy |-> row.policy, admitted |-> 0]

\* persist_observation, persist_failure, interrupt_queued_monitor_run: the
\* time was taken before the transaction.
Finish(r, end, at, sample) ==
  /\ run[r].state = "active"
  /\ run[r].admitted <= at /\ at <= now
  /\ run' = [run EXCEPT ![r] = Ended(@, end)]
  /\ Evaluate(r, run[r], end, at, sample)
  /\ UNCHANGED <<now, policies, due>>

RecoverReceipt_None(r) == UNCHANGED receipts
RecoverReceipt(r)      == Evaluate(r, run[r], "interrupted", now, Unseen)

\* The process died, and the next start ends the run it left behind; a host has
\* one at most.
Recover(r) ==
  /\ run[r].state = "active"
  /\ run' = [run EXCEPT ![r] = Ended(@, "interrupted")]
  /\ RecoverReceipt(r)
  /\ UNCHANGED <<now, policies, due>>

Next ==
  \/ Clock
  \/ \E config \in Config : PutHealthPolicy(config)
  \/ \E r \in Run :
       \/ CreateMonitorRun(r) \/ Recover(r)
       \/ \E tick \in 1..MaxTime, discovery \in BOOLEAN : Claim(r, tick, discovery)
       \/ \E at \in 1..MaxTime :
            \/ \E sample \in Sample : Finish(r, "observed", at, sample)
            \/ \E end \in {"failed", "interrupted"} : Finish(r, end, at, Unseen)

Spec == Init /\ [][Next]_vars

-----------------------------------------------------------------------------
(* What is read *)

\* A receipt speaks for the present as long as its observation is not stale.
Shown(e) == IF e.until > now THEN e.health ELSE "unknown"

\* current_health: the last receipt under the current policy.
CurrentHealth ==
  LET v    == Len(policies)
      rows == receipts[v]
  IN  CASE v = 0 \/ rows = <<>> -> "unknown"
        [] v > 0 /\ rows # <<>> ->
             IF policies[v].enabled THEN Shown(Last(rows)) ELSE "unknown"

\* A run that catches up is late and answers no slot of a band.
Late_Never(row) == FALSE
Late(row)       == row.trigger = "catch_up" \/ row.missed > 0

Receipts == UNION {Range(receipts[v]) : v \in 0..MaxPolicies}

\* The schedule has one version, open from 1 on; a bucket expects its slots there.
OnGrid(t)            == t >= 1 /\ (t - 1) % Interval = 0
Expected(start, end) == {t \in start..(end - 1) : OnGrid(t)}

\* The window ends at a multiple of Width, the present or the first behind it, and
\* receipts are read up to its end.  It begins not after the slots of its bands,
\* and so not after their receipts.
Read(e) == e.at < now \/ now % Width # 0

\* health_window, one bucket of it, at the present.
Band(start) ==
  LET end      == IF start + Width < now THEN start + Width ELSE now
      expected == Expected(start, end)
      onTime   == {e \in Receipts : /\ Read(e)
                                    /\ run[e.run].trigger # "manual"
                                    /\ ~Late(run[e.run])
                                    /\ run[e.run].slot \in start..(end - 1)}
      slots    == {run[e.run].slot : e \in onTime}
      count(h) == Cardinality({e \in onTime : e.health = h})
      gap      == Cardinality(expected) - Cardinality(slots)
  IN  [complete |-> slots \subseteq expected, expected |-> expected, gap |-> gap,
       reason |-> CASE expected = {}           -> "no_schedule"
                    [] gap > 0                 -> "coverage_gap"
                    [] gap = 0 /\ expected # {} ->
                         IF count("unknown") > 0 THEN "unknown_evaluation"
                         ELSE IF count("unhealthy") > 0 THEN "critical"
                         ELSE IF count("degraded") > 0 THEN "warning" ELSE "ok"]

-----------------------------------------------------------------------------
(* Properties *)

\* A run has one receipt once it has ended, however it ended, and none before;
\* the receipt is of the policy that was current when the run was admitted.
OneReceipt ==
  \A r \in Run, v \in 0..MaxPolicies :
    Cardinality({i \in 1..Len(receipts[v]) : receipts[v][i].run = r})
      = (IF run[r].state \in Terminal /\ run[r].policy = v THEN 1 ELSE 0)

\* A host is shown healthy only on the word of a run that was admitted under
\* the policy in force, saw every required metric, has not expired, and was
\* followed by no other receipt under that policy.
HealthyIsCurrent ==
  CurrentHealth = "healthy" =>
    \E i \in 1..Len(receipts[Len(policies)]) :
      LET rows == receipts[Len(policies)]
          e    == rows[i]
      IN  /\ run[e.run].state = "observed"
          /\ run[e.run].policy = Len(policies)
          /\ e.at <= now /\ now < e.at + StaleAfter
          /\ \A c \in Required : e.condition[c].value \notin {"none", "crit"}
          /\ \A j \in 1..Len(rows) : rows[j].at <= e.at /\ j <= i

\* A band is green only if every slot due in it was answered on time by a run
\* that observed the host; the slots a catch-up passed over stay gaps.  A receipt
\* of this very instant may yet be missing where the window ends now.
GreenBandHidesNothing ==
  \A k \in 0..(MaxTime \div Width) :
    LET band == Band(k * Width)
        answered == {t \in band.expected :
                       \E r \in Run : /\ run[r].slot = t /\ run[r].missed = 0
                                      /\ run[r].trigger = "scheduled"
                                      /\ run[r].state \in Terminal}
    IN  /\ band.complete
        /\ band.gap >= Cardinality(band.expected \ answered)
        /\ now % Width # 0 => band.gap = Cardinality(band.expected \ answered)
        /\ band.reason = "ok" =>
             \A t \in band.expected :
               \E r \in Run : run[r].slot = t /\ run[r].state = "observed"

\* The observation was still valid when the next was made.
StillValid(rows, i) == rows[i].until > rows[i + 1].at

\* The n receipts at the end of rows are each valid when the next is made, and
\* satisfy a predicate.
Successive(rows, n, P(_)) ==
  /\ Len(rows) >= n
  /\ \A i \in (Len(rows) - n + 1)..Len(rows) : P(rows[i]) /\ (i < Len(rows) => StillValid(rows, i))

\* The status of a condition in the receipt before the last.
Before(rows, c) ==
  IF Len(rows) > 1 /\ StillValid(rows, Len(rows) - 1) THEN rows[Len(rows) - 1].condition[c].status
  ELSE "unknown"

\* Debounce: an alarm is raised, or made worse, by enter_count observations in
\* succession that call for it, of which each is valid when the next is made, and
\* never by a run that found slots passed over.  It is released by recover_count
\* such observations below the recovery threshold, by a run that found slots
\* passed over, or when the last observation expires; until then it holds.  Slots
\* passed over before an older observation do not part those on their two sides
\* (previous_conditions), although docs/14 says that a gap interrupts a streak.
AlarmsAreDebounced ==
  [][\A v \in 1..Len(policies) : policies[v].enabled =>
       \A e \in Range(receipts'[v]) \ Range(receipts[v]), c \in Condition :
         LET rows   == Append(receipts[v], e)
             was    == Severity(Before(rows, c))
             is     == Severity(e.condition[c].status)
             Calls(f) == f.condition[c].candidate # "unknown"
                           /\ Severity(f.condition[c].candidate) >= is
             Normal(f) == f.condition[c].candidate # "unknown"
                           /\ ValueRecovered(f.condition[c].value)
         IN  /\ is > was => Successive(rows, policies[v].enter, Calls) /\ run[e.run].missed = 0
             /\ is < was /\ e.condition[c].candidate # "unknown" /\ run[e.run].missed = 0 =>
                  /\ e.condition[c].status = "ok"
                  /\ Successive(rows, policies[v].recover, Normal)]_vars
=============================================================================
