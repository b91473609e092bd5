--------------------------- MODULE CounterRollup ---------------------------
(***************************************************************************)
(* The hour and day rollups of one cumulative counter of one host: how     *)
(* samples reach a bucket, where a bucket finds the value that precedes    *)
(* it, how increments and resets are told apart, and what remains of all   *)
(* that once retention has deleted the raw samples.                        *)
(*                                                                         *)
(* A sample is named by its time: one run at a time observes a host.  An   *)
(* unreadable sample comes from a run that could not read the boot id;     *)
(* it has no value and its run no boot.  A counter beyond MaxInt leaves a  *)
(* sample without a value of a run with one.  Compaction takes the oldest  *)
(* bucket first, one transaction each; HistoryRollup has the tick around   *)
(* it.  A definition named X_Y is X with the defect Y; nothing uses it.    *)
(***************************************************************************)
EXTENDS Integers, FiniteSets, FiniteSetsExt

CONSTANTS
  HourLength, DayLength,             \* widths of the buckets, in ticks
  RawRetention, HourRetention, DayRetention,   \* in ticks, whole days
  MaxDelay,      \* between a sample's time and its commit
  MaxInt,        \* i64::MAX
  Instants,                          \* when a session may end
  MaxClock, MaxSamples, MaxBoot      \* bounds on the run

\* A transaction is shorter than an hour; retention is whole days, and
\* rollups outlive the raw samples.
Lengths ==
  /\ {HourLength, DayLength, RawRetention, HourRetention, DayRetention} \subseteq Nat \ {0}
  /\ MaxDelay \in Nat /\ MaxDelay < HourLength /\ DayLength % HourLength = 0
  /\ \A r \in {RawRetention, HourRetention, DayRetention} : r % DayLength = 0
  /\ RawRetention <= HourRetention /\ HourRetention <= DayRetention
ASSUME LengthAssumption == Lengths
ASSUME BoundAssumption ==
  {MaxInt, MaxClock, MaxSamples} \subseteq Nat /\ MaxBoot \in Nat \ {0}

VARIABLES
  clock,
  device,     \* the boot and the value (u64) the counter had at the last sample
  inflight,   \* samples stamped and not yet committed, at most one
  raw,        \* metric_samples
  rollups,    \* metric_rollup_partitions with their metric_rollups row
  history     \* history: every sample ever committed

counterVars == <<clock, device, inflight, raw, rollups, history>>

-----------------------------------------------------------------------------

None       == -1      \* SQL NULL
NoBoot     == 0
Resolution == {"hour", "day"}
Value      == 0..MaxInt
Reading    == 0..(MaxInt + 1)   \* what the device counts: MaxInt + 1 is no i64
Width(res) == IF res = "hour" THEN HourLength ELSE DayLength

Sample == [at : 0..MaxClock, boot : 0..MaxBoot, value : Value \cup {None}]

CounterTypeOK ==
  /\ clock \in 0..MaxClock
  /\ device \in [boot : 1..MaxBoot, value : Reading]
  /\ inflight \subseteq Sample /\ Cardinality(inflight) <= 1
  /\ raw \subseteq history /\ history \subseteq Sample
  /\ rollups \subseteq [res : Resolution, start : 0..MaxClock, inputs : SUBSET history,
                        last : Value \cup {None}, lastAt : 0..MaxClock, lastBoot : 0..MaxBoot,
                        delta : Value \cup {None}, resets : Nat,
                        sealed : BOOLEAN, pruned : BOOLEAN]

CounterInit ==
  /\ clock = 0
  /\ device = [boot |-> 1, value |-> 0]
  /\ inflight = {} /\ raw = {} /\ history = {}
  /\ rollups = {}

-----------------------------------------------------------------------------
(* Aggregation *)

Observed(S) == {s \in S : s.value # None}
Newest(S)   == CHOOSE s \in S : \A t \in S : t.at <= s.at
Bucket(S, res, start) == {s \in S : start <= s.at /\ s.at < start + Width(res)}

\* A boot id that is not known does not count as a change.
IsReset(before, s) ==
  \/ before.boot # NoBoot /\ s.boot # NoBoot /\ before.boot # s.boot
  \/ s.value < before.value

\* delta.checked_add(increment)
Fits(sum) == sum <= MaxInt

\* One observed sample after another, beginning with the boundary if any.
Accumulate(total, s) ==
  LET sum == total.delta + s.value - total.before.value
      next == [total EXCEPT !.before = s, !.some = TRUE]
  IN  CASE ~total.some                -> next
        [] total.some /\ IsReset(total.before, s) -> [next EXCEPT !.resets = @ + 1]
        [] total.some /\ ~IsReset(total.before, s) ->
             IF Fits(sum) THEN [next EXCEPT !.delta = sum, !.moves = @ + 1]
                          ELSE [next EXCEPT !.overflow = TRUE]

NoSample == [at |-> 0, boot |-> NoBoot, value |-> 0]

\* The loop over the samples of X in the order of their times: what it has got
\* to after those of T.
Totals(X, start) ==
  LET total[T \in SUBSET X] ==
        IF T = {} THEN start ELSE Accumulate(total[T \ {Newest(T)}], Newest(T))
  IN  total

FirstTotal(boundary) ==
  [some |-> boundary # {},
   before |-> IF boundary = {} THEN NoSample ELSE CHOOSE b \in boundary : TRUE,
   delta |-> 0, moves |-> 0, resets |-> 0, overflow |-> FALSE]

\* The delta and the resets of a bucket's samples after a boundary.
AggregateCounter(S, boundary) ==
  LET X   == Observed(S)
      end == Totals(X, FirstTotal(boundary))[X]
  IN  IF X = {} THEN [delta |-> None, resets |-> 0]
      ELSE [delta |-> IF end.overflow \/ end.moves = 0 THEN None ELSE end.delta,
            resets |-> end.resets]

\* What may precede a bucket: raw samples, and rollups with the run of their
\* last sample; the latest wins, raw before rollup.
Anchors(before) ==
  {[at |-> s.at, boot |-> s.boot, value |-> s.value, rank |-> 0]
     : s \in {t \in Observed(raw) : t.at < before}}
  \cup
  {[at |-> r.lastAt, boot |-> r.lastBoot, value |-> r.last, rank |-> 1]
     : r \in {t \in rollups : ~t.pruned /\ t.last # None /\ t.lastAt < before}}

LoadCounterBoundary(before) ==
  IF Anchors(before) = {} THEN {}
  ELSE LET latest == {a \in Anchors(before) : \A b \in Anchors(before) : b.at <= a.at}
           best == CHOOSE a \in latest : \A b \in latest : a.rank <= b.rank
       IN  {[at |-> best.at, boot |-> best.boot, value |-> best.value]}

-----------------------------------------------------------------------------
(* Partitions *)

Floor(t, res) == (t \div Width(res)) * Width(res)
Of(res, start) == {r \in rollups : r.res = res /\ r.start = start}

\* The digest of a partition tells its samples from any others.
SameInput(r, S) == r.inputs = S

\* INSERT ... ON CONFLICT(host_id, ..., resolution, bucket_start_epoch_ms) DO UPDATE
Upsert(r) == (rollups \ Of(r.res, r.start)) \cup {r}

\* Closed buckets with raw samples that have no partition, or a complete one
\* of other samples.
Candidates(res) ==
  {b \in {Floor(s.at, res) : s \in {t \in raw : t.at < Floor(clock, res)}} :
     \A r \in Of(res, b) : ~r.sealed /\ ~SameInput(r, Bucket(raw, res, b))}

NewRollup(res, start) ==
  LET S == Bucket(raw, res, start)
      counter == AggregateCounter(S, LoadCounterBoundary(start))
  IN  [res |-> res, start |-> start, inputs |-> S,
       last |-> IF Observed(S) = {} THEN None ELSE Newest(Observed(S)).value,
       lastAt |-> Newest(S).at, lastBoot |-> Newest(S).boot,
       delta |-> counter.delta, resets |-> counter.resets,
       sealed |-> FALSE, pruned |-> FALSE]

-----------------------------------------------------------------------------
(* Actions *)

ClockTick ==
  /\ clock < MaxClock
  /\ \A s \in inflight : clock + 1 - s.at <= MaxDelay
  /\ clock' = clock + 1
  /\ UNCHANGED <<device, inflight, raw, rollups, history>>

\* A counter that cannot be trusted, or does not fit an INTEGER, has no value.
Counter(value, readable) == IF readable /\ value \in Value THEN value ELSE None

SampleOf(boot, value, readable) ==
  [at |-> clock, boot |-> IF readable THEN boot ELSE NoBoot, value |-> Counter(value, readable)]

\* A session ends.  The counter has grown, or begun anew after a reboot.
Observe(boot, value, readable) ==
  /\ inflight = {} /\ clock \in Instants /\ Cardinality(history) < MaxSamples
  /\ \A s \in history : s.at < clock
  /\ \/ boot = device.boot /\ value >= device.value
     \/ boot = device.boot + 1
  /\ device' = [boot |-> boot, value |-> value]
  /\ inflight' = {SampleOf(boot, value, readable)}
  /\ UNCHANGED <<clock, raw, rollups, history>>

Commit ==
  /\ inflight # {}
  /\ raw' = raw \cup inflight
  /\ history' = history \cup inflight
  /\ inflight' = {}
  /\ UNCHANGED <<clock, device, rollups>>

Compact(res) ==
  /\ Candidates(res) # {}
  /\ rollups' = Upsert(NewRollup(res, Min(Candidates(res))))
  /\ UNCHANGED <<clock, device, inflight, raw, history>>

Cutoff(retention) == Floor(clock - retention, "day")

\* Seal what is compacted and old, delete the raw samples below it, then
\* the rows of hours a day still covers, then the rows of days.
Seal(r) ==
  [r EXCEPT !.sealed = @ \/ (/\ r.start + Width(r.res) <= Cutoff(RawRetention)
                             /\ r.inputs = Bucket(raw, r.res, r.start))]

Deletable(sealed) ==
  {s \in raw : /\ s.at < Cutoff(RawRetention)
               /\ \A res \in Resolution : \E r \in sealed :
                    /\ r.res = res /\ r.start = Floor(s.at, res)
                    /\ r.sealed /\ ~r.pruned}

PruneHour(r, sealed, left) ==
  /\ r.res = "hour" /\ r.sealed
  /\ r.start + HourLength <= Cutoff(HourRetention)
  /\ Bucket(left, "hour", r.start) = {}
  /\ \E d \in sealed : d.res = "day" /\ d.start = Floor(r.start, "day") /\ ~d.pruned

PruneDay(r, left) ==
  /\ r.res = "day" /\ r.sealed
  /\ r.start + DayLength <= Cutoff(DayRetention)
  /\ Bucket(left, "day", r.start) = {}

Backlog_Ignored == FALSE
Backlog == \E res \in Resolution : Candidates(res) # {}

EnforceRetention ==
  /\ ~Backlog
  /\ clock >= RawRetention
  /\ LET sealed == {Seal(r) : r \in rollups}
         left == raw \ Deletable(sealed)
     IN  /\ raw' = left
         /\ rollups' = {[r EXCEPT !.pruned = @ \/ PruneHour(r, sealed, left)
                                                \/ PruneDay(r, left)] : r \in sealed}
  /\ UNCHANGED <<clock, device, inflight, history>>

CounterNext ==
  \/ ClockTick
  \/ \E boot \in 1..MaxBoot, value \in Reading, readable \in BOOLEAN :
       Observe(boot, value, readable)
  \/ Commit
  \/ \E res \in Resolution : Compact(res)
  \/ EnforceRetention

CounterSpec == CounterInit /\ [][CounterNext]_counterVars

-----------------------------------------------------------------------------
(* Properties *)

\* Two samples of S with none between them.
Successive(S) ==
  {e \in S \X S : /\ e[1].at < e[2].at
                  /\ \A s \in S : s.at <= e[1].at \/ e[2].at <= s.at}

\* What a rollup accounts for.
Pairs(r) == {e \in Successive(Observed(history)) : e[2] \in r.inputs}

Rebooted(e)   == e[1].boot # e[2].boot
Increase(e)   == e[2].value - e[1].value
Growing(e)    == ~Rebooted(e) /\ Increase(e) >= 0
Growth(E)     == {e \in E : Growing(e)}
\* Each increment of the counter is one element.
Increments(E) == UNION {{e} \X (1..Increase(e)) : e \in E}

\* A reboot the value does not show, with an unreadable sample before it.
Hidden(e) ==
  /\ Rebooted(e) /\ Increase(e) >= 0
  /\ \E s \in history : s.value = None /\ e[1].at < s.at /\ s.at < e[2].at

\* The day of the first sample may be pruned before the bucket of the second
\* is complete.
Forgotten(r, e) ==
  Floor(e[1].at, "day") + DayLength <= Floor(r.lastAt + MaxDelay - DayRetention, "day")

\* Whatever has been deleted, recompacted or committed late, a rollup counts
\* exactly the increments and resets up to each of its observed samples from
\* the observed one before, which may lie before the bucket; excepted are a
\* silence longer than the retention of days, and a reboot that hides behind
\* a sample without a value: a rollup keeps the boot of its last sample, which
\* need not be the one that holds its last value.
RollupsExact ==
  \A r \in rollups :
    (\A e \in Pairs(r) : ~Hidden(e) /\ ~Forgotten(r, e)) =>
      LET grown == Growth(Pairs(r))
          sum   == Cardinality(Increments(grown))
      IN  /\ r.resets = Cardinality(Pairs(r) \ grown)
          /\ r.delta = IF grown = {} \/ sum > MaxInt THEN None ELSE sum
=============================================================================
