--------------------------- MODULE HistoryRollup ---------------------------
(***************************************************************************)
(* The maintenance of the metric history of one host: the tick of the      *)
(* compactor with its receipts, the hour and day partitions it writes, the *)
(* retention that deletes raw samples and rollup rows, and what a failing  *)
(* statement, a stop, a crash and the deletion of the host do to them.     *)
(*                                                                         *)
(* A sample is committed by a worker while the compactor is anywhere in    *)
(* its tick.  Which values a rollup holds is the matter of CounterRollup;  *)
(* here a partition is the set of samples it has counted.  Rows of samples *)
(* never change, so a set of them stands for its count and digest.         *)
(* A definition named X_Y is X with the defect Y; nothing here uses it.    *)
(***************************************************************************)
EXTENDS Integers, FiniteSets, FiniteSetsExt

CONSTANTS
  Sample, NonObserved,                 \* the samples; those without a value
  HourLength, DayLength,               \* widths of the buckets, in ticks
  ObservedRetention, NonObservedRetention, HourRetention, DayRetention,
  PartitionsPerTick, DeleteBatch,      \* LIMITs of the statements
  Instants,                            \* when a session may end
  MaxDelay,                            \* between the end of a session and its commit
  MaxClock, MaxFaults, MaxRestarts     \* bounds on the run

\* HOUR_MS and DAY_MS.
ASSUME WidthAssumption ==
  HourLength \in Nat \ {0} /\ DayLength \in Nat \ {0} /\ DayLength % HourLength = 0
\* The CHECKs of monitoring_history_maintenance.
ASSUME RetentionAssumption ==
  /\ {ObservedRetention, NonObservedRetention, HourRetention, DayRetention} \subseteq Nat
  /\ ObservedRetention > 0
  /\ \A r \in {ObservedRetention, NonObservedRetention, HourRetention, DayRetention} :
       r % DayLength = 0
  /\ ObservedRetention <= NonObservedRetention /\ NonObservedRetention <= HourRetention
  /\ HourRetention <= DayRetention
ASSUME SampleAssumption == NonObserved \subseteq Sample /\ IsFiniteSet(Sample)
ASSUME BoundAssumption == MaxClock \in Nat /\ MaxFaults \in Nat /\ MaxRestarts \in Nat

VARIABLES
  clock,
  sample,       \* metric_samples, with those still in the hands of a worker
  partition,    \* metric_rollup_partitions
  run,          \* the state of the latest row of monitoring_compaction_runs
  maintenance,  \* the state in monitoring_history_maintenance
  compactor,    \* the compactor task
  deletion,     \* the deletion of the host
  backup,       \* what its verified backup holds
  life,         \* of the process
  faults, restarts

vars == <<clock, sample, partition, run, maintenance, compactor, deletion, backup,
          life, faults, restarts>>
stored == <<sample, partition>>
bounds == <<faults, restarts>>

-----------------------------------------------------------------------------

Resolution == {"hour", "day"}
Width(res) == IF res = "hour" THEN HourLength ELSE DayLength
Time       == 0..MaxClock

Partition == [res : Resolution, start : Time, inputs : SUBSET Sample,
              state : {"complete", "sealed"}, sealedAt : Time, pruned : BOOLEAN]

\* Where the tick is: waiting for the admission lock, then its statements;
\* mark_failed is failing .. repairing.
Working == {"begun", "selecting", "compacting", "backlog", "retaining", "counting",
            "finishing", "failing", "closing", "fallback", "repairing"}

TypeOK ==
  /\ clock \in Time
  /\ sample \in [Sample -> [state : {"none", "inflight", "raw", "deleted", "erased", "lost"},
                            at : Time, created : Time]]
  /\ partition \subseteq Partition
  /\ \A p, q \in partition : p.res = q.res /\ p.start = q.start => p = q
  /\ \A p \in partition : p.inputs # {} /\ (p.pruned => p.state = "sealed")
  /\ run \in {"none", "running", "succeeded", "failed", "interrupted"}
  /\ maintenance \in {"idle", "running", "succeeded", "failed"}
  /\ compactor \in [pc : {"idle", "waiting"} \cup Working, at : Time, res : Resolution,
                    batch : SUBSET (Time \X SUBSET Sample), now : Time, failed : BOOLEAN]
  /\ deletion \in {"none", "fenced", "done"}
  /\ life \in {"up", "stopping", "down", "repairing"}
  /\ faults \in 0..MaxFaults /\ restarts \in 0..MaxRestarts

Idle == [pc |-> "idle", at |-> 0, res |-> "hour", batch |-> {}, now |-> 0, failed |-> FALSE]

Init ==
  /\ clock = 0
  /\ sample = [s \in Sample |-> [state |-> "none", at |-> 0, created |-> 0]]
  /\ partition = {}
  /\ run = "none" /\ maintenance = "idle"
  /\ compactor = Idle
  /\ deletion = "none" /\ backup = <<>>
  /\ life = "up" /\ faults = 0 /\ restarts = 0

-----------------------------------------------------------------------------
(* Buckets *)

Floor(t, res)      == (t \div Width(res)) * Width(res)
Raw                == {s \in Sample : sample[s].state = "raw"}
In(S, res, start)  == {s \in S : start <= sample[s].at /\ sample[s].at < start + Width(res)}
Of(res, start)     == {p \in partition : p.res = res /\ p.start = start}

\* Closed buckets whose raw samples no partition has counted, oldest first.
Pending_Missing(res) ==
  {b \in {Floor(sample[s].at, res) : s \in {r \in Raw : sample[r].at < Floor(compactor.at, res)}} :
     Of(res, b) = {}}
Pending(res) ==
  {b \in {Floor(sample[s].at, res) : s \in {r \in Raw : sample[r].at < Floor(compactor.at, res)}} :
     \A p \in Of(res, b) : p.state = "complete" /\ p.inputs # In(Raw, res, b)}

First(S, limit) == {b \in S : Cardinality({c \in S : c < b}) < limit}

Candidates(res) == {<<b, In(Raw, res, b)>> : b \in First(Pending(res), PartitionsPerTick)}

Cutoff(retention) == Floor(compactor.at - retention, "day")

-----------------------------------------------------------------------------
(* Workers and time *)

\* A worker is suspended no longer than MaxDelay.
Tick ==
  /\ clock < MaxClock
  /\ \A s \in Sample : sample[s].state = "inflight" => clock + 1 - sample[s].at <= MaxDelay
  /\ clock' = clock + 1
  /\ UNCHANGED <<stored, run, maintenance, compactor, deletion, backup, life, bounds>>

\* The session of a run ends; its samples carry that time.
Observe(s) ==
  /\ life = "up" /\ deletion = "none" /\ clock \in Instants
  /\ sample[s].state = "none"
  /\ sample' = [sample EXCEPT ![s] = [@ EXCEPT !.state = "inflight", !.at = clock]]
  /\ UNCHANGED <<clock, partition, run, maintenance, compactor, deletion, backup, life, bounds>>

\* created_at is read while the transaction holds the write lock.
Persist(s) ==
  /\ life \in {"up", "stopping"} /\ sample[s].state = "inflight"
  /\ sample' = [sample EXCEPT ![s] = [@ EXCEPT !.state = "raw", !.created = clock]]
  /\ UNCHANGED <<clock, partition, run, maintenance, compactor, deletion, backup, life, bounds>>

-----------------------------------------------------------------------------
(* The tick of the compactor *)

Goto(pc) == compactor' = [compactor EXCEPT !.pc = pc]

\* The statement in hand fails: its transaction changes nothing.
Fault ==
  /\ faults < MaxFaults
  /\ faults' = faults + 1

Rest == <<clock, deletion, backup, life, restarts>>

Start ==
  /\ life = "up" /\ compactor.pc = "idle"
  /\ compactor' = [Idle EXCEPT !.pc = "waiting", !.at = clock]
  /\ UNCHANGED <<clock, stored, run, maintenance, deletion, backup, life, bounds>>

\* The read guard is held until the tick ends.
Admitted_Always == TRUE
Admitted == deletion # "fenced"

\* repair_orphaned_maintenance
Repaired == IF maintenance = "running" /\ run # "running" THEN "failed" ELSE maintenance

\* A stop makes the tick end; a running row makes it AlreadyRunning.
Enter ==
  /\ life \in {"up", "stopping"} /\ compactor.pc = "waiting" /\ Admitted
  /\ IF life = "stopping" THEN compactor' = Idle /\ UNCHANGED <<run, maintenance>>
     ELSE /\ maintenance' = Repaired
          /\ IF run = "running" THEN compactor' = Idle /\ UNCHANGED run
                                ELSE Goto("begun") /\ run' = "running"
  /\ UNCHANGED <<Rest, stored, faults>>

EnterError ==
  /\ compactor.pc = "waiting" /\ life = "up" /\ Admitted
  /\ Fault
  /\ maintenance' \in {maintenance, Repaired}
  /\ compactor' = Idle
  /\ UNCHANGED <<Rest, stored, run>>

MarkRunning ==
  /\ compactor.pc = "begun"
  /\ maintenance' = "running"
  /\ compactor' = [compactor EXCEPT !.pc = "selecting"]
  /\ UNCHANGED <<Rest, stored, run, faults>>

\* load_partition_candidates, for the hours and then for the days.
Select ==
  /\ compactor.pc = "selecting"
  /\ compactor' = [compactor EXCEPT !.pc = "compacting", !.batch = Candidates(compactor.res)]
  /\ UNCHANGED <<Rest, stored, run, maintenance, faults>>

\* compact_partition: nothing if the samples have changed since the selection.
Unchanged(res, c) == Cardinality(In(Raw, res, c[1])) = Cardinality(c[2])

\* INSERT ... ON CONFLICT(host_id, resolution, bucket_start_epoch_ms) DO UPDATE
Upsert(p) == (partition \ Of(p.res, p.start)) \cup {p}

CompactPartition ==
  /\ compactor.pc = "compacting" /\ life # "stopping" /\ compactor.batch # {}
  /\ \E c \in compactor.batch :
       LET res == compactor.res IN
       /\ \A o \in compactor.batch : c[1] <= o[1]
       /\ compactor' = [compactor EXCEPT !.batch = @ \ {c}]
       /\ partition' = IF Unchanged(res, c)
                       THEN Upsert([res |-> res, start |-> c[1], inputs |-> In(Raw, res, c[1]),
                                    state |-> "complete", sealedAt |-> 0, pruned |-> FALSE])
                       ELSE partition
  /\ UNCHANGED <<Rest, sample, run, maintenance, faults>>

\* A stop drops the rest of the batch, and the days.
NextResolution ==
  /\ compactor.pc = "compacting" /\ (compactor.batch = {} \/ life = "stopping")
  /\ compactor' = IF compactor.res = "hour" /\ life # "stopping"
                  THEN [compactor EXCEPT !.pc = "selecting", !.res = "day", !.batch = {}]
                  ELSE [compactor EXCEPT !.pc = "backlog", !.batch = {}]
  /\ UNCHANGED <<Rest, stored, run, maintenance, faults>>

\* Retention waits until nothing closed is pending.  sealed_at is stamped here.
CheckBacklog ==
  /\ compactor.pc = "backlog"
  /\ compactor' = IF (\A res \in Resolution : Pending(res) = {}) /\ life # "stopping"
                  THEN [compactor EXCEPT !.pc = "retaining", !.now = clock]
                  ELSE [compactor EXCEPT !.pc = "counting"]
  /\ UNCHANGED <<Rest, stored, run, maintenance, faults>>

\* Partitions that are old and still count exactly their raw samples.
Sealed(p) ==
  IF /\ p.state = "complete" /\ p.start + Width(p.res) <= Cutoff(ObservedRetention)
     /\ Cardinality(p.inputs) = Cardinality(In(Raw, p.res, p.start))
  THEN [p EXCEPT !.state = "sealed", !.sealedAt = compactor.now]
  ELSE p

Covers_Late(p, s) == p.state = "sealed" /\ ~p.pruned
Covers(p, s)      == p.state = "sealed" /\ ~p.pruned /\ sample[s].created < p.sealedAt

Deletable(S, retention, sealed) ==
  {s \in S \cap Raw : /\ sample[s].at < Cutoff(retention)
                      /\ \A res \in Resolution : \E p \in sealed :
                           p.res = res /\ p.start = Floor(sample[s].at, res) /\ Covers(p, s)}

\* The LIMIT oldest, ties in any order.
Batches(S, limit) ==
  {T \in SUBSET S : /\ Cardinality(T) = IF Cardinality(S) < limit THEN Cardinality(S) ELSE limit
                    /\ \A s \in T, o \in S \ T : sample[s].at <= sample[o].at}

Empty_Ignored(p, left) == TRUE
Empty(p, left) == In(left, p.res, p.start) = {}

Prunable(res, retention, sealed, left) ==
  {p \in sealed : /\ p.res = res /\ p.state = "sealed" /\ ~p.pruned
                  /\ p.start + Width(res) <= Cutoff(retention)
                  /\ Empty(p, left)}

Oldest(S) == {p \in S : Cardinality({q \in S : q.start < p.start}) < PartitionsPerTick}
Prune(S, all) == {IF p \in S THEN [p EXCEPT !.pruned = TRUE] ELSE p : p \in all}

\* The hours a day still covers, then the days.
Pruned(sealed, left) ==
  LET hours == {p \in Prunable("hour", HourRetention, sealed, left) :
                  \E d \in sealed : d.res = "day" /\ d.start = Floor(p.start, "day") /\ ~d.pruned}
      days  == Prunable("day", DayRetention, sealed, left)
  IN  Prune(Oldest(hours) \cup Oldest(days), sealed)

EnforceRetention ==
  /\ compactor.pc = "retaining"
  /\ LET sealed == {Sealed(p) : p \in partition}
         observed == Deletable(Sample \ NonObserved, ObservedRetention, sealed)
         others == Deletable(NonObserved, NonObservedRetention, sealed)
     IN  \E S \in Batches(observed, DeleteBatch) :
         \E T \in Batches(others, DeleteBatch - Cardinality(S)) :
           /\ sample' = [s \in Sample |-> IF s \in S \cup T
                                          THEN [sample[s] EXCEPT !.state = "deleted"]
                                          ELSE sample[s]]
           /\ partition' = Pruned(sealed, Raw \ (S \cup T))
  /\ Goto("counting")
  /\ UNCHANGED <<Rest, run, maintenance, faults>>

Late(s) == \E p \in partition :
  /\ p.state = "sealed" /\ p.start = Floor(sample[s].at, p.res)
  /\ sample[s].created >= p.sealedAt

CountLate ==
  /\ compactor.pc = "counting"
  /\ Goto(IF \E s \in Raw : Late(s) THEN "failing" ELSE "finishing")
  /\ UNCHANGED <<Rest, stored, run, maintenance, faults>>

MarkSucceeded ==
  /\ compactor.pc = "finishing"
  /\ run' = "succeeded" /\ maintenance' = "succeeded"
  /\ compactor' = Idle
  /\ UNCHANGED <<Rest, stored, faults>>

WorkError ==
  /\ compactor.pc \in {"begun", "selecting", "compacting", "backlog", "retaining", "counting",
                       "finishing"}
  /\ Fault
  /\ Goto("failing")
  /\ UNCHANGED <<Rest, stored, run, maintenance>>

\* mark_failed: close the run, then the maintenance row; if either fails,
\* once more the run and, if that succeeds, the orphaned maintenance row.
CloseRun ==
  /\ compactor.pc = "failing"
  /\ \/ run' = "failed" /\ Goto("closing") /\ UNCHANGED faults
     \/ Fault /\ compactor' = [compactor EXCEPT !.pc = "closing", !.failed = TRUE] /\ UNCHANGED run
  /\ UNCHANGED <<Rest, stored, maintenance>>

CloseMaintenance ==
  /\ compactor.pc = "closing"
  /\ \/ /\ maintenance' = "failed" /\ UNCHANGED faults
        /\ IF compactor.failed THEN Goto("fallback") ELSE compactor' = Idle
     \/ Fault /\ Goto("fallback") /\ UNCHANGED maintenance
  /\ UNCHANGED <<Rest, stored, run>>

Fallback_Missing ==
  /\ compactor.pc = "fallback"
  /\ compactor' = Idle
  /\ UNCHANGED <<Rest, stored, run, maintenance, faults>>
Fallback ==
  /\ compactor.pc = "fallback"
  /\ \/ /\ run' = IF run = "running" THEN "failed" ELSE run
        /\ Goto("repairing")
        /\ UNCHANGED faults
     \/ Fault /\ compactor' = Idle /\ UNCHANGED run
  /\ UNCHANGED <<Rest, stored, maintenance>>

RepairMaintenance ==
  /\ compactor.pc = "repairing"
  /\ \/ maintenance' = Repaired /\ UNCHANGED faults
     \/ Fault /\ UNCHANGED maintenance
  /\ compactor' = Idle
  /\ UNCHANGED <<Rest, stored, run>>

-----------------------------------------------------------------------------
(* The deletion of the host *)

\* Admission closed and every permit taken, so no worker holds a sample.
Fence ==
  /\ life = "up" /\ deletion = "none"
  /\ compactor.pc \notin Working
  /\ \A s \in Sample : sample[s].state # "inflight"
  /\ deletion' = "fenced"
  /\ backup' = stored
  /\ UNCHANGED <<clock, stored, run, maintenance, compactor, life, bounds>>

Cascade ==
  /\ life \in {"up", "stopping"} /\ deletion = "fenced"
  /\ sample' = [s \in Sample |-> IF sample[s].state \in {"raw", "deleted"}
                                 THEN [sample[s] EXCEPT !.state = "erased"] ELSE sample[s]]
  /\ partition' = {}
  /\ deletion' = "done" /\ backup' = <<>>
  /\ UNCHANGED <<clock, run, maintenance, compactor, life, bounds>>

-----------------------------------------------------------------------------
(* The process *)

Shutdown ==
  /\ life = "up" /\ restarts < MaxRestarts
  /\ life' = "stopping"
  /\ UNCHANGED <<clock, stored, run, maintenance, compactor, deletion, backup, bounds>>

\* The process ends, of itself once the compactor is joined, or anywhere.
Die ==
  /\ restarts < MaxRestarts
  /\ life # "down"
  /\ life' = "down" /\ restarts' = restarts + 1
  /\ compactor' = Idle
  /\ sample' = [s \in Sample |-> IF sample[s].state = "inflight"
                                 THEN [sample[s] EXCEPT !.state = "lost"] ELSE sample[s]]
  /\ deletion' = IF deletion = "fenced" THEN "none" ELSE deletion
  /\ backup' = <<>>
  /\ UNCHANGED <<clock, partition, run, maintenance, faults>>

\* recover_interrupted_compactions is two statements.
RecoverRuns ==
  /\ life = "down"
  /\ run' = IF run = "running" THEN "interrupted" ELSE run
  /\ life' = "repairing"
  /\ UNCHANGED <<clock, stored, maintenance, compactor, deletion, backup, bounds>>

RecoverMaintenance ==
  /\ life = "repairing"
  /\ maintenance' = Repaired
  /\ life' = "up"
  /\ UNCHANGED <<clock, stored, run, compactor, deletion, backup, bounds>>

-----------------------------------------------------------------------------

Compactor ==
  \/ Start \/ Enter \/ EnterError \/ MarkRunning \/ Select \/ CompactPartition
  \/ NextResolution \/ CheckBacklog \/ EnforceRetention \/ CountLate \/ MarkSucceeded
  \/ WorkError \/ CloseRun \/ CloseMaintenance \/ Fallback \/ RepairMaintenance

Next ==
  \/ Tick
  \/ \E s \in Sample : Observe(s) \/ Persist(s)
  \/ Compactor
  \/ Fence \/ Cascade
  \/ Shutdown \/ Die \/ RecoverRuns \/ RecoverMaintenance

Spec == Init /\ [][Next]_vars

\* The compactor ticks, the clock runs, workers and a deletion end.
Fairness ==
  /\ WF_vars(Compactor) /\ WF_vars(Tick) /\ WF_vars(Cascade)
  /\ \A s \in Sample : WF_vars(Persist(s))

LiveSpec == Spec /\ Fairness

-----------------------------------------------------------------------------
(* Properties *)

Expired(s, retention) == sample[s].at < Floor(clock - retention, "day")
RawRetention(s) == IF s \in NonObserved THEN NonObservedRetention ELSE ObservedRetention
RollupRetention(res) == IF res = "hour" THEN HourRetention ELSE DayRetention
Counted(s, res) == \E p \in partition : p.res = res /\ s \in p.inputs /\ ~p.pruned

\* "Raw samples remain the source of truth until a complete rollup partition
\* is committed": a committed sample is raw until it is old enough to go, and
\* from then on counted at each resolution as long as that is kept, whatever
\* fails and however late it was committed.
RetentionHonoured ==
  \A s \in Sample :
    /\ sample[s].state = "deleted" => Expired(s, RawRetention(s))
    /\ sample[s].state \in {"raw", "deleted"} =>
         \A res \in Resolution :
           s \in Raw \/ Counted(s, res) \/ Expired(s, RollupRetention(res))

\* The comment on hour_retention_days: the rows of a partition are not pruned
\* while a raw sample it has counted is waiting to be deleted, for which they
\* are the proof.
RawNotStranded ==
  \A p \in partition : p.pruned => p.inputs \cap Raw = {}

\* The read guard "makes the backup a complete boundary for both raw and
\* compacted history": nothing of it changes between backup and cascade.
BackupIsBoundary == deletion = "fenced" => backup = stored

\* The receipt of a tick that is over stays open until the next start.  Where no
\* sample is late it takes three failing statements: one of the tick's own work,
\* the one that closes the receipt and its fallback.
Stranded ==
  life = "up" /\ run = "running" /\ compactor.pc \in {"idle", "waiting"} /\ faults >= 3

\* A sample whose day closes is counted at both resolutions in the end, though
\* each tick takes only the oldest partitions, samples keep coming and statements
\* fail; unless the process ends or the compactor is stranded.
EventuallyCompacted ==
  \A s \in Sample :
    life = "up" /\ s \in Raw /\ Floor(MaxClock, "day") > sample[s].at
      ~> \/ life # "up" \/ Stranded \/ sample[s].state = "erased"
         \/ \A res \in Resolution : \E p \in partition : p.res = res /\ s \in p.inputs

\* "The next tick can still recover": whichever statements fail, those of
\* mark_failed and of its fallback too, the compactor succeeds again as long as
\* the process lives, unless it is stranded; and after the next start as well.
CompactorRecovers == []<>(run = "succeeded" \/ Stranded \/ life # "up")
=============================================================================
