------------------------- MODULE HistoryRollupProofs -------------------------
(***************************************************************************)
(* Proofs about HistoryRollup for any samples, widths and retentions: what *)
(* retention deletes has been counted, though samples are committed late   *)
(* and statements fail anywhere; and a deletion's backup is a boundary.    *)
(***************************************************************************)
EXTENDS HistoryRollup, FiniteSetTheorems, TLAPS

-----------------------------------------------------------------------------
(* Buckets                                                                   *)

LEMMA WidthIsPositive ==
  ASSUME NEW res
  PROVE  Width(res) \in Nat \ {0}
BY WidthAssumption DEF Width

\* An instant lies in its bucket.
LEMMA FloorBounds ==
  ASSUME NEW t \in Int, NEW res
  PROVE  /\ Floor(t, res) \in Int
         /\ Floor(t, res) <= t /\ t < Floor(t, res) + Width(res)
         /\ t >= 0 => Floor(t, res) >= 0
<1> DEFINE w == Width(res)
<1>1. w \in Nat \ {0}
  BY WidthIsPositive
<1> HIDE DEF w
<1>2. /\ t \div w \in Int
      /\ (t \div w) * w <= t /\ t < (t \div w) * w + w
  BY <1>1
<1>3. t >= 0 => (t \div w) * w >= 0
  BY <1>1
<1> QED
  BY <1>1, <1>2, <1>3 DEF Floor, w

\* Later instants lie in no earlier bucket.
LEMMA FloorMonotone ==
  ASSUME NEW t \in Int, NEW u \in Int, t <= u, NEW res
  PROVE  Floor(t, res) <= Floor(u, res)
<1> DEFINE w == Width(res)
<1>1. w \in Nat \ {0}
  BY WidthIsPositive
<1> HIDE DEF w
<1>2. (t \div w) * w <= (u \div w) * w
  BY <1>1
<1> QED
  BY <1>2 DEF Floor, w

\* An instant between the bounds of a bucket lies in it.
LEMMA FloorUnique ==
  ASSUME NEW t \in Int, NEW u \in Int, NEW res,
         Floor(t, res) <= u, u < Floor(t, res) + Width(res)
  PROVE  Floor(u, res) = Floor(t, res)
<1> DEFINE w == Width(res)
           m == t \div w
           n == u \div w
<1>1. w \in Nat \ {0}
  BY WidthIsPositive
<1> HIDE DEF w
<1>2. m \in Int /\ n \in Int /\ n * w <= u /\ u < n * w + w
  BY <1>1
<1>3. m * w <= u /\ u < m * w + w
  BY DEF Floor, w
<1> HIDE DEF m, n
<1>4. ASSUME n < m PROVE FALSE
  <2>1. n + 1 <= m
    BY <1>2, <1>4
  <2>2. (n + 1) * w <= m * w
    BY <1>1, <1>2, <2>1
  <2>3. (n + 1) * w = n * w + w
    BY <1>1, <1>2
  <2> QED
    BY <1>1, <1>2, <1>3, <2>2, <2>3
<1>5. ASSUME m < n PROVE FALSE
  <2>1. m + 1 <= n
    BY <1>2, <1>5
  <2>2. (m + 1) * w <= n * w
    BY <1>1, <1>2, <2>1
  <2>3. (m + 1) * w = m * w + w
    BY <1>1, <1>2
  <2> QED
    BY <1>1, <1>2, <1>3, <2>2, <2>3
<1>6. m = n
  BY <1>2, <1>4, <1>5
<1> QED
  BY <1>6 DEF Floor, m, n, w

-----------------------------------------------------------------------------
(* Types                                                                     *)

Entry == [state : {"none", "inflight", "raw", "deleted", "erased", "lost"},
          at : Time, created : Time]
Row == [pc : {"idle", "waiting"} \cup Working, at : Time, res : Resolution,
        batch : SUBSET (Time \X SUBSET Sample), now : Time, failed : BOOLEAN]

\* The steps of the compactor and the process that leave the history alone.
Moves ==
  \/ Start \/ Enter \/ EnterError \/ MarkRunning \/ Select \/ NextResolution \/ CheckBacklog
  \/ CountLate \/ MarkSucceeded \/ WorkError \/ CloseRun \/ CloseMaintenance \/ Fallback
  \/ RepairMaintenance \/ Shutdown \/ RecoverRuns \/ RecoverMaintenance

LEMMA MovesKeepHistory ==
  ASSUME Moves
  PROVE  UNCHANGED <<clock, sample, partition, deletion, backup>>
BY DEF Moves, Start, Enter, EnterError, MarkRunning, Select, NextResolution, CheckBacklog,
   CountLate, MarkSucceeded, WorkError, CloseRun, CloseMaintenance, Fallback,
   RepairMaintenance, Shutdown, RecoverRuns, RecoverMaintenance, Rest, stored

\* A step is one of the compactor's moves, or one of eight others.
LEMMA NextSplit ==
  ASSUME [Next]_vars
  PROVE  \/ Moves \/ UNCHANGED vars
         \/ Tick \/ (\E s \in Sample : Observe(s) \/ Persist(s))
         \/ CompactPartition \/ EnforceRetention \/ Fence \/ Cascade \/ Die
BY DEF Next, Compactor, Moves

Small == /\ run \in {"none", "running", "succeeded", "failed", "interrupted"}
         /\ maintenance \in {"idle", "running", "succeeded", "failed"}
         /\ deletion \in {"none", "fenced", "done"}
         /\ life \in {"up", "stopping", "down", "repairing"}
         /\ faults \in 0..MaxFaults /\ restarts \in 0..MaxRestarts

LEMMA SmallNext ==
  ASSUME Small, [Next]_vars
  PROVE  Small'
<1>1. CASE Moves
  BY <1>1, BoundAssumption DEF Moves, Small, Start, Enter, EnterError, MarkRunning, Select,
     NextResolution, CheckBacklog, CountLate, MarkSucceeded, WorkError, CloseRun,
     CloseMaintenance, Fallback, RepairMaintenance, Shutdown, RecoverRuns,
     RecoverMaintenance, Rest, Fault, Repaired, bounds
<1>2. CASE Tick \/ (\E s \in Sample : Observe(s) \/ Persist(s)) \/ UNCHANGED vars
  BY <1>2 DEF Small, Tick, Observe, Persist, vars, bounds
<1>3. CASE CompactPartition \/ EnforceRetention
  BY <1>3 DEF Small, CompactPartition, EnforceRetention, Rest
<1>4. CASE Fence \/ Cascade \/ Die
  BY <1>4, BoundAssumption DEF Small, Fence, Cascade, Die, bounds
<1> QED
  BY <1>1, <1>2, <1>3, <1>4, NextSplit

-----------------------------------------------------------------------------
(* What holds of the history                                                 *)

Kept == {"raw", "deleted"}
InBucket(p, s) == p.start = Floor(sample[s].at, p.res)

\* A partition that may still change counts raw samples only; one that is sealed
\* has counted all that were committed before; one that is pruned was old, and
\* nothing that it counted was still raw.
PartitionInv(p) ==
  /\ \A s \in p.inputs : sample[s].state \in Kept /\ InBucket(p, s)
  /\ p.inputs # {}
  /\ p.state = "complete" => p.inputs \subseteq Raw /\ ~p.pruned
  /\ p.state = "sealed" =>
       /\ p.sealedAt <= clock
       /\ \A s \in Sample :
            /\ sample[s].state \in Kept /\ p.start = Floor(sample[s].at, p.res)
            /\ sample[s].created < p.sealedAt
            => s \in p.inputs
  /\ p.pruned => /\ p.start + Width(p.res) <= Floor(clock - RollupRetention(p.res), "day")
                 /\ p.inputs \cap Raw = {}

\* A sample that is gone was old enough, and is in a sealed partition of each
\* resolution.
SealedWith(s, res) ==
  \E p \in partition : /\ p.res = res /\ p.start = Floor(sample[s].at, res)
                       /\ p.state = "sealed" /\ s \in p.inputs
SampleInv(s) ==
  /\ sample[s].state \in Kept => sample[s].created <= clock
  /\ sample[s].state = "deleted" => /\ Expired(s, RawRetention(s))
                                    /\ \A res \in Resolution : SealedWith(s, res)

OnePartition == \A p, q \in partition : p.res = q.res /\ p.start = q.start => p = q

\* What the compactor has selected is not sealed, as it is the one that seals.
CompactorInv ==
  /\ compactor \in Row
  /\ compactor.at <= clock /\ compactor.now <= clock
  /\ compactor.pc = "compacting" =>
       \A b \in compactor.batch :
         /\ b[2] # {}
         /\ \E t \in Time : b[1] = Floor(t, compactor.res)
         /\ \A p \in partition : p.res = compactor.res /\ p.start = b[1] => p.state = "complete"

\* While the fence is up nobody writes history.
FenceInv ==
  deletion = "fenced" => /\ backup = stored
                         /\ compactor.pc \notin Working
                         /\ \A s \in Sample : sample[s].state # "inflight"

HistoryInv ==
  /\ clock \in Time
  /\ sample \in [Sample -> Entry]
  /\ partition \subseteq Partition
  /\ OnePartition
  /\ \A p \in partition : PartitionInv(p)
  /\ \A s \in Sample : SampleInv(s)

IInv == Small /\ HistoryInv /\ CompactorInv /\ FenceInv

LEMMA InitIInv == Init => IInv
BY BoundAssumption DEF Init, IInv, Small, HistoryInv, CompactorInv, FenceInv, Idle, Row, Entry,
   Time, Resolution, OnePartition, SampleInv, Kept

\* Nothing of it depends on more than the clock, the samples and the partitions.
LEMMA HistoryStutter ==
  ASSUME HistoryInv, UNCHANGED <<clock, sample, partition>>
  PROVE  HistoryInv'
<1>1. \A p : PartitionInv(p) => PartitionInv(p)'
  BY DEF PartitionInv, InBucket, Raw
<1>2. \A s : SampleInv(s) => SampleInv(s)'
  BY DEF SampleInv, SealedWith, Expired
<1> QED
  BY <1>1, <1>2 DEF HistoryInv, OnePartition

LEMMA MovesKeepIInv ==
  ASSUME IInv, Moves
  PROVE  HistoryInv' /\ CompactorInv' /\ FenceInv'
<1>1. UNCHANGED <<clock, sample, partition, deletion, backup>>
  BY MovesKeepHistory
<1>2. clock \in Time /\ compactor \in Row /\ compactor.at <= clock /\ compactor.now <= clock
  BY DEF IInv, HistoryInv, CompactorInv
<1>3. HistoryInv'
  BY <1>1, HistoryStutter DEF IInv
<1>4. ASSUME Select
      PROVE  /\ compactor' \in Row /\ CompactorInv'
  <2>1. compactor' = [compactor EXCEPT !.pc = "compacting", !.batch = Candidates(compactor.res)]
    BY <1>4 DEF Select
  <2>2. ASSUME NEW b \in Candidates(compactor.res)
        PROVE  /\ b \in Time \X SUBSET Sample /\ b[2] # {}
               /\ \E t \in Time : b[1] = Floor(t, compactor.res)
               /\ \A p \in partition : p.res = compactor.res /\ p.start = b[1]
                                         => p.state = "complete"
    <3> DEFINE res == compactor.res
    <3>1. PICK t \in Pending(res) : b = <<t, In(Raw, res, t)>>
      BY <2>2 DEF Candidates, First
    <3>2. PICK s \in Raw : /\ t = Floor(sample[s].at, res)
                           /\ \A p \in Of(res, t) : p.state = "complete"
      BY <3>1 DEF Pending
    <3>3. s \in Sample /\ sample[s].at \in 0..MaxClock
      BY <3>2 DEF Raw, IInv, HistoryInv, Entry, Time
    <3>4. t \in Time /\ t <= sample[s].at /\ sample[s].at < t + Width(res)
      BY <3>2, <3>3, FloorBounds, BoundAssumption DEF Time
    <3>5. s \in In(Raw, res, t) /\ In(Raw, res, t) \subseteq Sample
      BY <3>2, <3>4 DEF In, Raw
    <3> QED
      BY <3>1, <3>2, <3>3, <3>4, <3>5 DEF Of, Time
  <2>3. compactor' \in Row /\ compactor'.batch = Candidates(compactor.res)
        /\ compactor'.res = compactor.res
        /\ compactor'.at = compactor.at /\ compactor'.now = compactor.now
    BY <1>2, <2>1, <2>2 DEF Row, Working
  <2> QED
    BY <1>1, <1>2, <2>2, <2>3 DEF CompactorInv
<1>5. ASSUME Moves, ~Select
      PROVE  /\ compactor' \in Row /\ compactor'.at <= clock /\ compactor'.now <= clock
             /\ compactor'.pc = "compacting" => compactor' = compactor
  <2>1. 0 \in Time /\ 0 <= clock /\ clock <= clock
    BY <1>2, BoundAssumption DEF Time
  <2>2. \/ compactor' = compactor \/ compactor' = Idle
        \/ compactor' = [Idle EXCEPT !.pc = "waiting", !.at = clock]
        \/ \E pc \in Working \ {"compacting"} : compactor' = [compactor EXCEPT !.pc = pc]
        \/ compactor' = [compactor EXCEPT !.pc = "selecting", !.res = "day", !.batch = {}]
        \/ compactor' = [compactor EXCEPT !.pc = "backlog", !.batch = {}]
        \/ compactor' = [compactor EXCEPT !.pc = "retaining", !.now = clock]
        \/ compactor' = [compactor EXCEPT !.pc = "closing", !.failed = TRUE]
    <3>1. ASSUME NEW pc \in Working, Goto(pc), pc # "compacting"
          PROVE  \E q \in Working \ {"compacting"} : compactor' = [compactor EXCEPT !.pc = q]
      BY <3>1 DEF Goto
    <3>2. {"begun", "selecting", "counting", "failing", "finishing", "closing", "fallback",
           "repairing"} \subseteq Working
      BY DEF Working
    <3>3. CASE Start \/ Enter \/ EnterError
      BY <3>1, <3>2, <3>3 DEF Start, Enter, EnterError
    <3>7. CASE MarkRunning
      BY <3>1, <3>2, <3>7 DEF MarkRunning, Goto
    <3>8. CASE NextResolution
      BY <3>8 DEF NextResolution
    <3>9. CASE CheckBacklog
      BY <3>2, <3>9 DEF CheckBacklog
    <3>4. CASE CountLate \/ MarkSucceeded \/ WorkError
      BY <3>1, <3>2, <3>4 DEF CountLate, MarkSucceeded, WorkError
    <3>5. CASE CloseRun \/ CloseMaintenance \/ Fallback \/ RepairMaintenance
      BY <3>1, <3>2, <3>5 DEF CloseRun, CloseMaintenance, Fallback, RepairMaintenance
    <3>6. CASE Shutdown \/ RecoverRuns \/ RecoverMaintenance
      BY <3>6 DEF Shutdown, RecoverRuns, RecoverMaintenance
    <3> QED
      BY <1>5, <3>3, <3>4, <3>5, <3>6, <3>7, <3>8, <3>9 DEF Moves
  <2>3. CASE compactor' = Idle
    <3>1. {} \in SUBSET (Time \X SUBSET Sample)
      OBVIOUS
    <3>2. Idle \in Row /\ Idle.at = 0 /\ Idle.now = 0 /\ Idle.pc = "idle"
      BY <2>1, <3>1 DEF Idle, Row, Resolution
    <3> QED
      BY <2>1, <2>3, <3>2
  <2>7. CASE compactor' = [Idle EXCEPT !.pc = "waiting", !.at = clock]
    <3>1. {} \in SUBSET (Time \X SUBSET Sample)
      OBVIOUS
    <3>2. /\ [Idle EXCEPT !.pc = "waiting", !.at = clock] \in Row
          /\ [Idle EXCEPT !.pc = "waiting", !.at = clock].at = clock
          /\ [Idle EXCEPT !.pc = "waiting", !.at = clock].now = 0
          /\ [Idle EXCEPT !.pc = "waiting", !.at = clock].pc = "waiting"
      BY <1>2, <2>1, <3>1 DEF Idle, Row, Resolution
    <3>3. /\ compactor' \in Row /\ compactor'.at = clock /\ compactor'.now = 0
          /\ compactor'.pc # "compacting"
      BY <2>7, <3>2
    <3> QED
      BY <2>1, <3>3
  <2>4. CASE \E pc \in Working \ {"compacting"} : compactor' = [compactor EXCEPT !.pc = pc]
    BY <1>2, <2>4 DEF Row
  <2>5. CASE \/ compactor' = [compactor EXCEPT !.pc = "selecting", !.res = "day", !.batch = {}]
             \/ compactor' = [compactor EXCEPT !.pc = "backlog", !.batch = {}]
    BY <1>2, <2>5 DEF Row, Working, Resolution
  <2>6. CASE \/ compactor' = [compactor EXCEPT !.pc = "retaining", !.now = clock]
             \/ compactor' = [compactor EXCEPT !.pc = "closing", !.failed = TRUE]
    BY <1>2, <2>1, <2>6 DEF Row, Working
  <2> QED
    BY <1>2, <2>2, <2>3, <2>4, <2>5, <2>6, <2>7
<1>6. CompactorInv'
  BY <1>1, <1>4, <1>5 DEF CompactorInv, IInv
<1>7. compactor.pc \notin Working /\ deletion = "fenced" => compactor'.pc \notin Working
  BY <1>2 DEF Moves, Start, Enter, EnterError, MarkRunning, Select,
     NextResolution, CheckBacklog, CountLate, MarkSucceeded, WorkError, CloseRun, CloseMaintenance,
     Fallback, RepairMaintenance, Shutdown, RecoverRuns, RecoverMaintenance, Goto, Idle, Row,
     Working, Admitted
<1>8. FenceInv'
  BY <1>1, <1>7 DEF FenceInv, IInv, stored
<1> QED
  BY <1>3, <1>6, <1>8

-----------------------------------------------------------------------------
(* Time and workers                                                          *)

\* What has expired stays expired.
LEMMA ExpiredLater ==
  ASSUME NEW t \in Nat, NEW u \in Nat, t <= u, NEW r \in Nat, NEW res
  PROVE  /\ Floor(t - r, res) <= Floor(u - r, res)
         /\ Floor(t - r, res) \in Int /\ Floor(u - r, res) \in Int
<1>1. t - r \in Int /\ u - r \in Int /\ t - r <= u - r
  OBVIOUS
<1> QED
  BY <1>1, FloorMonotone, FloorBounds

LEMMA RetentionsAreNat ==
  /\ \A s : RawRetention(s) \in Nat
  /\ \A res : RollupRetention(res) \in Nat
BY RetentionAssumption DEF RawRetention, RollupRetention

LEMMA TickKeepsIInv ==
  ASSUME IInv, Tick
  PROVE  HistoryInv' /\ CompactorInv' /\ FenceInv'
<1>1. /\ clock' = clock + 1 /\ clock < MaxClock
      /\ UNCHANGED <<sample, partition, compactor, deletion, backup>>
  BY DEF Tick, stored
<1>2. clock \in Nat /\ clock' \in Nat /\ clock <= clock' /\ clock' \in Time
  BY <1>1, BoundAssumption DEF IInv, HistoryInv, Time
<1>3. ASSUME NEW p \in partition PROVE PartitionInv(p)'
  <2>1. PartitionInv(p) /\ p \in Partition
    BY DEF IInv, HistoryInv
  <2>2. p.pruned => p.start + Width(p.res) <= Floor(clock' - RollupRetention(p.res), "day")
    <3> DEFINE r == RollupRetention(p.res)
    <3>1. r \in Nat /\ Width(p.res) \in Nat /\ p.start \in Nat
      BY <2>1, RetentionsAreNat, WidthIsPositive, BoundAssumption DEF Partition, Time
    <3> HIDE DEF r
    <3>2. /\ Floor(clock - r, "day") <= Floor(clock' - r, "day")
          /\ Floor(clock - r, "day") \in Int /\ Floor(clock' - r, "day") \in Int
      BY <1>1, <1>2, <3>1, ExpiredLater
    <3>3. ASSUME p.pruned PROVE p.start + Width(p.res) <= Floor(clock' - r, "day")
      <4>1. p.start + Width(p.res) <= Floor(clock - r, "day")
        BY <2>1, <3>3 DEF PartitionInv, r
      <4> QED
        BY <3>1, <3>2, <4>1
    <3> QED
      BY <3>3 DEF r
  <2>3. p.state = "sealed" => p.sealedAt <= clock'
    BY <1>1, <1>2, <2>1, BoundAssumption DEF PartitionInv, Partition, Time
  <2> QED
    BY <1>1, <2>1, <2>2, <2>3 DEF PartitionInv, InBucket, Raw
<1>4. ASSUME NEW s \in Sample PROVE SampleInv(s)'
  <2>1. SampleInv(s) /\ sample[s] \in Entry
    BY DEF IInv, HistoryInv
  <2>2. sample[s].at \in Nat /\ sample[s].created \in Nat
    BY <2>1, BoundAssumption DEF Entry, Time
  <2> DEFINE r == RawRetention(s)
  <2>3. r \in Nat
    BY RetentionsAreNat
  <2> HIDE DEF r
  <2>4. /\ Floor(clock - r, "day") <= Floor(clock' - r, "day")
        /\ Floor(clock - r, "day") \in Int /\ Floor(clock' - r, "day") \in Int
    BY <1>1, <1>2, <2>3, ExpiredLater
  <2>5. sample[s].at < Floor(clock - r, "day") => sample[s].at < Floor(clock' - r, "day")
    BY <2>2, <2>4
  <2>6. Expired(s, RawRetention(s)) => Expired(s, RawRetention(s))'
    <3>1. ASSUME Expired(s, r) PROVE sample'[s].at < Floor(clock' - r, "day")
      BY <1>1, <2>5, <3>1 DEF Expired
    <3> QED
      BY <3>1 DEF Expired, r, RawRetention
  <2>7. sample[s].created <= clock => sample[s].created <= clock'
    BY <1>1, <1>2, <2>2
  <2> QED
    BY <1>1, <2>1, <2>6, <2>7 DEF SampleInv, SealedWith
<1>5. HistoryInv'
  BY <1>1, <1>2, <1>3, <1>4 DEF IInv, HistoryInv, OnePartition
<1>6. CompactorInv'
  <2>1. compactor.at \in Nat /\ compactor.now \in Nat
    BY BoundAssumption DEF IInv, CompactorInv, Row, Time
  <2>2. compactor.at <= clock' /\ compactor.now <= clock'
    BY <1>1, <1>2, <2>1 DEF IInv, CompactorInv
  <2> QED
    BY <1>1, <2>2 DEF IInv, CompactorInv
<1>7. FenceInv'
  BY <1>1 DEF IInv, FenceInv, stored
<1> QED
  BY <1>5, <1>6, <1>7

\* A sample that is not in the history yet takes another state.
LEMMA WorkerKeepsIInv ==
  ASSUME IInv, NEW w \in Sample, Observe(w) \/ Persist(w)
  PROVE  HistoryInv' /\ CompactorInv' /\ FenceInv'
<1>1. /\ UNCHANGED <<clock, partition, compactor, deletion, backup>>
      /\ clock \in Time /\ clock \in Nat
      /\ sample[w].state \notin Kept
      /\ deletion # "fenced"
  BY BoundAssumption DEF Observe, Persist, Kept, IInv, HistoryInv, FenceInv, Time
<1>2. /\ sample' \in [Sample -> Entry]
      /\ \A s \in Sample \ {w} : sample'[s] = sample[s]
      /\ sample'[w].state \in {"inflight", "raw"}
      /\ sample'[w].state = "raw" => sample'[w].created = clock
  BY <1>1 DEF Observe, Persist, IInv, HistoryInv, Entry
<1>3. ASSUME NEW p \in partition PROVE PartitionInv(p)'
  <2>1. PartitionInv(p) /\ p \in Partition
    BY DEF IInv, HistoryInv
  <2>2. w \notin p.inputs /\ p.inputs \subseteq Sample /\ p.sealedAt \in Nat
    BY <1>1, <2>1, BoundAssumption DEF PartitionInv, Partition, Time, Kept
  <2>3. /\ p.inputs \subseteq Raw => p.inputs \subseteq Raw'
        /\ p.inputs \cap Raw = {} => p.inputs \cap Raw' = {}
    BY <1>2, <2>2 DEF Raw
  <2>4. \A s \in p.inputs : sample'[s] = sample[s]
    BY <1>2, <2>2
  <2>5. ASSUME p.state = "sealed", NEW s \in Sample, sample'[s].state \in Kept,
               p.start = Floor(sample'[s].at, p.res), sample'[s].created < p.sealedAt
        PROVE  s \in p.inputs
    <3>1. p.sealedAt <= clock
      BY <2>1, <2>5 DEF PartitionInv
    <3>2. s # w
      BY <1>1, <1>2, <2>2, <2>5, <3>1 DEF Kept
    <3> QED
      BY <1>2, <2>1, <2>5, <3>2 DEF PartitionInv
  <2> QED
    BY <1>1, <2>1, <2>3, <2>4, <2>5 DEF PartitionInv, InBucket
<1>4. ASSUME NEW s \in Sample PROVE SampleInv(s)'
  <2>1. CASE s = w
    BY <1>1, <1>2, <2>1 DEF SampleInv, Kept
  <2>2. CASE s # w
    BY <1>1, <1>2, <2>2 DEF SampleInv, SealedWith, Expired, IInv, HistoryInv
  <2> QED
    BY <2>1, <2>2
<1>5. HistoryInv'
  BY <1>1, <1>2, <1>3, <1>4 DEF IInv, HistoryInv, OnePartition
<1>6. CompactorInv' /\ FenceInv'
  BY <1>1 DEF IInv, CompactorInv, FenceInv
<1> QED
  BY <1>5, <1>6

-----------------------------------------------------------------------------
(* The partitions a tick writes                                              *)

\* A partition takes in what is raw; the one it replaces was not sealed, so no
\* sample of its bucket has been deleted.
LEMMA CompactKeepsIInv ==
  ASSUME IInv, CompactPartition
  PROVE  HistoryInv' /\ CompactorInv' /\ FenceInv'
<1> DEFINE res == compactor.res
<1>1. PICK c \in compactor.batch :
        /\ compactor' = [compactor EXCEPT !.batch = @ \ {c}]
        /\ partition' = IF Unchanged(res, c)
                        THEN Upsert([res |-> res, start |-> c[1], inputs |-> In(Raw, res, c[1]),
                                     state |-> "complete", sealedAt |-> 0, pruned |-> FALSE])
                        ELSE partition
  BY DEF CompactPartition
<1>2. /\ UNCHANGED <<clock, sample, deletion, backup>>
      /\ compactor.pc = "compacting" /\ deletion # "fenced"
  BY DEF CompactPartition, Rest, IInv, FenceInv, Working
<1>3. /\ compactor \in Row /\ c \in Time \X SUBSET Sample /\ c[2] # {}
      /\ res \in Resolution /\ \E t \in Time : c[1] = Floor(t, res)
      /\ \A p \in partition : p.res = res /\ p.start = c[1] => p.state = "complete"
  BY <1>2 DEF IInv, CompactorInv, Row
<1> DEFINE new == [res |-> res, start |-> c[1], inputs |-> In(Raw, res, c[1]),
                   state |-> "complete", sealedAt |-> 0, pruned |-> FALSE]
<1>4. CompactorInv' /\ FenceInv'
  <2>1. /\ compactor' \in Row /\ compactor'.batch \subseteq compactor.batch
        /\ compactor'.res = res /\ compactor'.pc = "compacting"
        /\ compactor'.at = compactor.at /\ compactor'.now = compactor.now
    BY <1>1, <1>2, <1>3 DEF Row
  <2>2. \A p \in partition' : p \in partition \/ p.state = "complete"
    BY <1>1 DEF Upsert
  <2> QED
    BY <1>2, <2>1, <2>2 DEF IInv, CompactorInv, FenceInv
<1>5. CASE ~Unchanged(res, c)
  BY <1>1, <1>2, <1>4, <1>5, HistoryStutter DEF IInv
<1>6. CASE Unchanged(res, c)
  <2>1. partition' = (partition \ Of(res, c[1])) \cup {new}
    BY <1>1, <1>6 DEF Upsert
  <2>2. new \in Partition /\ In(Raw, res, c[1]) \subseteq Raw
    BY <1>3, BoundAssumption DEF Partition, In, Raw, Time
  <2>3. In(Raw, res, c[1]) # {}
    <3>1. IsFiniteSet(c[2]) /\ IsFiniteSet(In(Raw, res, c[1]))
      BY <1>3, <2>2, SampleAssumption, FS_Subset DEF Raw
    <3>2. Cardinality(c[2]) # 0
      BY <1>3, <3>1, FS_EmptySet
    <3> QED
      BY <1>6, <3>2, FS_EmptySet DEF Unchanged
  <2>4. PartitionInv(new)
    <3>1. \A s \in In(Raw, res, c[1]) : sample[s].state \in Kept /\ InBucket(new, s)
      <4>1. ASSUME NEW s \in In(Raw, res, c[1]) PROVE c[1] = Floor(sample[s].at, res)
        <5>1. /\ c[1] <= sample[s].at /\ sample[s].at < c[1] + Width(res)
              /\ sample[s].at \in Int
          BY BoundAssumption DEF In, Raw, IInv, HistoryInv, Entry, Time
        <5>2. PICK t \in Time : c[1] = Floor(t, res)
          BY <1>3
        <5> QED
          BY <5>1, <5>2, FloorUnique, BoundAssumption DEF Time
      <4> QED
        BY <4>1 DEF In, Raw, Kept, InBucket
    <3> QED
      BY <2>2, <2>3, <3>1 DEF PartitionInv
  <2>5. \A p \in partition' : PartitionInv(p)
    BY <2>1, <2>4 DEF IInv, HistoryInv
  <2>6. \A p : PartitionInv(p) => PartitionInv(p)'
    BY <1>2 DEF PartitionInv, InBucket, Raw
  <2>7. OnePartition' /\ partition' \subseteq Partition
    <3>1. \A p \in partition' : \/ p = new
                                \/ p \in partition /\ ~(p.res = res /\ p.start = c[1])
      BY <2>1 DEF Of
    <3>2. new.res = res /\ new.start = c[1]
      OBVIOUS
    <3> HIDE DEF new
    <3>3. partition \subseteq Partition /\ OnePartition
      BY DEF IInv, HistoryInv
    <3>4. OnePartition'
      BY <3>1, <3>2, <3>3 DEF OnePartition
    <3> QED
      BY <2>2, <3>1, <3>3, <3>4
  <2>8. ASSUME NEW s \in Sample PROVE SampleInv(s)'
    <3>1. \A r \in Resolution : SealedWith(s, r) => SealedWith(s, r)'
      BY <1>2, <1>3, <2>1 DEF SealedWith, Of
    <3> QED
      BY <1>2, <3>1 DEF SampleInv, Expired, IInv, HistoryInv
  <2>9. HistoryInv'
    BY <1>2, <2>5, <2>6, <2>7, <2>8 DEF IInv, HistoryInv
  <2> QED
    BY <1>4, <2>9
<1> QED
  BY <1>5, <1>6

-----------------------------------------------------------------------------
(* Retention                                                                 *)

\* Sealing keeps what holds of a partition: nothing of its bucket was deleted
\* before, what it has counted is all that is raw, and what is committed later
\* carries no earlier time.
LEMMA SealKeepsPartition ==
  ASSUME IInv, NEW p \in partition
  PROVE  /\ PartitionInv(Sealed(p)) /\ Sealed(p) \in Partition
         /\ Sealed(p).res = p.res /\ Sealed(p).start = p.start /\ Sealed(p).inputs = p.inputs
         /\ p.state = "sealed" => Sealed(p) = p
         /\ Sealed(p).pruned = p.pruned
<1>1. PartitionInv(p) /\ p \in Partition /\ compactor \in Row /\ compactor.now <= clock
  BY DEF IInv, HistoryInv, CompactorInv
<1>2. CASE Sealed(p) = p
  BY <1>1, <1>2
<1>3. CASE Sealed(p) # p
  <2>1. /\ p.state = "complete"
        /\ Cardinality(p.inputs) = Cardinality(In(Raw, p.res, p.start))
        /\ Sealed(p) = [p EXCEPT !.state = "sealed", !.sealedAt = compactor.now]
    BY <1>3 DEF Sealed
  <2> DEFINE q == Sealed(p)
  <2>2. /\ q \in Partition /\ q.res = p.res /\ q.start = p.start /\ q.inputs = p.inputs
        /\ q.state = "sealed" /\ q.sealedAt = compactor.now /\ q.pruned = p.pruned
    BY <1>1, <2>1 DEF Partition, Row
  <2>3. p.inputs = In(Raw, p.res, p.start)
    <3>1. p.inputs \subseteq In(Raw, p.res, p.start)
      <4>1. ASSUME NEW s \in p.inputs PROVE s \in In(Raw, p.res, p.start)
        <5>1. s \in Raw /\ p.start = Floor(sample[s].at, p.res)
          BY <1>1, <2>1 DEF PartitionInv, InBucket
        <5>2. sample[s].at \in Int
          BY <5>1, BoundAssumption DEF Raw, IInv, HistoryInv, Entry, Time
        <5> QED
          BY <5>1, <5>2, FloorBounds DEF In
      <4> QED
        BY <4>1
    <3>2. IsFiniteSet(In(Raw, p.res, p.start))
      BY SampleAssumption, FS_Subset DEF In, Raw
    <3> QED
      BY <2>1, <3>1, <3>2, FS_Subset
  <2>4. ASSUME NEW s \in Sample, sample[s].state \in Kept, p.start = Floor(sample[s].at, p.res)
        PROVE  s \in p.inputs
    <3>1. sample[s].state # "deleted"
      <4>1. p.res \in Resolution /\ OnePartition
        BY <1>1 DEF Partition, IInv, HistoryInv
      <4>2. sample[s].state = "deleted" =>
              \E o \in partition : o.res = p.res /\ o.start = p.start /\ o.state = "sealed"
        BY <2>4, <4>1 DEF IInv, HistoryInv, SampleInv, SealedWith
      <4> QED
        BY <2>1, <4>1, <4>2 DEF OnePartition
    <3>2. s \in Raw /\ sample[s].at \in Int
      BY <2>4, <3>1, BoundAssumption DEF Raw, Kept, IInv, HistoryInv, Entry, Time
    <3> QED
      BY <2>3, <2>4, <3>2, FloorBounds DEF In
  <2> HIDE DEF q
  <2>5. PartitionInv(q)
    <3>1. ~p.pruned
      BY <1>1, <2>1 DEF PartitionInv
    <3>2. \A s \in q.inputs : sample[s].state \in Kept /\ InBucket(q, s)
      BY <1>1, <2>2 DEF PartitionInv, InBucket
    <3> QED
      BY <1>1, <2>2, <2>4, <3>1, <3>2 DEF PartitionInv
  <2> QED
    BY <2>1, <2>2, <2>5 DEF q
<1> QED
  BY <1>2, <1>3

\* A partition of the result is one that was there, or an old one without raw
\* samples that is pruned.
LEMMA PrunedSplit ==
  ASSUME NEW sealed, NEW left, NEW p \in Pruned(sealed, left)
  PROVE  \E q \in sealed :
           \/ p = q
           \/ /\ p = [q EXCEPT !.pruned = TRUE] /\ q.state = "sealed"
              /\ q.start + Width(q.res) <= Cutoff(RollupRetention(q.res))
              /\ Empty(q, left)
BY DEF Pruned, Prune, Oldest, Prunable, RollupRetention

\* Nothing is lost from the partitions but the rows of some.
LEMMA PrunedKeeps ==
  ASSUME NEW sealed, NEW left, NEW q \in sealed
  PROVE  \/ q \in Pruned(sealed, left)
         \/ [q EXCEPT !.pruned = TRUE] \in Pruned(sealed, left)
BY DEF Pruned, Prune

LEMMA CutoffIsPast ==
  ASSUME IInv, NEW r \in Nat
  PROVE  /\ Cutoff(r) <= Floor(clock - r, "day")
         /\ Cutoff(r) \in Int /\ Floor(clock - r, "day") \in Int
<1>1. compactor.at \in Nat /\ clock \in Nat /\ compactor.at <= clock
  BY BoundAssumption DEF IInv, HistoryInv, CompactorInv, Row, Time
<1> QED
  BY <1>1, ExpiredLater DEF Cutoff

LEMMA RetentionKeepsIInv ==
  ASSUME IInv, EnforceRetention
  PROVE  HistoryInv' /\ CompactorInv' /\ FenceInv'
<1> DEFINE sealed == {Sealed(p) : p \in partition}
           observed == Deletable(Sample \ NonObserved, ObservedRetention, sealed)
           others == Deletable(NonObserved, NonObservedRetention, sealed)
<1>1. PICK S \in Batches(observed, DeleteBatch) :
        \E T \in Batches(others, DeleteBatch - Cardinality(S)) :
          /\ sample' = [s \in Sample |-> IF s \in S \cup T
                                         THEN [sample[s] EXCEPT !.state = "deleted"]
                                         ELSE sample[s]]
          /\ partition' = Pruned(sealed, Raw \ (S \cup T))
  BY DEF EnforceRetention
<1>2. PICK T \in Batches(others, DeleteBatch - Cardinality(S)) :
          /\ sample' = [s \in Sample |-> IF s \in S \cup T
                                         THEN [sample[s] EXCEPT !.state = "deleted"]
                                         ELSE sample[s]]
          /\ partition' = Pruned(sealed, Raw \ (S \cup T))
  BY <1>1
<1> DEFINE gone == S \cup T
           left == Raw \ gone
<1>3. /\ UNCHANGED <<clock, deletion, backup>> /\ compactor.pc = "retaining"
      /\ compactor' = [compactor EXCEPT !.pc = "counting"]
  BY DEF EnforceRetention, Rest, Goto
<1>4. /\ clock \in Time /\ sample \in [Sample -> Entry] /\ compactor \in Row
      /\ \A s \in Sample : sample[s].at \in Nat /\ sample[s].created \in Nat
  BY BoundAssumption DEF IInv, HistoryInv, CompactorInv, Entry, Time
<1>5. \A q \in sealed : PartitionInv(q) /\ q \in Partition
  BY SealKeepsPartition
<1>6. \A p, q \in sealed : p.res = q.res /\ p.start = q.start => p = q
  BY SealKeepsPartition DEF IInv, HistoryInv, OnePartition
<1> HIDE DEF sealed
\* What is deleted is old, and a sealed partition of each resolution counts it.
<1>7. ASSUME NEW s \in gone
      PROVE  /\ s \in Raw /\ s \in Sample
             /\ sample[s].at < Cutoff(RawRetention(s))
             /\ \A res \in Resolution : \E q \in sealed :
                  /\ q.res = res /\ q.start = Floor(sample[s].at, res)
                  /\ q.state = "sealed" /\ s \in q.inputs
  <2>1. /\ s \in Raw /\ s \in Sample
        /\ sample[s].at < Cutoff(RawRetention(s))
        /\ \A res \in Resolution : \E q \in sealed :
             q.res = res /\ q.start = Floor(sample[s].at, res) /\ Covers(q, s)
    BY <1>7 DEF Batches, Deletable, Raw, RawRetention
  <2> QED
    BY <1>5, <2>1 DEF Covers, PartitionInv, Raw, Kept
<1>8. /\ sample' \in [Sample -> Entry]
      /\ \A s \in Sample : sample'[s].at = sample[s].at /\ sample'[s].created = sample[s].created
      /\ \A s \in gone : sample'[s].state = "deleted"
      /\ \A s \in Sample \ gone : sample'[s] = sample[s]
      /\ Raw' = left
  BY <1>2, <1>4, <1>7 DEF Entry, Raw
<1> HIDE DEF gone
<1>9. ASSUME NEW q \in sealed
      PROVE  /\ \A s \in q.inputs : sample'[s].state \in Kept /\ InBucket(q, s)'
             /\ q.inputs # {} /\ q.inputs \subseteq Sample
             /\ q.state = "complete" => q.inputs \cap gone = {}
  <2>1. PartitionInv(q) /\ q \in Partition
    BY <1>5
  <2>2. \A s \in q.inputs : s \in Sample /\ sample'[s].state \in Kept
    BY <1>8, <2>1 DEF PartitionInv, Partition, Kept
  <2>3. ASSUME q.state = "complete", NEW s \in q.inputs, s \in gone PROVE FALSE
    <3>1. PICK o \in sealed : o.res = q.res /\ o.start = Floor(sample[s].at, q.res) /\ o.state = "sealed"
                              /\ s \in o.inputs
      BY <1>7, <2>1, <2>3 DEF Partition
    <3>2. o.start = q.start
      BY <2>1, <2>3, <3>1 DEF PartitionInv, InBucket
    <3> QED
      BY <1>6, <2>3, <3>1, <3>2
  <2> QED
    BY <1>8, <2>1, <2>2, <2>3 DEF PartitionInv, InBucket, Partition
\* The rows of a partition go only when they are old and no sample needs them.
<1>10. ASSUME NEW p \in partition' PROVE PartitionInv(p)' /\ p \in Partition
  <2>1. PICK q \in sealed :
          \/ p = q
          \/ /\ p = [q EXCEPT !.pruned = TRUE] /\ q.state = "sealed"
             /\ q.start + Width(q.res) <= Cutoff(RollupRetention(q.res))
             /\ Empty(q, left)
    BY <1>2, PrunedSplit DEF gone
  <2>2. /\ PartitionInv(q) /\ q \in Partition /\ p \in Partition
        /\ p.res = q.res /\ p.start = q.start /\ p.inputs = q.inputs
        /\ p.state = q.state /\ p.sealedAt = q.sealedAt
    BY <1>5, <2>1 DEF Partition
  <2>3. p.state = "complete" => p.inputs \subseteq Raw' /\ ~p.pruned
    <3>1. ASSUME q.state = "complete" PROVE p = q /\ q.inputs \subseteq left /\ ~q.pruned
      BY <1>9, <2>1, <2>2, <3>1 DEF PartitionInv
    <3> QED
      BY <1>8, <2>2, <3>1
  <2>4. p.state = "sealed" =>
          /\ p.sealedAt <= clock'
          /\ \A s \in Sample :
               /\ sample'[s].state \in Kept /\ p.start = Floor(sample'[s].at, p.res)
               /\ sample'[s].created < p.sealedAt
               => s \in p.inputs
    <3>1. \A s \in Sample : sample'[s].state \in Kept => sample[s].state \in Kept
      BY <1>7, <1>8 DEF Raw, Kept
    <3> QED
      BY <1>3, <1>8, <2>2, <3>1 DEF PartitionInv
  <2>5. ASSUME p.pruned
        PROVE  /\ p.start + Width(p.res) <= Floor(clock' - RollupRetention(p.res), "day")
               /\ p.inputs \cap Raw' = {}
    <3>1. CASE p = q
      BY <1>3, <1>8, <2>2, <2>5, <3>1 DEF PartitionInv
    <3>2. CASE /\ q.start + Width(q.res) <= Cutoff(RollupRetention(q.res))
               /\ Empty(q, left)
      <4> DEFINE r == RollupRetention(q.res)
      <4>1. /\ r \in Nat /\ q.start \in Int /\ Width(q.res) \in Int
        BY <2>2, RetentionsAreNat, WidthIsPositive, BoundAssumption DEF Partition, Time
      <4>2. q.start + Width(q.res) <= Cutoff(r)
        BY <3>2
      <4> HIDE DEF r
      <4>3. q.start + Width(q.res) <= Floor(clock - r, "day")
        BY <4>1, <4>2, CutoffIsPast
      <4>4. ASSUME NEW s \in q.inputs, s \in left PROVE FALSE
        <5>1. q.start = Floor(sample[s].at, q.res) /\ sample[s].at \in Int
          BY <1>4, <1>9, <2>2 DEF PartitionInv, InBucket
        <5>2. s \in In(left, q.res, q.start)
          BY <4>4, <5>1, FloorBounds DEF In
        <5> QED
          BY <3>2, <5>2 DEF Empty
      <4> QED
        BY <1>3, <1>8, <2>2, <4>3, <4>4 DEF r
    <3> QED
      BY <2>1, <3>1, <3>2
  <2>6. \A s \in p.inputs : sample'[s].state \in Kept /\ InBucket(p, s)'
    BY <1>9, <2>2 DEF InBucket
  <2> QED
    BY <1>9, <2>2, <2>3, <2>4, <2>5, <2>6 DEF PartitionInv
<1>11. OnePartition'
  <2>1. PICK Q : partition' = Prune(Q, sealed)
    BY <1>2 DEF Pruned
  <2> DEFINE After(q) == IF q \in Q THEN [q EXCEPT !.pruned = TRUE] ELSE q
  <2>2. \A p \in partition' : \E q \in sealed : p = After(q)
    BY <2>1 DEF Prune
  <2>3. \A q \in sealed : After(q).res = q.res /\ After(q).start = q.start
    BY <1>5 DEF Partition
  <2> HIDE DEF After
  <2> QED
    BY <1>6, <2>2, <2>3 DEF OnePartition
<1>12. ASSUME NEW s \in Sample PROVE SampleInv(s)'
  <2>1. \A q \in sealed : \E p \in partition' :
          p.res = q.res /\ p.start = q.start /\ p.state = q.state /\ p.inputs = q.inputs
    <3>1. ASSUME NEW q \in sealed
          PROVE  LET o == [q EXCEPT !.pruned = TRUE]
                 IN  o.res = q.res /\ o.start = q.start /\ o.state = q.state /\ o.inputs = q.inputs
      BY <1>5 DEF Partition
    <3> QED
      BY <1>2, <3>1, PrunedKeeps
  <2>2. CASE s \in gone
    <3>1. \A res \in Resolution : SealedWith(s, res)'
      BY <1>7, <1>8, <2>1, <2>2 DEF SealedWith
    <3>2. sample[s].at < Floor(clock - RawRetention(s), "day")
      <4>1. RawRetention(s) \in Nat
        BY RetentionsAreNat
      <4> QED
        BY <1>4, <1>7, <2>2, <4>1, CutoffIsPast
    <3>3. Expired(s, RawRetention(s))'
      BY <1>3, <1>8, <3>2 DEF Expired, RawRetention
    <3>4. sample[s].created <= clock
      BY <1>7, <2>2 DEF IInv, HistoryInv, SampleInv, Raw, Kept
    <3> QED
      BY <1>3, <1>8, <3>1, <3>3, <3>4 DEF SampleInv
  <2>3. CASE s \notin gone
    <3>1. SampleInv(s) /\ sample'[s] = sample[s]
      BY <1>8, <2>3 DEF IInv, HistoryInv
    <3>2. ASSUME NEW res \in Resolution, SealedWith(s, res) PROVE SealedWith(s, res)'
      <4>1. PICK p \in partition : /\ p.res = res /\ p.start = Floor(sample[s].at, res)
                                   /\ p.state = "sealed" /\ s \in p.inputs
        BY <3>2 DEF SealedWith
      <4>2. p \in sealed
        BY <4>1, SealKeepsPartition DEF sealed
      <4> QED
        BY <2>1, <3>1, <4>1, <4>2 DEF SealedWith
    <3> QED
      BY <1>3, <3>1, <3>2 DEF SampleInv, Expired
  <2> QED
    BY <2>2, <2>3
<1>13. HistoryInv'
  BY <1>3, <1>4, <1>8, <1>10, <1>11, <1>12 DEF HistoryInv
<1>14. CompactorInv' /\ FenceInv'
  <2>1. /\ compactor' \in Row /\ compactor'.pc = "counting"
        /\ compactor'.at = compactor.at /\ compactor'.now = compactor.now
    BY <1>3, <1>4 DEF Row, Working
  <2> QED
    BY <1>3, <2>1 DEF IInv, CompactorInv, FenceInv, Working
<1> QED
  BY <1>13, <1>14

-----------------------------------------------------------------------------
(* The deletion of the host and the process                                  *)

LEMMA FenceKeepsIInv ==
  ASSUME IInv, Fence
  PROVE  HistoryInv' /\ CompactorInv' /\ FenceInv'
<1>1. UNCHANGED <<clock, sample, partition, compactor>>
  BY DEF Fence, stored
<1>2. FenceInv'
  BY <1>1 DEF Fence, FenceInv, stored
<1> QED
  BY <1>1, <1>2, HistoryStutter DEF IInv, CompactorInv

LEMMA CascadeKeepsIInv ==
  ASSUME IInv, Cascade
  PROVE  HistoryInv' /\ CompactorInv' /\ FenceInv'
<1>1. /\ UNCHANGED <<clock, compactor>> /\ partition' = {} /\ deletion' = "done"
      /\ sample' = [s \in Sample |-> IF sample[s].state \in {"raw", "deleted"}
                                     THEN [sample[s] EXCEPT !.state = "erased"] ELSE sample[s]]
  BY DEF Cascade
<1>2. /\ sample' \in [Sample -> Entry]
      /\ \A s \in Sample : sample'[s].state \notin Kept
  BY <1>1 DEF IInv, HistoryInv, Entry, Kept
<1>3. HistoryInv'
  BY <1>1, <1>2 DEF IInv, HistoryInv, OnePartition, SampleInv, Kept
<1> QED
  BY <1>1, <1>3 DEF IInv, CompactorInv, FenceInv

LEMMA DieKeepsIInv ==
  ASSUME IInv, Die
  PROVE  HistoryInv' /\ CompactorInv' /\ FenceInv'
<1>1. /\ UNCHANGED <<clock, partition>> /\ compactor' = Idle /\ deletion' # "fenced"
      /\ sample' = [s \in Sample |-> IF sample[s].state = "inflight"
                                     THEN [sample[s] EXCEPT !.state = "lost"] ELSE sample[s]]
  BY DEF Die
<1>2. /\ sample' \in [Sample -> Entry]
      /\ \A s \in Sample : /\ sample'[s].state \in Kept \/ sample[s].state \in Kept
                                 => sample'[s] = sample[s]
                           /\ sample'[s].state \in Kept <=> sample[s].state \in Kept
                           /\ sample'[s].state = "raw" <=> sample[s].state = "raw"
  BY <1>1 DEF IInv, HistoryInv, Entry, Kept
<1>3. ASSUME NEW p \in partition PROVE PartitionInv(p)'
  <2>1. PartitionInv(p) /\ p.inputs \subseteq Sample
    BY DEF IInv, HistoryInv, Partition
  <2>2. Raw' = Raw
    BY <1>2 DEF Raw
  <2> QED
    BY <1>1, <1>2, <2>1, <2>2 DEF PartitionInv, InBucket
<1>4. ASSUME NEW s \in Sample PROVE SampleInv(s)'
  BY <1>1, <1>2 DEF SampleInv, SealedWith, Expired, IInv, HistoryInv, Kept
<1>5. HistoryInv'
  BY <1>1, <1>2, <1>3, <1>4 DEF IInv, HistoryInv, OnePartition
<1>6. CompactorInv' /\ FenceInv'
  <2>1. 0 \in Time /\ 0 <= clock
    BY BoundAssumption DEF IInv, HistoryInv, Time
  <2>2. {} \in SUBSET (Time \X SUBSET Sample)
    OBVIOUS
  <2>3. Idle \in Row /\ Idle.at = 0 /\ Idle.now = 0 /\ Idle.pc = "idle"
    BY <2>1, <2>2 DEF Idle, Row, Resolution
  <2> QED
    BY <1>1, <2>1, <2>3 DEF CompactorInv, FenceInv
<1> QED
  BY <1>5, <1>6

LEMMA NextIInv == IInv /\ [Next]_vars => IInv'
<1> SUFFICES ASSUME IInv, [Next]_vars PROVE IInv'
  OBVIOUS
<1>1. CASE UNCHANGED vars
  BY <1>1, HistoryStutter DEF IInv, CompactorInv, FenceInv, Small, vars, stored
<1>2. Small'
  BY SmallNext DEF IInv
<1> QED
  BY <1>1, <1>2, NextSplit, MovesKeepIInv, TickKeepsIInv, WorkerKeepsIInv, CompactKeepsIInv,
     RetentionKeepsIInv, FenceKeepsIInv, CascadeKeepsIInv, DieKeepsIInv DEF IInv

-----------------------------------------------------------------------------
(* The theorems                                                              *)

\* Partitions, samples, the selection of the compactor and the fence keep what
\* the properties rest on.
THEOREM HistoryInvariant == Spec => []IInv
<1> QED
  BY InitIInv, NextIInv, PTL DEF Spec

\* Every variable keeps its type.
THEOREM HistoryTypes == Spec => []TypeOK
<1>1. IInv => TypeOK
  BY DEF IInv, Small, HistoryInv, CompactorInv, OnePartition, PartitionInv, Row, Entry, TypeOK,
     Partition
<1> QED
  BY <1>1, HistoryInvariant, PTL

\* A committed sample stays raw until it is old, and is counted from then on as
\* long as its rollups are kept, however late it was committed and whatever
\* statement of a tick failed (enforce_history_retention).
THEOREM RetentionInvariant == Spec => []RetentionHonoured
<1>1. IInv => RetentionHonoured
  <2> SUFFICES ASSUME IInv, NEW s \in Sample
               PROVE  /\ sample[s].state = "deleted" => Expired(s, RawRetention(s))
                      /\ sample[s].state \in {"raw", "deleted"} =>
                           \A res \in Resolution :
                             s \in Raw \/ Counted(s, res) \/ Expired(s, RollupRetention(res))
    BY DEF RetentionHonoured
  <2>1. ASSUME sample[s].state = "deleted", NEW res \in Resolution
        PROVE  Counted(s, res) \/ Expired(s, RollupRetention(res))
    <3>1. PICK p \in partition : /\ p.res = res /\ p.start = Floor(sample[s].at, res)
                                 /\ p.state = "sealed" /\ s \in p.inputs
      BY <2>1 DEF IInv, HistoryInv, SampleInv, SealedWith
    <3>2. CASE p.pruned
      <4>1. p.start + Width(res) <= Floor(clock - RollupRetention(res), "day")
        BY <3>1, <3>2 DEF IInv, HistoryInv, PartitionInv
      <4>2. /\ sample[s].at \in Int /\ clock - RollupRetention(res) \in Int
            /\ p.start \in Int /\ Width(res) \in Int
        BY <3>1, RetentionsAreNat, WidthIsPositive, FloorBounds, BoundAssumption
           DEF IInv, HistoryInv, Entry, Partition, Time
      <4>3. sample[s].at < p.start + Width(res)
        BY <3>1, <4>2, FloorBounds
      <4>4. Floor(clock - RollupRetention(res), "day") \in Int
        BY <4>2, FloorBounds
      <4>5. sample[s].at < Floor(clock - RollupRetention(res), "day")
        BY <4>1, <4>2, <4>3, <4>4
      <4> QED
        BY <4>5 DEF Expired
    <3>3. CASE ~p.pruned
      BY <3>1, <3>3 DEF Counted
    <3> QED
      BY <3>2, <3>3
  <2>2. sample[s].state = "deleted" => Expired(s, RawRetention(s))
    BY DEF IInv, HistoryInv, SampleInv
  <2> QED
    BY <2>1, <2>2 DEF Raw
<1> QED
  BY <1>1, HistoryInvariant, PTL

\* The rows of a partition are kept while a raw sample it has counted waits for
\* its own deletion (prune_rollups).
THEOREM StrandedInvariant == Spec => []RawNotStranded
<1>1. IInv => RawNotStranded
  BY DEF IInv, HistoryInv, PartitionInv, RawNotStranded
<1> QED
  BY <1>1, HistoryInvariant, PTL

\* Nothing is written to the history between the backup of a host and its
\* cascade (the read guard of the tick).
THEOREM BoundaryInvariant == Spec => []BackupIsBoundary
<1>1. IInv => BackupIsBoundary
  BY DEF IInv, FenceInv, BackupIsBoundary
<1> QED
  BY <1>1, HistoryInvariant, PTL
==============================================================================
