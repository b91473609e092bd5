--------------------------- MODULE MonitoringProofs ---------------------------
(***************************************************************************)
(* Proofs about MonitorSchedule for any intervals, jitters and updates:    *)
(* the grids of the ledger's versions share no slot, every scheduled run   *)
(* answers a slot of its version, and a claim leaves no due slot behind.   *)
(*                                                                         *)
(* And about CounterRollup, for any widths, retentions and readings: a     *)
(* rollup counts exactly the increments and resets of its samples.         *)
(***************************************************************************)
EXTENDS MonitorSchedule, CounterRollup, FiniteSetTheorems, TLAPS

-----------------------------------------------------------------------------
(* Due grids                                                                 *)

\* A slot of the grid that begins at an instant.
OnGrid(from, i, t) == from <= t /\ (t - from) % i = 0

LEMMA Products ==
  ASSUME NEW a \in Int, NEW b \in Int, NEW i \in Nat \ {0}, a < b
  PROVE  a * i + i <= b * i
<1>1. a + 1 <= b
  OBVIOUS
<1>2. (a + 1) * i <= b * i
  BY <1>1
<1>3. (a + 1) * i = a * i + i
  OBVIOUS
<1> QED
  BY <1>2, <1>3

\* What a remainder of zero says.
LEMMA Multiples ==
  ASSUME NEW x \in Nat, NEW i \in Nat \ {0}
  PROVE  x % i = 0 <=> \E k \in Nat : x = k * i
<1> DEFINE q == x \div i
           r == x % i
<1>1. q \in Nat /\ r \in 0..(i - 1) /\ x = q * i + r
  OBVIOUS
<1> HIDE DEF q, r
<1>2. ASSUME NEW k \in Nat, x = k * i PROVE r = 0
  <2>1. ASSUME q < k PROVE FALSE
    BY <1>1, <1>2, <2>1, Products
  <2>2. ASSUME k < q PROVE FALSE
    BY <1>1, <1>2, <2>2, Products
  <2>3. q = k
    BY <1>1, <2>1, <2>2
  <2> QED
    BY <1>1, <1>2, <2>3
<1>3. ASSUME r = 0 PROVE x = q * i
  BY <1>1, <1>3
<1> QED
  BY <1>1, <1>2, <1>3 DEF r

LEMMA GridStart ==
  ASSUME NEW from \in Nat, NEW i \in Nat \ {0}
  PROVE  OnGrid(from, i, from)
<1>1. 0 = 0 * i
  OBVIOUS
<1>2. 0 % i = 0
  BY <1>1, Multiples
<1> QED
  BY <1>2 DEF OnGrid

\* A number of intervals after a slot is a slot.
LEMMA GridStep ==
  ASSUME NEW from \in Nat, NEW i \in Nat \ {0}, NEW t \in Nat, NEW k \in Nat,
         OnGrid(from, i, t)
  PROVE  OnGrid(from, i, t + k * i)
<1>1. from <= t /\ t - from \in Nat /\ (t - from) % i = 0
  BY DEF OnGrid
<1>2. PICK m \in Nat : t - from = m * i
  BY <1>1, Multiples
<1>3. (m + k) * i = m * i + k * i /\ k * i \in Nat /\ m + k \in Nat
  OBVIOUS
<1>4. (t + k * i) - from = (m + k) * i /\ (t + k * i) - from \in Nat
  BY <1>1, <1>2, <1>3
<1>5. ((t + k * i) - from) % i = 0
  BY <1>3, <1>4, Multiples
<1> QED
  BY <1>1, <1>3, <1>5 DEF OnGrid

\* Two slots of a grid are an interval apart at least.
LEMMA GridGap ==
  ASSUME NEW from \in Nat, NEW i \in Nat \ {0}, NEW t \in Nat, NEW u \in Nat,
         OnGrid(from, i, t), OnGrid(from, i, u), t < u
  PROVE  t + i <= u
<1>1. /\ from <= t /\ t - from \in Nat /\ (t - from) % i = 0
      /\ from <= u /\ u - from \in Nat /\ (u - from) % i = 0
  BY DEF OnGrid
<1>2. PICK m \in Nat : t - from = m * i
  BY <1>1, Multiples
<1>3. PICK n \in Nat : u - from = n * i
  BY <1>1, Multiples
<1>4. m * i \in Nat /\ n * i \in Nat
  OBVIOUS
<1>5. m < n
  <2>1. CASE m = n
    BY <1>2, <1>3, <2>1
  <2>2. CASE n < m
    BY <1>2, <1>3, <1>4, <2>2, Products
  <2> QED
    BY <2>1, <2>2
<1>6. m * i + i <= n * i
  BY <1>5, Products
<1> QED
  BY <1>2, <1>3, <1>4, <1>6

\* From one slot of a grid to a later one is a number of intervals.
LEMMA GridDifference ==
  ASSUME NEW from \in Nat, NEW i \in Nat \ {0}, NEW t \in Nat, NEW u \in Nat,
         OnGrid(from, i, t), OnGrid(from, i, u), t <= u
  PROVE  \E k \in Nat : u = t + k * i
<1>1. /\ from <= t /\ t - from \in Nat /\ (t - from) % i = 0
      /\ from <= u /\ u - from \in Nat /\ (u - from) % i = 0
  BY DEF OnGrid
<1>2. PICK m \in Nat : t - from = m * i
  BY <1>1, Multiples
<1>3. PICK n \in Nat : u - from = n * i
  BY <1>1, Multiples
<1>4. m * i \in Nat /\ n * i \in Nat
  OBVIOUS
<1>5. m <= n
  <2>1. ASSUME n < m PROVE FALSE
    BY <1>2, <1>3, <1>4, <2>1, Products
  <2> QED
    BY <2>1
<1>6. (n - m) * i = n * i - m * i /\ n - m \in Nat
  BY <1>5
<1>7. u = t + (n - m) * i
  BY <1>2, <1>3, <1>4, <1>6
<1> QED
  BY <1>6, <1>7

\* The slot a claim chooses is the last one not after the tick.
LEMMA LatestSlot ==
  ASSUME NEW next \in Nat, NEW at \in Nat, next <= at, NEW i \in Nat \ {0}
  PROVE  LET missed == (at - next) \div i
         IN  /\ missed \in Nat
             /\ next + missed * i \in Nat
             /\ next <= next + missed * i
             /\ next + missed * i <= at /\ at < next + missed * i + i
<1> DEFINE m == (at - next) \div i
<1>1. m \in Nat /\ m * i <= at - next /\ at - next < m * i + i /\ m * i \in Nat
  OBVIOUS
<1> HIDE DEF m
<1>2. next + m * i <= at /\ at < next + m * i + i /\ next <= next + m * i
  BY <1>1
<1> QED
  BY <1>1, <1>2 DEF m

-----------------------------------------------------------------------------
(* The invariant                                                             *)

\* A slot of a version, whatever the horizon.
SlotOf(v, t) ==
  /\ v.state = "enabled"
  /\ OnGrid(v.from, v.interval, t)
  /\ v.until = Never \/ t < v.until

\* The ledger has one version per revision, and the open one is the row's.
LedgerInv ==
  /\ schedule.revision = 0 => versions = {} /\ runs = {}
  /\ schedule.revision > 0 => schedule.interval > 0 /\ \E v \in versions : v.open
  /\ \A v \in versions :
       /\ 0 < v.revision /\ v.revision <= schedule.revision
       /\ v.interval > 0
       /\ v.open <=> v.revision = schedule.revision
       /\ v.open => v.until = Never /\ v.state = schedule.state
                    /\ v.interval = schedule.interval
       /\ ~v.open /\ v.state = "enabled" => v.until # Never
  /\ \A v, w \in versions : v.revision = w.revision => v = w

\* The due time is the version's first slot, or a later one that is not more
\* than an interval away.
DueInv ==
  \A v \in versions : v.open /\ v.state = "enabled" =>
    /\ OnGrid(v.from, v.interval, schedule.next)
    /\ schedule.next = v.from \/ schedule.next <= now + v.interval

\* The slots of a closed version have come, and lie before the open version.
SettledInv ==
  \A w \in versions : ~w.open =>
    \A t \in Nat : SlotOf(w, t) =>
      /\ t <= now
      /\ \A v \in versions : v.open /\ v.state = "enabled" => t < v.from

DisjointInv ==
  \A v, w \in versions : v # w => \A t \in Nat : ~(SlotOf(v, t) /\ SlotOf(w, t))

RunInv ==
  \A r \in runs : \E v \in versions :
    /\ v.revision = r.revision
    /\ SlotOf(v, r.slot)
    /\ v.open => r.slot < schedule.next

\* The runs of a version answer its slots up to the last claim, once each; of
\* the open version these are the slots before the due time.
AnswerInv ==
  \A v \in versions :
    /\ \A r \in RunsOf(v) :
         /\ \A t \in Answered(r, v) : t \in Nat /\ OnGrid(v.from, v.interval, t)
         /\ \A q \in RunsOf(v) : q # r => Answered(q, v) \cap Answered(r, v) = {}
         /\ \A t \in Nat : OnGrid(v.from, v.interval, t) /\ t <= r.slot =>
              \E q \in RunsOf(v) : t \in Answered(q, v)
    /\ v.open /\ v.state = "enabled" =>
         \A t \in Nat : OnGrid(v.from, v.interval, t) /\ t < schedule.next =>
           \E q \in RunsOf(v) : t \in Answered(q, v)

TickInv ==
  tick.held =>
    /\ 0 < tick.revision /\ tick.revision <= schedule.revision
    /\ 0 < tick.next /\ tick.next <= tick.at /\ tick.at <= now
    /\ tick.interval > 0
    /\ tick.revision = schedule.revision => tick.interval = schedule.interval

UpdateInv ==
  \A u \in Update : update[u].pc = "loaded" =>
    /\ 0 < update[u].revision /\ update[u].revision <= schedule.revision
    /\ update[u].interval > 0

IInv ==
  /\ TypeOK /\ 0 < now
  /\ LedgerInv /\ DueInv /\ SettledInv /\ DisjointInv
  /\ RunInv /\ AnswerInv /\ TickInv /\ UpdateInv

LEMMA IInvInit == Init => IInv
<1> SUFFICES ASSUME Init PROVE IInv
  OBVIOUS
<1> USE DEF Init
<1>1. TypeOK
  BY TimeAssumption DEF TypeOK, Time, State, NoTick, Idle, Never
<1>2. LedgerInv /\ DueInv /\ SettledInv /\ DisjointInv /\ RunInv /\ AnswerInv
  BY DEF LedgerInv, DueInv, SettledInv, DisjointInv, RunInv, AnswerInv
<1>3. TickInv /\ UpdateInv
  BY DEF TickInv, UpdateInv, NoTick, Idle
<1> QED
  BY <1>1, <1>2, <1>3 DEF IInv

\* What the ledger expects before a horizon are the slots of the grid there.
LEMMA Expected ==
  ASSUME NEW v, NEW h \in Nat, NEW t \in Nat,
         v.from \in Nat, v.until \in Nat, v.interval \in Nat \ {0}
  PROVE  t \in ExpectedSlots(v, h) <=> SlotOf(v, t) /\ t < h
BY DEF ExpectedSlots, SlotOf, OnGrid, Never

LEMMA OpenVersion ==
  ASSUME LedgerInv, schedule.revision > 0
  PROVE  LET old == CHOOSE v \in versions : v.open
         IN  /\ old \in versions /\ old.open
             /\ \A v \in versions : v.open => v = old
BY DEF LedgerInv

-----------------------------------------------------------------------------
(* The clock and the tick                                                    *)

LEMMA TickStep == IInv /\ Tick => IInv'
<1> SUFFICES ASSUME IInv, Tick PROVE IInv'
  OBVIOUS
<1> USE DEF Tick
<1>1. now \in Nat /\ now' = now + 1 /\ now' \in Time /\ 0 < now'
  BY TimeAssumption DEF IInv, TypeOK, Time
<1>2. TypeOK'
  BY <1>1 DEF IInv, TypeOK
<1>3. LedgerInv' /\ DisjointInv' /\ RunInv' /\ AnswerInv' /\ UpdateInv'
  BY DEF IInv, LedgerInv, DisjointInv, RunInv, AnswerInv, UpdateInv, SlotOf, RunsOf
<1>4. DueInv'
  BY <1>1 DEF IInv, DueInv, TypeOK
<1>5. SettledInv'
  BY <1>1 DEF IInv, SettledInv, SlotOf
<1>6. TickInv'
  BY <1>1 DEF IInv, TickInv, TypeOK, Time
<1> QED
  BY <1>1, <1>2, <1>3, <1>4, <1>5, <1>6 DEF IInv

LEMMA ScanStep == IInv /\ Scan => IInv'
<1> SUFFICES ASSUME IInv, Scan PROVE IInv'
  OBVIOUS
<1> USE DEF Scan
<1>1. TypeOK'
  BY DEF IInv, TypeOK
<1>2. TickInv'
  BY DEF IInv, TypeOK, LedgerInv, TickInv, Time, Never
<1>3. LedgerInv' /\ DueInv' /\ SettledInv' /\ DisjointInv' /\ RunInv' /\ AnswerInv'
      /\ UpdateInv' /\ 0 < now'
  BY DEF IInv, LedgerInv, DueInv, SettledInv, DisjointInv, RunInv, AnswerInv, UpdateInv,
         SlotOf, RunsOf
<1> QED
  BY <1>1, <1>2, <1>3 DEF IInv

LEMMA ForgoStep == IInv /\ Forgo => IInv'
<1> SUFFICES ASSUME IInv, Forgo PROVE IInv'
  OBVIOUS
<1> USE DEF Forgo, NoTick
<1>1. TypeOK'
  BY TimeAssumption DEF IInv, TypeOK, Time, Never
<1>2. TickInv'
  BY DEF TickInv
<1>3. LedgerInv' /\ DueInv' /\ SettledInv' /\ DisjointInv' /\ RunInv' /\ AnswerInv'
      /\ UpdateInv' /\ 0 < now'
  BY DEF IInv, LedgerInv, DueInv, SettledInv, DisjointInv, RunInv, AnswerInv, UpdateInv,
         SlotOf, RunsOf
<1> QED
  BY <1>1, <1>2, <1>3 DEF IInv

-----------------------------------------------------------------------------
(* Creation and the refused update                                           *)

LEMMA CreateStep ==
  ASSUME NEW i \in Interval, NEW j \in Jitter, NEW s \in {"enabled", "paused"},
         NEW o \in 0..MaxTime, IInv, Create(i, j, o, s)
  PROVE  IInv'
<1> USE DEF Create
<1> DEFINE n == NewVersion(schedule')
<1>1. i \in Nat \ {0} /\ j \in Nat /\ o \in Nat /\ now \in Nat
  BY IntervalAssumption, JitterAssumption, TimeAssumption DEF IInv, TypeOK, Time
<1>2. /\ schedule' = [revision |-> 1, state |-> s, interval |-> i, jitter |-> j,
                      next |-> IF s = "enabled" THEN now + i + o ELSE Never]
      /\ schedule'.next \in Nat
      /\ s = "enabled" => schedule'.next = now + i + o
      /\ s # "enabled" => schedule'.next = Never
  BY <1>1 DEF Never
<1>3. /\ n = [revision |-> 1, state |-> s, interval |-> i, from |-> schedule'.next,
              until |-> Never, open |-> TRUE]
      /\ versions' = {n}
  BY <1>2 DEF NewVersion
<1> HIDE DEF n
<1>4. runs = {} /\ runs' = {} /\ UNCHANGED <<now, tick, update>>
  BY DEF IInv, LedgerInv
<1>5. TypeOK'
  <2>1. schedule' \in [revision : Nat, state : State, interval : Nat, jitter : Nat, next : Nat]
    BY <1>1, <1>2 DEF State
  <2>2. schedule'.state = "enabled" <=> schedule'.next # Never
    BY <1>1, <1>2 DEF Never
  <2>3. n \in [revision : Nat, state : State, interval : Nat,
               from : Nat, until : Nat, open : BOOLEAN]
    BY <1>1, <1>2, <1>3 DEF State, Never
  <2> QED
    BY <1>3, <1>4, <2>1, <2>2, <2>3 DEF IInv, TypeOK
<1>6. LedgerInv'
  BY <1>1, <1>2, <1>3, <1>4 DEF LedgerInv
<1>7. DueInv'
  <2>1. OnGrid(n.from, n.interval, schedule'.next) /\ schedule'.next = n.from
    BY <1>1, <1>2, <1>3, GridStart
  <2> QED
    BY <1>3, <2>1 DEF DueInv
<1>8. SettledInv' /\ DisjointInv' /\ RunInv'
  BY <1>3, <1>4 DEF SettledInv, DisjointInv, RunInv
<1>10. AnswerInv'
  <2>1. schedule'.next = n.from /\ n.from \in Nat
    BY <1>2, <1>3
  <2> QED
    BY <1>3, <1>4, <2>1 DEF AnswerInv, RunsOf, OnGrid
<1>9. TickInv' /\ UpdateInv'
  BY <1>2, <1>4 DEF IInv, TypeOK, TickInv, UpdateInv
<1> QED
  BY <1>4, <1>5, <1>6, <1>7, <1>8, <1>9, <1>10 DEF IInv

LEMMA LoadStep ==
  ASSUME NEW u \in Update, NEW i \in Interval, NEW j \in Jitter, NEW s \in State,
         IInv, LoadUpdate(u, i, j, s)
  PROVE  IInv'
<1> USE DEF LoadUpdate
<1>1. i \in Nat \ {0} /\ j \in Nat
  BY IntervalAssumption, JitterAssumption
<1>2. TypeOK'
  BY <1>1 DEF IInv, TypeOK
<1>3. UpdateInv'
  BY <1>1 DEF IInv, TypeOK, UpdateInv
<1>4. LedgerInv' /\ DueInv' /\ SettledInv' /\ DisjointInv' /\ RunInv' /\ AnswerInv'
      /\ TickInv' /\ 0 < now'
  BY DEF IInv, LedgerInv, DueInv, SettledInv, DisjointInv, RunInv, AnswerInv, TickInv,
         SlotOf, RunsOf
<1> QED
  BY <1>2, <1>3, <1>4 DEF IInv

LEMMA RefuseStep ==
  ASSUME NEW u \in Update, IInv, RefuseUpdate(u)
  PROVE  IInv'
<1> USE DEF RefuseUpdate, Idle
<1>1. TypeOK'
  BY DEF IInv, TypeOK, State, Never
<1>2. UpdateInv'
  BY DEF IInv, TypeOK, UpdateInv
<1>3. LedgerInv' /\ DueInv' /\ SettledInv' /\ DisjointInv' /\ RunInv' /\ AnswerInv'
      /\ TickInv' /\ 0 < now'
  BY DEF IInv, LedgerInv, DueInv, SettledInv, DisjointInv, RunInv, AnswerInv, TickInv,
         SlotOf, RunsOf
<1> QED
  BY <1>1, <1>2, <1>3 DEF IInv

-----------------------------------------------------------------------------
(* The claim                                                                 *)

\* What a claim writes: the last slot due when its tick began.
LEMMA ClaimedSlot ==
  ASSUME NEW s \in {"queued", "skipped_overlap"}, IInv, Claim(s)
  PROVE  LET slot == tick.next + Missed * tick.interval
         IN  /\ Missed \in Nat /\ slot \in Nat
             /\ tick.interval \in Nat \ {0} /\ tick.at \in Nat
             /\ schedule.next <= slot /\ slot <= tick.at
             /\ tick.at < slot + tick.interval
             /\ schedule.interval = tick.interval
             /\ runs' = runs \cup {[revision |-> schedule.revision, slot |-> slot,
                                    missed |-> Missed, at |-> tick.at, state |-> s]}
             /\ schedule' = [schedule EXCEPT !.next = slot + tick.interval]
<1>1. /\ tick.held /\ tick.interval \in Nat \ {0} /\ tick.at \in Nat /\ tick.next \in Nat
      /\ tick.next <= tick.at
      /\ tick.revision = schedule.revision /\ tick.next = schedule.next
      /\ tick.interval = schedule.interval
  BY DEF IInv, TypeOK, TickInv, Claim, StillDue, Time
<1> QED
  BY <1>1, LatestSlot DEF Claim, Missed

LEMMA ClaimStep ==
  ASSUME NEW s \in {"queued", "skipped_overlap"}, IInv, Claim(s)
  PROVE  IInv'
<1> DEFINE slot == tick.next + Missed * tick.interval
           run  == [revision |-> schedule.revision, slot |-> slot,
                    missed |-> Missed, at |-> tick.at, state |-> s]
<1>1. /\ Missed \in Nat /\ slot \in Nat
      /\ tick.interval \in Nat \ {0} /\ tick.at \in Nat
      /\ schedule.next <= slot /\ slot <= tick.at
      /\ schedule.interval = tick.interval
      /\ runs' = runs \cup {run}
      /\ schedule' = [schedule EXCEPT !.next = slot + tick.interval]
  BY ClaimedSlot
<1>2. tick.next = schedule.next
  BY DEF Claim, StillDue
<1>3. slot = schedule.next + Missed * tick.interval
  BY <1>2
<1>4. run = [revision |-> schedule.revision, slot |-> slot, missed |-> Missed,
             at |-> tick.at, state |-> s]
  OBVIOUS
<1> HIDE DEF slot, run
<1>5. /\ tick.held /\ tick' = NoTick /\ UNCHANGED <<now, versions, update>>
      /\ schedule.state = "enabled" /\ schedule.revision > 0
      /\ tick.at <= now /\ tick.at \in Time
  BY DEF IInv, TypeOK, TickInv, Claim, StillDue
<1>6. /\ schedule'.next = slot + tick.interval /\ schedule'.next \in Nat
      /\ schedule'.next > slot /\ schedule.next \in Nat /\ schedule'.next > schedule.next
      /\ schedule'.revision = schedule.revision /\ schedule'.state = schedule.state
      /\ schedule'.interval = schedule.interval
  BY <1>1 DEF IInv, TypeOK
<1>7. TypeOK'
  <2>1. schedule' \in [revision : Nat, state : State, interval : Nat, jitter : Nat, next : Nat]
    BY <1>1, <1>6 DEF IInv, TypeOK
  <2>2. schedule'.state = "enabled" <=> schedule'.next # Never
    BY <1>5, <1>6 DEF Never
  <2>3. run \in [revision : Nat, slot : Nat, missed : Nat, at : Time,
                 state : {"queued", "skipped_overlap"}]
    BY <1>1, <1>4, <1>5 DEF IInv, TypeOK
  <2>4. tick' \in [held : BOOLEAN, at : Time, revision : Nat, next : Nat, interval : Nat]
    BY <1>5, TimeAssumption DEF NoTick, Time, Never
  <2> QED
    BY <1>1, <1>5, <2>1, <2>2, <2>3, <2>4 DEF IInv, TypeOK
<1>8. LedgerInv'
  <2>1. schedule'.revision > 0 /\ schedule'.interval > 0
    BY <1>1, <1>5, <1>6
  <2> QED
    BY <1>5, <1>6, <2>1 DEF IInv, LedgerInv
<1>9. PICK v \in versions : v.open
  BY <1>5 DEF IInv, LedgerInv
<1>10. /\ v.state = "enabled" /\ v.interval = tick.interval /\ v.from \in Nat
       /\ v.until = Never /\ v.revision = schedule.revision
       /\ OnGrid(v.from, v.interval, schedule.next)
  BY <1>1, <1>5, <1>9 DEF IInv, LedgerInv, DueInv, TypeOK
<1>11. OnGrid(v.from, v.interval, slot)
  BY <1>1, <1>3, <1>6, <1>10, GridStep
<1>12. OnGrid(v.from, v.interval, schedule'.next)
  <2>1. 1 * tick.interval = tick.interval
    BY <1>1
  <2>2. OnGrid(v.from, v.interval, slot + 1 * tick.interval)
    BY <1>1, <1>10, <1>11, GridStep
  <2> QED
    BY <1>6, <2>1, <2>2
<1>13. \A w \in versions : w.open => w = v
  BY <1>9 DEF IInv, LedgerInv
<1>14. DueInv'
  <2>1. schedule'.next <= now + v.interval
    BY <1>1, <1>5, <1>6, <1>10 DEF IInv, TypeOK, Time
  <2> QED
    BY <1>5, <1>12, <1>13, <2>1 DEF DueInv
<1>15. SettledInv' /\ DisjointInv'
  BY <1>5 DEF IInv, SettledInv, DisjointInv, SlotOf
<1>16. RunInv'
  <2> SUFFICES ASSUME NEW r \in runs'
               PROVE  \E w \in versions :
                        /\ w.revision = r.revision
                        /\ SlotOf(w, r.slot)
                        /\ w.open => r.slot < schedule'.next
    BY <1>5 DEF RunInv, SlotOf
  <2>1. CASE r \in runs
    <3>1. r.slot \in Nat
      BY <2>1 DEF IInv, TypeOK
    <3> QED
      BY <1>6, <2>1, <3>1 DEF IInv, RunInv
  <2>2. CASE r = run
    BY <1>4, <1>6, <1>10, <1>11, <2>2 DEF SlotOf
  <2> QED
    BY <1>1, <2>1, <2>2
<1>17. TickInv' /\ UpdateInv' /\ 0 < now'
  BY <1>5, <1>6 DEF IInv, TickInv, UpdateInv, NoTick
<1>18. \A w \in versions : RunsOf(w)' = IF w = v THEN RunsOf(v) \cup {run} ELSE RunsOf(w)
  <2>1. run.revision = v.revision
    BY <1>4, <1>10
  <2>2. \A w \in versions : w.revision = v.revision => w = v
    BY <1>9 DEF IInv, LedgerInv
  <2> QED
    BY <1>1, <2>1, <2>2 DEF RunsOf
<1>19. \A t \in Answered(run, v) :
         /\ t \in Nat /\ OnGrid(v.from, v.interval, t)
         /\ schedule.next <= t
  <2> SUFFICES ASSUME NEW k \in 0..Missed
               PROVE  LET t == slot - k * v.interval
                      IN  /\ t \in Nat /\ OnGrid(v.from, v.interval, t)
                          /\ schedule.next <= t
    BY <1>4 DEF Answered
  <2>1. /\ (Missed - k) * tick.interval = Missed * tick.interval - k * tick.interval
        /\ Missed - k \in Nat
        /\ (Missed - k) * tick.interval \in Nat
    BY <1>1
  <2>2. slot - k * v.interval = schedule.next + (Missed - k) * tick.interval
    BY <1>1, <1>3, <1>6, <1>10, <2>1
  <2>3. OnGrid(v.from, v.interval, schedule.next + (Missed - k) * tick.interval)
    BY <1>1, <1>6, <1>10, <2>1, GridStep
  <2> QED
    BY <1>6, <2>1, <2>2, <2>3
<1>20. ASSUME NEW t \in Nat, OnGrid(v.from, v.interval, t), schedule.next <= t, t <= slot
       PROVE  t \in Answered(run, v)
  <2>1. PICK k \in Nat : t = schedule.next + k * tick.interval
    BY <1>1, <1>6, <1>10, <1>20, GridDifference
  <2>2. k <= Missed
    <3>1. ASSUME Missed < k PROVE FALSE
      <4>1. Missed * tick.interval + tick.interval <= k * tick.interval
        BY <1>1, <3>1, Products
      <4>2. k * tick.interval \in Nat /\ Missed * tick.interval \in Nat
        BY <1>1
      <4> QED
        BY <1>1, <1>3, <1>6, <1>20, <2>1, <4>1, <4>2
    <3> QED
      BY <1>1, <3>1
  <2>3. /\ (Missed - k) * tick.interval = Missed * tick.interval - k * tick.interval
        /\ Missed * tick.interval \in Nat /\ k * tick.interval \in Nat
    BY <1>1
  <2>4. t = slot - (Missed - k) * tick.interval /\ Missed - k \in 0..Missed
    BY <1>1, <1>3, <1>6, <2>1, <2>2, <2>3
  <2> QED
    BY <1>4, <1>10, <2>4 DEF Answered
<1>21. \A r \in RunsOf(v) : \A t \in Answered(r, v) : t < schedule.next
  <2> SUFFICES ASSUME NEW r \in RunsOf(v), NEW t \in Answered(r, v) PROVE t < schedule.next
    OBVIOUS
  <2>1. r \in runs /\ r.revision = v.revision /\ r.slot \in Nat /\ r.missed \in Nat
    BY DEF RunsOf, IInv, TypeOK
  <2>2. r.slot < schedule.next
    BY <1>9, <2>1 DEF IInv, RunInv, LedgerInv
  <2>3. PICK k \in 0..r.missed : t = r.slot - k * v.interval
    BY DEF Answered
  <2>4. k * v.interval \in Nat
    BY <1>1, <1>10, <2>1
  <2> QED
    BY <1>6, <2>1, <2>2, <2>3, <2>4
<1>22. ASSUME NEW t \in Nat, OnGrid(v.from, v.interval, t), t < schedule'.next
       PROVE  \E q \in RunsOf(v) \cup {run} : t \in Answered(q, v)
  <2>1. CASE t < schedule.next
    BY <1>9, <1>10, <1>22, <2>1 DEF IInv, AnswerInv
  <2>2. CASE schedule.next <= t
    <3>1. t <= slot
      <4>1. ASSUME slot < t PROVE FALSE
        <5>1. slot + tick.interval <= t
          BY <1>1, <1>10, <1>11, <1>22, <4>1, GridGap
        <5> QED
          BY <1>1, <1>6, <1>22, <5>1
      <4> QED
        BY <1>1, <4>1
    <3> QED
      BY <1>20, <1>22, <2>2, <3>1
  <2> QED
    BY <1>6, <2>1, <2>2
<1>23. AnswerInv'
  <2> SUFFICES ASSUME NEW w \in versions
               PROVE  /\ \A r \in RunsOf(w)' :
                           /\ \A t \in Answered(r, w) : t \in Nat /\ OnGrid(w.from, w.interval, t)
                           /\ \A q \in RunsOf(w)' : q # r => Answered(q, w) \cap Answered(r, w) = {}
                           /\ \A t \in Nat : OnGrid(w.from, w.interval, t) /\ t <= r.slot =>
                                \E q \in RunsOf(w)' : t \in Answered(q, w)
                      /\ w.open /\ w.state = "enabled" =>
                           \A t \in Nat : OnGrid(w.from, w.interval, t) /\ t < schedule'.next =>
                             \E q \in RunsOf(w)' : t \in Answered(q, w)
    BY <1>5 DEF AnswerInv, RunsOf, Answered
  <2>1. CASE w # v
    <3>1. RunsOf(w)' = RunsOf(w) /\ ~w.open
      BY <1>13, <1>18, <2>1
    <3> QED
      BY <3>1 DEF IInv, AnswerInv
  <2>2. CASE w = v
    <3>1. RunsOf(v)' = RunsOf(v) \cup {run}
      BY <1>18
    <3>2. \A r \in RunsOf(v) \cup {run} :
            \A t \in Answered(r, v) : t \in Nat /\ OnGrid(v.from, v.interval, t)
      BY <1>19 DEF IInv, AnswerInv
    <3>3. ASSUME NEW r \in RunsOf(v) \cup {run}, NEW q \in RunsOf(v) \cup {run}, q # r
          PROVE  Answered(q, v) \cap Answered(r, v) = {}
      <4>1. CASE r \in RunsOf(v) /\ q \in RunsOf(v)
        BY <3>3, <4>1 DEF IInv, AnswerInv
      <4>2. ASSUME NEW x \in RunsOf(v), NEW t, t \in Answered(x, v), t \in Answered(run, v)
            PROVE  FALSE
        BY <1>6, <1>19, <1>21, <4>2
      <4> QED
        BY <3>3, <4>1, <4>2
    <3>4. \A r \in RunsOf(v) \cup {run} : r.slot \in Nat /\ r.slot < schedule'.next
      <4>1. \A r \in RunsOf(v) : r.slot \in Nat /\ r.slot < schedule.next
        BY <1>9 DEF IInv, TypeOK, RunInv, LedgerInv, RunsOf
      <4> QED
        BY <1>1, <1>4, <1>6, <4>1
    <3>5. ASSUME NEW r \in RunsOf(v) \cup {run}, NEW t \in Nat,
                 OnGrid(v.from, v.interval, t), t <= r.slot
          PROVE  \E q \in RunsOf(v) \cup {run} : t \in Answered(q, v)
      BY <1>6, <1>22, <3>4, <3>5
    <3> QED
      BY <1>22, <2>2, <3>1, <3>2, <3>3, <3>5
  <2> QED
    BY <2>1, <2>2
<1> QED
  BY <1>23, <1>7, <1>8, <1>14, <1>15, <1>16, <1>17 DEF IInv

-----------------------------------------------------------------------------
(* The committed update                                                      *)

\* Every slot a version had before it is replaced has come when it ends where
\* an update ends it.
LEMMA ReplacedSlots ==
  ASSUME NEW from \in Nat, NEW i \in Nat \ {0}, NEW next \in Nat, NEW t \in Nat,
         NEW n \in Nat, OnGrid(from, i, next), OnGrid(from, i, t), t < next,
         next = from \/ next <= n + i
  PROVE  t <= n
<1>1. from <= t
  BY DEF OnGrid
<1>2. t + i <= next
  BY GridGap
<1> QED
  BY <1>1, <1>2

\* The ledger after an update: the open version closed, a new one opened.
LEMMA CommittedLedger ==
  ASSUME NEW u \in Update, NEW o \in 0..MaxTime, IInv, CommitUpdate(u, o)
  PROVE  LET old   == CHOOSE v \in versions : v.open
             until == DueUntil(schedule, schedule', Regrid(u))
             c     == Close(old, until)
             n     == NewVersion(schedule')
         IN  /\ old \in versions /\ old.open /\ \A v \in versions : v.open => v = old
             /\ until \in Nat /\ until > 0
             /\ c = [revision |-> old.revision, state |-> old.state,
                     interval |-> old.interval, from |-> old.from,
                     until |-> IF old.state = "enabled" THEN until ELSE Never,
                     open |-> FALSE]
             /\ n = [revision |-> schedule.revision + 1, state |-> schedule'.state,
                     interval |-> schedule'.interval, from |-> schedule'.next,
                     until |-> Never, open |-> TRUE]
             /\ versions' = (versions \ {old}) \cup {c, n}
             /\ schedule' \in [revision : Nat, state : State, interval : Nat,
                               jitter : Nat, next : Nat]
             /\ schedule'.revision = schedule.revision + 1
             /\ schedule'.interval > 0
             /\ schedule'.state = "enabled" <=> schedule'.next # Never
             /\ old.state = "enabled" =>
                  /\ schedule.next <= until
                  /\ \A t \in Nat : OnGrid(old.from, old.interval, t) /\ t < until =>
                       /\ t <= now
                       /\ schedule'.state = "enabled" => t < schedule'.next
             /\ schedule'.state = "enabled" =>
                  \/ schedule'.next > now
                  \/ old.state = "enabled" /\ schedule'.next = schedule.next
<1> DEFINE old   == CHOOSE v \in versions : v.open
           until == DueUntil(schedule, schedule', Regrid(u))
           c     == Close(old, until)
           n     == NewVersion(schedule')
<1>1. /\ update[u] \in [pc : {"idle", "loaded", "answered"}, revision : Nat, next : Nat,
                        interval : Nat, jitter : Nat, state : State]
      /\ update[u].interval > 0 /\ schedule.revision > 0
      /\ schedule \in [revision : Nat, state : State, interval : Nat, jitter : Nat, next : Nat]
      /\ schedule.state = "enabled" <=> schedule.next # Never
      /\ now \in Nat /\ now > 0 /\ o \in Nat
  BY TimeAssumption DEF IInv, TypeOK, UpdateInv, CommitUpdate, Time
<1>2. old \in versions /\ old.open /\ \A v \in versions : v.open => v = old
  BY <1>1, OpenVersion DEF IInv
<1>3. versions' = (versions \ {old}) \cup {c, n}
  BY DEF CommitUpdate
<1>4. schedule' = [revision |-> schedule.revision + 1, state |-> update[u].state,
                   interval |-> update[u].interval, jitter |-> update[u].jitter,
                   next |-> NextDue(u, Regrid(u), o)]
  BY DEF CommitUpdate
<1>5. /\ old \in [revision : Nat, state : State, interval : Nat,
                  from : Nat, until : Nat, open : BOOLEAN]
      /\ old.interval > 0 /\ old.state = schedule.state /\ old.interval = schedule.interval
      /\ old.revision = schedule.revision
  BY <1>2 DEF IInv, TypeOK, LedgerInv
<1>6. old.state = "enabled" =>
        /\ OnGrid(old.from, old.interval, schedule.next)
        /\ schedule.next = old.from \/ schedule.next <= now + old.interval
  BY <1>2 DEF IInv, DueInv
<1>7. ~Regrid(u) => update[u].state = schedule.state
  BY DEF Regrid
<1>8. /\ Regrid(u) => schedule'.next = IF update[u].state = "enabled"
                                       THEN now + update[u].interval + o ELSE Never
      /\ ~Regrid(u) => schedule'.next = schedule.next
  BY <1>4 DEF NextDue, KeptDue
<1>9. /\ Regrid(u) => until = IF schedule.next > now THEN schedule.next ELSE now
      /\ ~Regrid(u) => until = IF schedule'.next = Never THEN now ELSE schedule'.next
  BY DEF DueUntil
<1> HIDE DEF old, until, c, n
<1>10. schedule'.next \in Nat /\ until \in Nat /\ until > 0
  BY <1>1, <1>8, <1>9 DEF Never
<1>11. /\ schedule' \in [revision : Nat, state : State, interval : Nat,
                         jitter : Nat, next : Nat]
       /\ schedule'.revision = schedule.revision + 1 /\ schedule'.interval > 0
       /\ schedule'.state = update[u].state
  BY <1>1, <1>4, <1>10
<1>12. schedule'.state = "enabled" <=> schedule'.next # Never
  BY <1>1, <1>7, <1>8, <1>11 DEF Never
<1>13. c = [revision |-> old.revision, state |-> old.state,
            interval |-> old.interval, from |-> old.from,
            until |-> IF old.state = "enabled" THEN until ELSE Never,
            open |-> FALSE]
  <2>1. c = [old EXCEPT !.open = FALSE,
                        !.until = IF old.state = "enabled" THEN until ELSE Never]
    BY DEF c, Close
  <2> QED
    BY <1>5, <2>1
<1>14. n = [revision |-> schedule.revision + 1, state |-> schedule'.state,
            interval |-> schedule'.interval, from |-> schedule'.next,
            until |-> Never, open |-> TRUE]
  BY <1>11 DEF n, NewVersion
<1>15. ASSUME old.state = "enabled"
       PROVE  /\ schedule.next <= until
              /\ \A t \in Nat : OnGrid(old.from, old.interval, t) /\ t < until =>
                   /\ t <= now
                   /\ schedule'.state = "enabled" => t < schedule'.next
  <2>1. schedule.next # Never
    BY <1>1, <1>5, <1>15
  <2>2. schedule.next <= until /\ (until = schedule.next \/ until <= now)
    BY <1>1, <1>8, <1>9, <2>1
  <2>3. ASSUME NEW t \in Nat, OnGrid(old.from, old.interval, t), t < until
        PROVE  t <= now
    <3>1. CASE until <= now
      BY <1>1, <1>10, <2>3, <3>1
    <3>2. CASE until = schedule.next
      <4>1. /\ OnGrid(old.from, old.interval, schedule.next) /\ t < schedule.next
            /\ schedule.next = old.from \/ schedule.next <= now + old.interval
        BY <1>6, <1>15, <2>3, <3>2
      <4>2. old.from \in Nat /\ old.interval \in Nat \ {0} /\ schedule.next \in Nat
        BY <1>1, <1>5
      <4> QED
        BY <1>1, <2>3, <4>1, <4>2, ReplacedSlots
    <3> QED
      BY <2>2, <3>1, <3>2
  <2>4. ASSUME NEW t \in Nat, OnGrid(old.from, old.interval, t), t < until,
               schedule'.state = "enabled"
        PROVE  t < schedule'.next
    <3>1. CASE Regrid(u)
      <4>1. schedule'.next = now + update[u].interval + o /\ t <= now
        BY <1>8, <1>11, <2>3, <2>4, <3>1
      <4> QED
        BY <1>1, <2>4, <4>1
    <3>2. CASE ~Regrid(u)
      <4>1. until = schedule'.next
        BY <1>8, <1>9, <2>1, <3>2
      <4> QED
        BY <2>4, <4>1
    <3> QED
      BY <3>1, <3>2
  <2> QED
    BY <2>2, <2>3, <2>4
<1>16. schedule'.state = "enabled" =>
         \/ schedule'.next > now
         \/ old.state = "enabled" /\ schedule'.next = schedule.next
  BY <1>1, <1>5, <1>7, <1>8, <1>11
<1> QED
  BY <1>2, <1>3, <1>5, <1>10, <1>11, <1>12, <1>13, <1>14, <1>15, <1>16
  DEF old, until, c, n

LEMMA CommitStep ==
  ASSUME NEW u \in Update, NEW o \in 0..MaxTime, IInv, CommitUpdate(u, o)
  PROVE  IInv'
<1> DEFINE old   == CHOOSE v \in versions : v.open
           until == DueUntil(schedule, schedule', Regrid(u))
           c     == Close(old, until)
           n     == NewVersion(schedule')
<1>1. /\ old \in versions /\ old.open /\ \A v \in versions : v.open => v = old
      /\ until \in Nat /\ until > 0
      /\ c = [revision |-> old.revision, state |-> old.state,
              interval |-> old.interval, from |-> old.from,
              until |-> IF old.state = "enabled" THEN until ELSE Never,
              open |-> FALSE]
      /\ n = [revision |-> schedule.revision + 1, state |-> schedule'.state,
              interval |-> schedule'.interval, from |-> schedule'.next,
              until |-> Never, open |-> TRUE]
      /\ versions' = (versions \ {old}) \cup {c, n}
      /\ schedule' \in [revision : Nat, state : State, interval : Nat,
                        jitter : Nat, next : Nat]
      /\ schedule'.revision = schedule.revision + 1
      /\ schedule'.interval > 0
      /\ schedule'.state = "enabled" <=> schedule'.next # Never
  BY CommittedLedger
<1>2. old.state = "enabled" =>
        /\ schedule.next <= until
        /\ \A t \in Nat : OnGrid(old.from, old.interval, t) /\ t < until =>
             /\ t <= now
             /\ schedule'.state = "enabled" => t < schedule'.next
  BY CommittedLedger
<1>3. schedule'.state = "enabled" =>
        \/ schedule'.next > now
        \/ old.state = "enabled" /\ schedule'.next = schedule.next
  BY CommittedLedger
<1> HIDE DEF old, until, c, n
<1>4. /\ update[u].pc = "loaded" /\ schedule.revision = update[u].revision
      /\ update' = [update EXCEPT ![u] = Idle("answered")]
      /\ UNCHANGED <<now, runs, tick>>
  BY DEF CommitUpdate
<1>5. /\ old \in [revision : Nat, state : State, interval : Nat,
                  from : Nat, until : Nat, open : BOOLEAN]
      /\ schedule.revision \in Nat /\ schedule.revision > 0 /\ now \in Nat
      /\ schedule.next \in Nat
      /\ old.interval > 0 /\ old.until = Never /\ old.revision = schedule.revision
  BY <1>1, <1>4 DEF IInv, TypeOK, LedgerInv, UpdateInv, Time
<1>6. TypeOK'
  <2>1. /\ c \in [revision : Nat, state : State, interval : Nat,
                  from : Nat, until : Nat, open : BOOLEAN]
        /\ n \in [revision : Nat, state : State, interval : Nat,
                  from : Nat, until : Nat, open : BOOLEAN]
    BY <1>1, <1>5 DEF Never
  <2>2. versions' \subseteq [revision : Nat, state : State, interval : Nat,
                             from : Nat, until : Nat, open : BOOLEAN]
    BY <1>1, <2>1 DEF IInv, TypeOK
  <2>3. update' \in [Update -> [pc : {"idle", "loaded", "answered"}, revision : Nat,
                                next : Nat, interval : Nat, jitter : Nat, state : State]]
    BY <1>4 DEF IInv, TypeOK, Idle, State, Never
  <2> QED
    BY <1>1, <1>4, <2>2, <2>3 DEF IInv, TypeOK
<1>7. LedgerInv'
  <2>1. \A v \in versions' : v = c \/ v = n \/ (v \in versions /\ v # old)
    BY <1>1
  <2>2. \A v \in versions : v # old => ~v.open /\ v.revision < schedule.revision
    BY <1>1, <1>5 DEF IInv, LedgerInv, TypeOK
  <2>3. c.revision = schedule.revision /\ n.revision = schedule.revision + 1
    BY <1>1, <1>5
  <2>4. \A v \in versions' :
       /\ 0 < v.revision /\ v.revision <= schedule'.revision
       /\ v.interval > 0
    BY <1>1, <1>5, <2>1 DEF IInv, LedgerInv, TypeOK
  <2>5. \A v \in versions' : v.open <=> v.revision = schedule'.revision
    <3>1. c.open = FALSE /\ n.open = TRUE
      BY <1>1
    <3> QED
      BY <1>1, <1>5, <2>1, <2>2, <2>3, <3>1
  <2>6. ASSUME NEW v \in versions'
        PROVE  /\ v.open => v.until = Never /\ v.state = schedule'.state
                            /\ v.interval = schedule'.interval
               /\ ~v.open /\ v.state = "enabled" => v.until # Never
    <3>1. CASE v = c
      BY <1>1, <3>1 DEF Never
    <3>2. CASE v = n
      BY <1>1, <3>2
    <3>3. CASE v \in versions /\ v # old
      BY <2>2, <3>3 DEF IInv, LedgerInv
    <3> QED
      BY <2>1, <3>1, <3>2, <3>3
  <2>7. \A v, w \in versions' : v.revision = w.revision => v = w
    BY <1>5, <2>1, <2>2, <2>3 DEF IInv, LedgerInv
  <2>8. \E v \in versions' : v.open
    BY <1>1
  <2> QED
    BY <1>1, <1>5, <2>4, <2>5, <2>6, <2>7, <2>8 DEF LedgerInv
<1>8. \A v \in versions' : v = c \/ v = n \/ (v \in versions /\ v # old /\ ~v.open)
  BY <1>1
<1>9. c.open = FALSE /\ n.open = TRUE
  BY <1>1
<1>10. DueInv'
  <2>1. OnGrid(n.from, n.interval, schedule'.next) /\ schedule'.next = n.from
    BY <1>1, GridStart
  <2> QED
    BY <1>8, <1>9, <2>1 DEF DueInv
<1>11. \A t \in Nat : SlotOf(c, t) =>
         SlotOf(old, t) /\ t <= now /\ (schedule'.state = "enabled" => t < schedule'.next)
  BY <1>1, <1>2, <1>5 DEF SlotOf, Never
<1>12. SettledInv'
  <2> SUFFICES ASSUME NEW w \in versions', ~w.open, NEW t \in Nat, SlotOf(w, t)
               PROVE  t <= now /\ (n.state = "enabled" => t < n.from)
    BY <1>4, <1>8, <1>9 DEF SettledInv, SlotOf
  <2>1. CASE w = c
    BY <1>1, <1>11, <2>1
  <2>2. CASE w \in versions /\ w # old
    <3>1. t <= now /\ (old.state = "enabled" => t < old.from)
      BY <1>1, <2>2 DEF IInv, SettledInv
    <3>2. old.state = "enabled" => old.from <= schedule.next
      BY <1>1 DEF IInv, DueInv, OnGrid
    <3>3. n.state = schedule'.state /\ n.from = schedule'.next
      BY <1>1
    <3> QED
      BY <1>3, <1>5, <1>1, <3>1, <3>2, <3>3
  <2> QED
    BY <1>8, <1>9, <2>1, <2>2
<1>13. DisjointInv'
  <2>1. ASSUME NEW w \in versions', w # n, NEW t \in Nat
        PROVE  ~(SlotOf(n, t) /\ SlotOf(w, t))
    <3>1. SlotOf(n, t) => n.state = "enabled" /\ n.from <= t
      BY DEF SlotOf, OnGrid
    <3>2. ~w.open /\ n \in versions' /\ n.from \in Nat
      BY <1>1, <1>8, <1>9, <2>1
    <3>3. SlotOf(w, t) /\ n.state = "enabled" => t < n.from
      BY <1>9, <1>12, <3>2 DEF SettledInv, SlotOf
    <3> QED
      BY <3>1, <3>2, <3>3
  <2>2. ASSUME NEW v \in versions', NEW w \in versions', v # w, v # n, w # n, NEW t \in Nat
        PROVE  ~(SlotOf(v, t) /\ SlotOf(w, t))
    <3>1. CASE v \in versions /\ w \in versions
      BY <2>2, <3>1 DEF IInv, DisjointInv
    <3>2. CASE v = c /\ w \in versions /\ w # old
      BY <1>1, <1>11, <3>2 DEF IInv, DisjointInv
    <3>3. CASE w = c /\ v \in versions /\ v # old
      BY <1>1, <1>11, <3>3 DEF IInv, DisjointInv
    <3> QED
      BY <1>8, <2>2, <3>1, <3>2, <3>3
  <2> QED
    BY <2>1, <2>2 DEF DisjointInv, SlotOf
<1>14. RunInv'
  <2> SUFFICES ASSUME NEW r \in runs
               PROVE  \E w \in versions' :
                        /\ w.revision = r.revision
                        /\ SlotOf(w, r.slot)
                        /\ w.open => r.slot < schedule'.next
    BY <1>4 DEF RunInv, SlotOf
  <2>1. PICK v \in versions :
          v.revision = r.revision /\ SlotOf(v, r.slot) /\ (v.open => r.slot < schedule.next)
    BY DEF IInv, RunInv
  <2>2. CASE v = old
    <3>1. r.slot < schedule.next /\ old.state = "enabled" /\ r.slot \in Nat
      BY <1>1, <2>1, <2>2 DEF SlotOf, IInv, TypeOK
    <3>2. r.slot < until
      BY <1>1, <1>2, <1>5, <3>1
    <3>3. c \in versions' /\ c.revision = r.revision /\ SlotOf(c, r.slot)
      BY <1>1, <2>1, <2>2, <3>1, <3>2 DEF SlotOf
    <3> QED
      BY <1>9, <3>3
  <2>3. CASE v # old
    BY <1>1, <2>1, <2>3
  <2> QED
    BY <2>2, <2>3
<1>15. TickInv'
  BY <1>1, <1>4, <1>5 DEF IInv, TypeOK, TickInv
<1>16. UpdateInv' /\ 0 < now'
  <2>1. \A w \in Update : update'[w].pc = "loaded" => update'[w] = update[w]
    BY <1>4 DEF IInv, TypeOK, Idle
  <2> QED
    BY <1>1, <1>4, <1>5, <2>1 DEF IInv, TypeOK, UpdateInv
<1>17. AnswerInv'
  <2> SUFFICES ASSUME NEW w \in versions'
               PROVE  /\ \A r \in RunsOf(w)' :
                           /\ \A t \in Answered(r, w) : t \in Nat /\ OnGrid(w.from, w.interval, t)
                           /\ \A q \in RunsOf(w)' : q # r => Answered(q, w) \cap Answered(r, w) = {}
                           /\ \A t \in Nat : OnGrid(w.from, w.interval, t) /\ t <= r.slot =>
                                \E q \in RunsOf(w)' : t \in Answered(q, w)
                      /\ w.open /\ w.state = "enabled" =>
                           \A t \in Nat : OnGrid(w.from, w.interval, t) /\ t < schedule'.next =>
                             \E q \in RunsOf(w)' : t \in Answered(q, w)
    BY DEF AnswerInv, RunsOf, Answered
  <2>1. RunsOf(w)' = RunsOf(w)
    BY <1>4 DEF RunsOf
  <2>2. CASE w = n
    <3>1. \A r \in runs : \E v \in versions : r.revision = v.revision
      BY DEF IInv, RunInv
    <3>2. \A v \in versions : v.revision # w.revision
      BY <1>1, <1>5, <2>2 DEF IInv, LedgerInv, TypeOK
    <3>3. RunsOf(w) = {}
      BY <3>1, <3>2 DEF RunsOf
    <3>4. \A t \in Nat : ~(OnGrid(w.from, w.interval, t) /\ t < schedule'.next)
      BY <1>1, <2>2 DEF OnGrid
    <3> QED
      BY <2>1, <3>3, <3>4
  <2>3. CASE w = c
    <3>1. /\ w.from = old.from /\ w.interval = old.interval /\ w.revision = old.revision
          /\ ~w.open
      BY <1>1, <2>3
    <3>2. RunsOf(w) = RunsOf(old) /\ \A r \in runs : Answered(r, w) = Answered(r, old)
      BY <3>1 DEF RunsOf, Answered
    <3>3. RunsOf(old) \subseteq runs
      BY DEF RunsOf
    <3>4. /\ \A r \in RunsOf(old) :
               /\ \A t \in Answered(r, old) : t \in Nat /\ OnGrid(old.from, old.interval, t)
               /\ \A q \in RunsOf(old) : q # r => Answered(q, old) \cap Answered(r, old) = {}
               /\ \A t \in Nat : OnGrid(old.from, old.interval, t) /\ t <= r.slot =>
                    \E q \in RunsOf(old) : t \in Answered(q, old)
      BY <1>1 DEF IInv, AnswerInv
    <3> QED
      BY <2>1, <3>1, <3>2, <3>3, <3>4
  <2>4. CASE w \in versions /\ w # old /\ ~w.open
    BY <2>1, <2>4 DEF IInv, AnswerInv
  <2> QED
    BY <1>8, <2>2, <2>3, <2>4
<1> QED
  BY <1>6, <1>7, <1>10, <1>12, <1>13, <1>14, <1>15, <1>16, <1>17 DEF IInv

-----------------------------------------------------------------------------
(* The theorems                                                              *)

\* The grids of the ledger partition the slots, every run answers one of them
\* and the scheduler's and the updates' copies are never ahead of the row.
THEOREM ScheduleInvariant == Spec => []IInv
<1>1. Init => IInv
  BY IInvInit
<1>2. IInv /\ [Next]_vars => IInv'
  <2> SUFFICES ASSUME IInv, [Next]_vars PROVE IInv'
    OBVIOUS
  <2>1. CASE Tick
    BY <2>1, TickStep
  <2>2. ASSUME NEW i \in Interval, NEW j \in Jitter, NEW s \in {"enabled", "paused"},
               NEW o \in 0..MaxTime, Create(i, j, o, s)
        PROVE  IInv'
    BY <2>2, CreateStep
  <2>3. ASSUME NEW u \in Update, NEW i \in Interval, NEW j \in Jitter, NEW s \in State,
               LoadUpdate(u, i, j, s)
        PROVE  IInv'
    BY <2>3, LoadStep
  <2>4. ASSUME NEW u \in Update, NEW o \in 0..MaxTime, CommitUpdate(u, o)
        PROVE  IInv'
    BY <2>4, CommitStep
  <2>5. ASSUME NEW u \in Update, RefuseUpdate(u)
        PROVE  IInv'
    BY <2>5, RefuseStep
  <2>6. CASE Scan
    BY <2>6, ScanStep
  <2>7. CASE Forgo
    BY <2>7, ForgoStep
  <2>8. ASSUME NEW s \in {"queued", "skipped_overlap"}, Claim(s)
        PROVE  IInv'
    BY <2>8, ClaimStep
  <2>9. CASE UNCHANGED vars
    BY <2>9 DEF vars, IInv, TypeOK, LedgerInv, DueInv, SettledInv, DisjointInv,
                RunInv, AnswerInv, TickInv, UpdateInv, SlotOf, RunsOf
  <2> QED
    BY <2>1, <2>2, <2>3, <2>4, <2>5, <2>6, <2>7, <2>8, <2>9 DEF Next
<1> QED
  BY <1>1, <1>2, PTL DEF Spec

\* The rows of the schedule, its ledger and its runs keep their types.
THEOREM ScheduleTypes == Spec => []TypeOK
<1>1. IInv => TypeOK
  BY DEF IInv
<1> QED
  BY <1>1, ScheduleInvariant, PTL

\* No due slot is expected by two versions, up to any horizon.
THEOREM DisjointGrids == Spec => []SlotHasOneVersion
<1>1. IInv => SlotHasOneVersion
  <2> SUFFICES ASSUME IInv, NEW v \in versions, NEW w \in versions, v # w,
                      NEW t \in ExpectedSlots(v, MaxTime) \cap ExpectedSlots(w, MaxTime)
               PROVE  FALSE
    BY DEF SlotHasOneVersion
  <2>1. /\ v.from \in Nat /\ v.until \in Nat /\ v.interval \in Nat \ {0}
        /\ w.from \in Nat /\ w.until \in Nat /\ w.interval \in Nat \ {0}
    BY DEF IInv, TypeOK, LedgerInv
  <2>2. t \in Nat /\ MaxTime \in Nat
    BY <2>1, TimeAssumption DEF ExpectedSlots
  <2>3. SlotOf(v, t) /\ SlotOf(w, t)
    BY <2>1, <2>2, Expected
  <2> QED
    BY <2>2, <2>3 DEF IInv, DisjointInv
<1> QED
  BY <1>1, ScheduleInvariant, PTL

\* Every scheduled run answers a slot the ledger expects of its version.
THEOREM AnsweredSlots == Spec => []RunsAnswerExpectedSlots
<1>1. IInv => RunsAnswerExpectedSlots
  <2> SUFFICES ASSUME IInv, NEW r \in runs
               PROVE  \E v \in versions :
                        v.revision = r.revision /\ r.slot \in ExpectedSlots(v, r.slot + 1)
    BY DEF RunsAnswerExpectedSlots
  <2>1. PICK v \in versions : v.revision = r.revision /\ SlotOf(v, r.slot)
    BY DEF IInv, RunInv
  <2>2. /\ v.from \in Nat /\ v.until \in Nat /\ v.interval \in Nat \ {0}
        /\ r.slot \in Nat /\ r.slot + 1 \in Nat /\ r.slot < r.slot + 1
    BY DEF IInv, TypeOK, LedgerInv
  <2> QED
    BY <2>1, <2>2, Expected
<1> QED
  BY <1>1, ScheduleInvariant, PTL

\* Every slot up to the last claim of a version is answered by exactly one of
\* its runs, which claims it or counts it as missed.
THEOREM EverySlotAccounted == Spec => []MissedSlotsAccounted
<1>1. IInv => MissedSlotsAccounted
  <2> SUFFICES ASSUME IInv, NEW v \in versions, NEW r \in RunsOf(v)
               PROVE  /\ Answered(r, v) \subseteq ExpectedSlots(v, r.slot + 1)
                      /\ \A q \in RunsOf(v) : q # r => Answered(q, v) \cap Answered(r, v) = {}
                      /\ \A t \in ExpectedSlots(v, r.slot + 1) :
                           \E q \in RunsOf(v) : t \in Answered(q, v)
    BY DEF MissedSlotsAccounted
  <2>1. /\ v.from \in Nat /\ v.until \in Nat /\ v.interval \in Nat \ {0}
        /\ r \in runs /\ r.revision = v.revision /\ r.slot \in Nat /\ r.missed \in Nat
        /\ r.slot + 1 \in Nat
    BY DEF IInv, TypeOK, LedgerInv, RunsOf
  <2>2. SlotOf(v, r.slot)
    BY <2>1 DEF IInv, RunInv, LedgerInv
  <2>3. ASSUME NEW t \in Answered(r, v) PROVE t \in ExpectedSlots(v, r.slot + 1)
    <3>1. t \in Nat /\ OnGrid(v.from, v.interval, t)
      BY DEF IInv, AnswerInv
    <3>2. PICK k \in 0..r.missed : t = r.slot - k * v.interval
      BY DEF Answered
    <3>3. k * v.interval \in Nat
      BY <2>1
    <3>4. t <= r.slot
      BY <2>1, <3>2, <3>3
    <3>5. SlotOf(v, t) /\ t < r.slot + 1
      BY <2>1, <2>2, <3>1, <3>4 DEF SlotOf
    <3> QED
      BY <2>1, <3>1, <3>5, Expected
  <2>4. ASSUME NEW t \in ExpectedSlots(v, r.slot + 1)
        PROVE  \E q \in RunsOf(v) : t \in Answered(q, v)
    <3>1. t \in Nat
      BY <2>1 DEF ExpectedSlots
    <3>2. SlotOf(v, t) /\ t <= r.slot
      BY <2>1, <3>1, Expected
    <3> QED
      BY <3>1, <3>2 DEF IInv, AnswerInv, SlotOf
  <2> QED
    BY <2>3, <2>4 DEF IInv, AnswerInv
<1> QED
  BY <1>1, ScheduleInvariant, PTL

\* A claim leaves no slot behind that was due when its tick began: whatever
\* the outage, one run catches up.
THEOREM OneRunCatchesUp == Spec => CatchUpIsOneRun
<1>1. IInv /\ [Next]_vars => [\A r \in runs' \ runs : schedule'.next > r.at]_vars
  <2> SUFFICES ASSUME IInv, Next PROVE \A r \in runs' \ runs : schedule'.next > r.at
    OBVIOUS
  <2>1. ASSUME NEW s \in {"queued", "skipped_overlap"}, Claim(s), NEW r \in runs' \ runs
        PROVE  schedule'.next > r.at
    <3> DEFINE slot == tick.next + Missed * tick.interval
    <3>1. /\ slot \in Nat /\ tick.interval \in Nat \ {0} /\ tick.at \in Nat
          /\ tick.at < slot + tick.interval
          /\ r.at = tick.at
          /\ schedule' = [schedule EXCEPT !.next = slot + tick.interval]
      BY <2>1, ClaimedSlot
    <3> HIDE DEF slot
    <3>2. schedule'.next = slot + tick.interval
      BY <3>1 DEF IInv, TypeOK
    <3> QED
      BY <3>1, <3>2
  <2>2. (\E s \in {"queued", "skipped_overlap"} : Claim(s)) \/ runs' = runs
    BY DEF Next, Tick, Create, LoadUpdate, CommitUpdate, RefuseUpdate, Scan, Forgo
  <2> QED
    BY <2>1, <2>2
<1> QED
  BY <1>1, ScheduleInvariant, PTL DEF Spec, CatchUpIsOneRun

-----------------------------------------------------------------------------
(* The counter of a rollup: buckets *)

LEMMA WholeMultiple ==
  ASSUME NEW r \in Nat, NEW w \in Nat \ {0}, r % w = 0
  PROVE  r = (r \div w) * w /\ r \div w \in Nat
OBVIOUS

LEMMA WidthIsPositive ==
  ASSUME NEW res
  PROVE  Width(res) \in Nat \ {0}
BY LengthAssumption DEF Lengths, Width

\* An instant lies in its bucket.
LEMMA FloorBounds ==
  ASSUME NEW t \in Int, NEW res
  PROVE  /\ Floor(t, res) \in Int
         /\ Floor(t, res) <= t /\ t < Floor(t, res) + Width(res)
         /\ t >= 0 => Floor(t, res) >= 0
<1> DEFINE w == Width(res)
<1>1. w \in Nat \ {0}
  BY WidthIsPositive
<1> HIDE DEF w
<1>2. /\ t \div w \in Int
      /\ (t \div w) * w <= t /\ t < (t \div w) * w + w
  BY <1>1
<1>3. t >= 0 => (t \div w) * w >= 0
  BY <1>1
<1> QED
  BY <1>1, <1>2, <1>3 DEF Floor, w

\* A multiple of the width that is no later than an instant is no later than
\* its bucket.
LEMMA FloorIsGreatest ==
  ASSUME NEW t \in Int, NEW res, NEW k \in Int, k * Width(res) <= t
  PROVE  k * Width(res) <= Floor(t, res)
<1> DEFINE w == Width(res)
           n == t \div w
<1>1. w \in Nat \ {0}
  BY WidthIsPositive
<1>2. k * w <= t
  OBVIOUS
<1> HIDE DEF w
<1>3. n \in Int /\ n * w <= t /\ t < n * w + w
  BY <1>1
<1> HIDE DEF n
<1>4. ASSUME n < k PROVE FALSE
  <2>1. n + 1 <= k
    BY <1>3, <1>4
  <2>2. (n + 1) * w <= k * w
    BY <1>1, <1>3, <2>1
  <2>3. (n + 1) * w = n * w + w
    BY <1>1, <1>3
  <2> QED
    BY <1>1, <1>2, <1>3, <2>2, <2>3
<1>5. k <= n
  BY <1>3, <1>4
<1>6. k * w <= n * w
  BY <1>1, <1>3, <1>5
<1> QED
  BY <1>6 DEF Floor, n, w

LEMMA FloorIsMultiple ==
  ASSUME NEW t \in Int, NEW res
  PROVE  \E k \in Int : Floor(t, res) = k * Width(res)
<1> DEFINE w == Width(res)
<1>1. w \in Nat \ {0}
  BY WidthIsPositive
<1> HIDE DEF w
<1>2. t \div w \in Int
  BY <1>1
<1> QED
  BY <1>2 DEF Floor, w

LEMMA FloorMonotone ==
  ASSUME NEW t \in Int, NEW u \in Int, t <= u, NEW res
  PROVE  Floor(t, res) <= Floor(u, res)
<1>1. PICK k \in Int : Floor(t, res) = k * Width(res)
  BY FloorIsMultiple
<1>2. Floor(t, res) <= u
  BY FloorBounds
<1> QED
  BY <1>1, <1>2, FloorIsGreatest

\* The end of a bucket below another is no later than that one.
LEMMA FloorGap ==
  ASSUME NEW t \in Int, NEW u \in Int, NEW res, t < Floor(u, res)
  PROVE  Floor(t, res) + Width(res) <= Floor(u, res)
<1> DEFINE w == Width(res)
<1>1. w \in Nat \ {0}
  BY WidthIsPositive
<1>2. PICK k \in Int : Floor(t, res) = k * w
  BY FloorIsMultiple
<1>3. PICK n \in Int : Floor(u, res) = n * w
  BY FloorIsMultiple
<1>4. k * w < n * w
  BY <1>2, <1>3, FloorBounds
<1> HIDE DEF w
<1>5. k < n
  <2>1. ASSUME n <= k PROVE FALSE
    <3>1. n * w <= k * w
      BY <1>1, <2>1
    <3> QED
      BY <1>1, <1>4, <3>1
  <2> QED
    BY <2>1
<1>6. (k + 1) * w <= n * w
  BY <1>1, <1>5
<1>7. (k + 1) * w = k * w + w
  BY <1>1
<1> QED
  BY <1>2, <1>3, <1>6, <1>7 DEF w

LEMMA FloorUnique ==
  ASSUME NEW t \in Int, NEW u \in Int, NEW res,
         Floor(t, res) <= u, u < Floor(t, res) + Width(res)
  PROVE  Floor(u, res) = Floor(t, res)
<1>1. Width(res) \in Nat \ {0}
  BY WidthIsPositive
<1>2. Floor(t, res) \in Int /\ Floor(u, res) \in Int /\ Floor(u, res) <= u
  BY FloorBounds
<1>3. Floor(t, res) <= Floor(u, res)
  <2>1. PICK k \in Int : Floor(t, res) = k * Width(res)
    BY FloorIsMultiple
  <2> QED
    BY <2>1, FloorIsGreatest
<1>4. ASSUME Floor(t, res) < Floor(u, res) PROVE FALSE
  <2>1. t < Floor(u, res)
    <3>1. ASSUME Floor(u, res) <= t PROVE FALSE
      <4>1. PICK k \in Int : Floor(u, res) = k * Width(res)
        BY FloorIsMultiple
      <4>2. Floor(u, res) <= Floor(t, res)
        BY <3>1, <4>1, FloorIsGreatest
      <4> QED
        BY <1>2, <1>4, <4>2
    <3> QED
      BY <1>2, <3>1
  <2>2. Floor(t, res) + Width(res) <= Floor(u, res)
    BY <2>1, FloorGap
  <2> QED
    BY <1>1, <1>2, <2>2
<1> QED
  BY <1>2, <1>3, <1>4

\* A day is whole hours.
LEMMA DayIsHours ==
  \E k \in Nat \ {0} : DayLength = k * HourLength
<1> DEFINE k == DayLength \div HourLength
<1>1. HourLength \in Nat \ {0} /\ DayLength \in Nat \ {0} /\ DayLength % HourLength = 0
  BY LengthAssumption DEF Lengths
<1>2. k \in Nat /\ DayLength = k * HourLength
  BY <1>1, WholeMultiple
<1> HIDE DEF k
<1>3. k # 0
  BY <1>1, <1>2
<1> QED
  BY <1>2, <1>3

LEMMA DayBeforeHour ==
  ASSUME NEW t \in Int, NEW res \in Resolution
  PROVE  Floor(t, "day") <= Floor(t, res)
<1>1. CASE res = "day"
  BY <1>1, FloorBounds
<1>2. CASE res = "hour"
  <2>1. PICK k \in Nat \ {0} : DayLength = k * HourLength
    BY DayIsHours
  <2>2. PICK m \in Int : Floor(t, "day") = m * DayLength
    BY FloorIsMultiple DEF Width
  <2>3. HourLength \in Nat \ {0} /\ Width("hour") = HourLength
    BY LengthAssumption DEF Lengths, Width
  <2>4. m * k \in Int /\ (m * k) * HourLength = m * DayLength
    BY <2>1, <2>3
  <2>5. (m * k) * Width("hour") <= t
    BY <2>2, <2>3, <2>4, FloorBounds
  <2>6. (m * k) * Width("hour") <= Floor(t, "hour")
    BY <2>4, <2>5, FloorIsGreatest
  <2> QED
    BY <1>2, <2>2, <2>3, <2>4, <2>6
<1> QED
  BY <1>1, <1>2 DEF Resolution

\* Whole days earlier is a bucket as much earlier.
LEMMA FloorShift ==
  ASSUME NEW t \in Int, NEW r \in {RawRetention, HourRetention, DayRetention}
  PROVE  Floor(t - r, "day") = Floor(t, "day") - r
<1> DEFINE w == Width("day")
<1>1. w \in Nat \ {0} /\ w = DayLength /\ r \in Nat /\ r % w = 0
  BY LengthAssumption DEF Lengths, Width
<1> HIDE DEF w
<1>2. PICK k \in Int : r = k * w
  <2> DEFINE k == r \div w
  <2>1. r = k * w /\ k \in Nat
    BY <1>1, WholeMultiple
  <2> HIDE DEF k
  <2> QED
    BY <2>1
<1>3. PICK m \in Int : Floor(t, "day") = m * w
  BY FloorIsMultiple DEF w
<1>4. m - k \in Int /\ (m - k) * w = m * w - k * w
  BY <1>1, <1>2, <1>3
<1>5. Floor(t, "day") <= t /\ t < Floor(t, "day") + w
  BY FloorBounds DEF w
<1> DEFINE u == Floor(t, "day") - r
<1>6. u \in Int /\ u = (m - k) * w /\ t - r \in Int /\ u <= t - r /\ t - r < u + w
  BY <1>1, <1>2, <1>3, <1>4, <1>5
<1> HIDE DEF u
<1>7. Floor(u, "day") = u
  <2>1. u <= Floor(u, "day")
    BY <1>4, <1>6, FloorIsGreatest DEF w
  <2>2. Floor(u, "day") \in Int /\ Floor(u, "day") <= u
    BY <1>6, FloorBounds
  <2> QED
    BY <1>6, <2>1, <2>2
<1>8. Floor(t - r, "day") = Floor(u, "day")
  <2>1. Floor(u, "day") <= t - r /\ t - r < Floor(u, "day") + Width("day")
    BY <1>6, <1>7 DEF w
  <2> QED
    BY <1>6, <2>1, FloorUnique
<1> QED
  BY <1>7, <1>8 DEF u

\* A retention is at least a day, and a commit takes less than an hour.
LEMMA Spans ==
  /\ {HourLength, DayLength, RawRetention, HourRetention, DayRetention} \subseteq Nat \ {0}
  /\ MaxDelay \in Nat /\ MaxDelay < HourLength /\ HourLength <= DayLength
  /\ DayLength <= RawRetention /\ RawRetention <= DayRetention
<1>1. /\ {HourLength, DayLength, RawRetention, HourRetention, DayRetention} \subseteq Nat \ {0}
      /\ MaxDelay \in Nat /\ MaxDelay < HourLength /\ RawRetention % DayLength = 0
      /\ RawRetention <= HourRetention /\ HourRetention <= DayRetention
  BY LengthAssumption DEF Lengths
<1>2. HourLength <= DayLength
  <2>1. PICK k \in Nat \ {0} : DayLength = k * HourLength
    BY DayIsHours
  <2>2. HourLength \in Nat /\ 1 * HourLength <= k * HourLength
    BY <1>1
  <2> QED
    BY <2>1, <2>2
<1>3. DayLength <= RawRetention
  <2> DEFINE k == RawRetention \div DayLength
  <2>1. k \in Nat /\ RawRetention = k * DayLength
    BY <1>1, WholeMultiple
  <2> HIDE DEF k
  <2>2. k # 0
    BY <1>1, <2>1
  <2> QED
    BY <1>1, <2>1, <2>2
<1> QED
  BY <1>1, <1>2, <1>3

-----------------------------------------------------------------------------
(* Samples in the order of their times                                       *)

\* Finitely many samples, no two of the same time.
Timed(X) ==
  /\ IsFiniteSet(X)
  /\ \A s \in X : s.at \in Int
  /\ \A s, t \in X : s.at = t.at => s = t

LEMMA SmallestSubset ==
  ASSUME NEW X, IsFiniteSet(X), NEW B \in SUBSET (SUBSET X), B # {}
  PROVE  \E T \in B : \A U \in B : U \subseteq T => U = T
<1>1. IsWellFoundedOn(StrictSubsetOrdering(X), SUBSET X)
  BY FS_StrictSubsetOrderingWellFounded, FS_FiniteSubsetsOfFinite
<1>2. PICK T \in B : \A U \in B : ~(<<U, T>> \in StrictSubsetOrdering(X))
  BY <1>1, WFMin, Zenon
<1>3. \A U \in B : U \subseteq T => U = T
  BY <1>2 DEF StrictSubsetOrdering
<1> QED
  BY <1>3

LEMMA TimedSubset ==
  ASSUME NEW X, Timed(X), NEW T \in SUBSET X
  PROVE  Timed(T)
BY FS_Subset DEF Timed

LEMMA NewestExists ==
  ASSUME NEW X, Timed(X), X # {}
  PROVE  Newest(X) \in X /\ \A t \in X : t.at <= Newest(X).at
<1> DEFINE After(s) == {t \in X : s.at < t.at}
<1>1. PICK T \in {After(s) : s \in X} : \A U \in {After(s) : s \in X} : U \subseteq T => U = T
  <2> DEFINE B == {After(s) : s \in X}
  <2>1. B \in SUBSET (SUBSET X) /\ B # {}
    OBVIOUS
  <2> HIDE DEF B
  <2>2. \E T \in B : \A U \in B : U \subseteq T => U = T
    BY <2>1, SmallestSubset DEF Timed
  <2> QED
    BY <2>2 DEF B
<1>2. PICK s \in X : T = After(s)
  BY <1>1
<1>3. ASSUME NEW t \in X, s.at < t.at PROVE FALSE
  <2>1. After(t) \subseteq After(s) /\ t \in After(s) /\ t \notin After(t)
    BY <1>3 DEF Timed
  <2> QED
    BY <1>1, <1>2, <2>1
<1>4. \A t \in X : t.at <= s.at
  BY <1>3 DEF Timed
<1> QED
  BY <1>4 DEF Newest

LEMMA NewestIs ==
  ASSUME NEW X, Timed(X), NEW s \in X, \A t \in X : t.at <= s.at
  PROVE  Newest(X) = s
<1>1. Newest(X) \in X /\ \A t \in X : t.at <= Newest(X).at
  BY NewestExists
<1> QED
  BY <1>1 DEF Timed

-----------------------------------------------------------------------------
(* The loop over the samples                                                 *)

Loop(f, T, start) ==
  f = [U \in SUBSET T |->
         IF U = {} THEN start ELSE Accumulate(f[U \ {Newest(U)}], Newest(U))]

\* The loop has a result for every set of samples.
LEMMA LoopExists ==
  ASSUME NEW X, Timed(X), NEW start
  PROVE  \E f : Loop(f, X, start)
<1> DEFINE B == {T \in SUBSET X : ~(\E f : Loop(f, T, start))}
<1>1. SUFFICES ASSUME B # {} PROVE FALSE
  OBVIOUS
<1>2. PICK T \in B : \A U \in B : U \subseteq T => U = T
  <2>1. B \in SUBSET (SUBSET X)
    OBVIOUS
  <2> HIDE DEF B
  <2> QED
    BY <1>1, <2>1, SmallestSubset DEF Timed
<1>3. T \subseteq X /\ ~(\E f : Loop(f, T, start))
  OBVIOUS
<1>4. CASE T = {}
  <2> DEFINE f == [U \in {{}} |-> start]
  <2>1. \A U \in SUBSET T : U = {}
    BY <1>4
  <2>2. Loop(f, T, start)
    BY <2>1 DEF Loop
  <2> QED
    BY <1>3, <2>2
<1>5. CASE T # {}
  <2> DEFINE m == Newest(T)
             V == T \ {m}
  <2>1. Timed(T) /\ m \in T /\ \A t \in T : t.at <= m.at
    BY <1>3, <1>5, NewestExists, TimedSubset
  <2>2. V \in SUBSET X /\ V \subseteq T /\ V # T
    BY <1>3, <2>1
  <2>3. V \notin B
    BY <1>2, <2>2
  <2>4. PICK g : Loop(g, V, start)
    BY <2>2, <2>3
  <2>5. \A U \in SUBSET V : g[U] = IF U = {} THEN start
                                  ELSE Accumulate(g[U \ {Newest(U)}], Newest(U))
    BY <2>4, Zenon DEF Loop
  <2>6. ASSUME NEW U \in SUBSET T, m \in U
        PROVE  Newest(U) = m /\ U \ {m} \in SUBSET V /\ U # {} /\ U \notin SUBSET V
    BY <2>1, <2>6, NewestIs, TimedSubset
  <2>7. ASSUME NEW U \in SUBSET T, m \notin U
        PROVE  U \in SUBSET V /\ U \ {Newest(U)} \in SUBSET V
    BY <2>7
  <2> DEFINE f == [U \in SUBSET T |-> IF U \in SUBSET V THEN g[U]
                                      ELSE Accumulate(g[U \ {m}], m)]
  <2> HIDE DEF m, V
  <2>8. ASSUME NEW U \in SUBSET T
        PROVE  f[U] = IF U = {} THEN start ELSE Accumulate(f[U \ {Newest(U)}], Newest(U))
    <3>1. CASE m \in U
      <4>1. f[U] = Accumulate(g[U \ {m}], m) /\ f[U \ {m}] = g[U \ {m}]
        BY <2>6, <2>2, <3>1
      <4> QED
        BY <2>6, <3>1, <4>1
    <3>2. CASE m \notin U
      <4>1. f[U] = g[U] /\ (U # {} => f[U \ {Newest(U)}] = g[U \ {Newest(U)}])
        BY <2>2, <2>7, <3>2
      <4> QED
        BY <2>5, <2>7, <3>2, <4>1
    <3> QED
      BY <3>1, <3>2
  <2>9. Loop(f, T, start)
    BY <2>8, Zenon DEF Loop
  <2> QED
    BY <1>3, <2>9
<1> QED
  BY <1>4, <1>5

LEMMA TotalsUnfold ==
  ASSUME NEW X, Timed(X), NEW start
  PROVE  /\ Totals(X, start)[{}] = start
         /\ \A T \in SUBSET X : T # {} =>
              Totals(X, start)[T] = Accumulate(Totals(X, start)[T \ {Newest(T)}], Newest(T))
<1> DEFINE f == Totals(X, start)
<1>1. f = CHOOSE g : Loop(g, X, start)
  BY DEF Totals, Loop
<1>2. Loop(f, X, start)
  BY <1>1, LoopExists
<1> HIDE DEF f
<1>3. \A T \in SUBSET X : f[T] = IF T = {} THEN start
                                ELSE Accumulate(f[T \ {Newest(T)}], Newest(T))
  BY <1>2, Zenon DEF Loop
<1>4. {} \in SUBSET X
  OBVIOUS
<1> QED
  BY <1>3, <1>4 DEF f

-----------------------------------------------------------------------------
(* Successive samples                                                        *)

\* A set of samples the loop can count.
Counted(X) ==
  /\ Timed(X)
  /\ X \subseteq [at : Int, boot : Nat, value : Nat]

Resets(E) == {e \in E : IsReset(e[1], e[2])}
Grows(E)  == E \ Resets(E)

\* What the last sample of a set adds to its pairs.
LEMMA NextPair ==
  ASSUME NEW Y, Timed(Y), NEW m, m \notin Y, m.at \in Int, \A y \in Y : y.at < m.at
  PROVE  Successive(Y \cup {m}) =
           IF Y = {} THEN {} ELSE Successive(Y) \cup {<<Newest(Y), m>>}
<1>1. CASE Y = {}
  BY <1>1 DEF Successive
<1>2. CASE Y # {}
  <2> DEFINE p == Newest(Y)
             Z == Y \cup {m}
  <2>1. p \in Y /\ \A y \in Y : y.at <= p.at
    BY <1>2, NewestExists
  <2>2. ASSUME NEW e \in Successive(Z) PROVE e \in Successive(Y) \cup {<<p, m>>}
    <3>1. e = <<e[1], e[2]>> /\ e[1] \in Z /\ e[2] \in Z /\ e[1].at < e[2].at
          /\ \A s \in Z : s.at <= e[1].at \/ e[2].at <= s.at
      BY <2>2 DEF Successive
    <3>2. e[1] \in Y
      BY <3>1 DEF Timed
    <3>3. CASE e[2] \in Y
      BY <3>1, <3>2, <3>3 DEF Successive
    <3>4. CASE e[2] = m
      <4>1. p.at <= e[1].at
        BY <2>1, <3>1, <3>4 DEF Timed
      <4>2. p = e[1]
        BY <2>1, <3>2, <4>1 DEF Timed
      <4> QED
        BY <3>1, <3>4, <4>2
    <3> QED
      BY <3>1, <3>3, <3>4
  <2>3. ASSUME NEW e \in Successive(Y) PROVE e \in Successive(Z)
    <3>1. e \in Y \X Y /\ e[1].at < e[2].at /\ \A s \in Y : s.at <= e[1].at \/ e[2].at <= s.at
      BY <2>3 DEF Successive
    <3>2. e[2].at <= m.at
      BY <3>1 DEF Timed
    <3> QED
      BY <3>1, <3>2 DEF Successive
  <2>4. <<p, m>> \in Successive(Z)
    <3>1. \A s \in Z : s.at <= p.at \/ m.at <= s.at
      BY <2>1
    <3> QED
      BY <2>1, <3>1 DEF Successive
  <2> QED
    BY <1>2, <2>2, <2>3, <2>4
<1> QED
  BY <1>1, <1>2

LEMMA PairsAreFinite ==
  ASSUME NEW Y, IsFiniteSet(Y)
  PROVE  IsFiniteSet(Successive(Y))
<1>1. IsFiniteSet(Y \X Y)
  BY FS_Product
<1>2. Successive(Y) \in SUBSET (Y \X Y)
  BY DEF Successive
<1> QED
  BY <1>1, <1>2, FS_Subset

-----------------------------------------------------------------------------
(* Increments                                                                *)

LEMMA OneIncrease ==
  ASSUME NEW E, NEW e, e \notin E, Increase(e) \in Nat, IsFiniteSet(Increments(E))
  PROVE  /\ IsFiniteSet(Increments(E \cup {e}))
         /\ Cardinality(Increments(E \cup {e})) = Cardinality(Increments(E)) + Increase(e)
<1> DEFINE n == Increase(e)
           A == Increments(E)
           B == {e} \X (1..n)
<1>1. n \in Nat
  OBVIOUS
<1>2. Increments(E \cup {e}) = A \cup B
  BY DEF Increments
<1>3. A \cap B = {}
  BY DEF Increments
<1> HIDE DEF A, n
<1>4. IsFiniteSet({e}) /\ Cardinality({e}) = 1
  BY FS_Singleton
<1>5. IsFiniteSet(1..n) /\ Cardinality(1..n) = n
  BY <1>1, FS_Interval
<1>6. IsFiniteSet(B) /\ Cardinality(B) = n
  <2>1. IsFiniteSet(B) /\ Cardinality(B) = Cardinality({e}) * Cardinality(1..n)
    BY <1>4, <1>5, FS_Product
  <2> QED
    BY <1>1, <1>4, <1>5, <2>1
<1> HIDE DEF B
<1>7. IsFiniteSet(A)
  BY DEF A
<1>8. /\ IsFiniteSet(A \cup B)
      /\ Cardinality(A \cup B) = Cardinality(A) + Cardinality(B) - Cardinality(A \cap B)
  BY <1>6, <1>7, FS_Union
<1>9. Cardinality(A) \in Nat /\ Cardinality(A \cap B) = 0
  BY <1>3, <1>7, FS_CardinalityType, FS_EmptySet
<1>10. IsFiniteSet(A \cup B) /\ Cardinality(A \cup B) = Cardinality(A) + n
  BY <1>1, <1>6, <1>8, <1>9
<1> QED
  BY <1>2, <1>10, Zenon DEF A, n

\* A set of pairs and one more of them.
LEMMA OneMorePair ==
  ASSUME NEW E, NEW e, e \notin E
  PROVE  /\ IsReset(e[1], e[2]) => /\ Resets(E \cup {e}) = Resets(E) \cup {e}
                                   /\ Grows(E \cup {e}) = Grows(E)
         /\ ~IsReset(e[1], e[2]) => /\ Resets(E \cup {e}) = Resets(E)
                                    /\ Grows(E \cup {e}) = Grows(E) \cup {e}
BY DEF Resets, Grows

-----------------------------------------------------------------------------
(* What the loop counts                                                      *)

Total ==
  [some : BOOLEAN, before : [at : Int, boot : Nat, value : Nat],
   delta : Nat, moves : Nat, resets : Nat, overflow : BOOLEAN]

\* The running total t after the samples of Y, the boundary among them.
Counts(t, Y) ==
  LET grown == Grows(Successive(Y))
      sum   == Cardinality(Increments(grown))
  IN  /\ t \in Total
      /\ t.some <=> Y # {}
      /\ Y # {} => t.before = Newest(Y)
      /\ t.resets = Cardinality(Resets(Successive(Y)))
      /\ IsFiniteSet(Increments(grown))
      /\ IF t.overflow THEN sum > MaxInt
         ELSE t.delta = sum /\ t.moves = Cardinality(grown) /\ sum <= MaxInt

LEMMA CountsFirst ==
  ASSUME NEW boundary, Counted(boundary), boundary = {} \/ \E b : boundary = {b}
  PROVE  Counts(FirstTotal(boundary), boundary)
<1>1. Successive(boundary) = {}
  BY DEF Successive, Counted, Timed
<1>2. Resets({}) = {} /\ Grows({}) = {} /\ Increments({}) = {}
  BY DEF Resets, Grows, Increments
<1>3. IsFiniteSet({}) /\ Cardinality({}) = 0 /\ 0 <= MaxInt
  BY FS_EmptySet, BoundAssumption
<1>4. boundary # {} => (CHOOSE b \in boundary : TRUE) = Newest(boundary)
  BY NewestExists DEF Counted
<1>5. boundary # {} => Newest(boundary) \in boundary
  BY NewestExists DEF Counted
<1>6. NoSample \in [at : Int, boot : Nat, value : Nat]
  BY DEF NoSample, NoBoot
<1>7. FirstTotal(boundary) \in Total
  BY <1>4, <1>5, <1>6 DEF FirstTotal, Total, Counted
<1>8. /\ FirstTotal(boundary).some = (boundary # {})
      /\ boundary # {} => FirstTotal(boundary).before = Newest(boundary)
      /\ FirstTotal(boundary).delta = 0 /\ FirstTotal(boundary).moves = 0
      /\ FirstTotal(boundary).resets = 0 /\ FirstTotal(boundary).overflow = FALSE
  BY <1>4 DEF FirstTotal
<1> QED
  BY <1>1, <1>2, <1>3, <1>7, <1>8 DEF Counts

\* Accumulate adds one sample to the total.
LEMMA CountsNext ==
  ASSUME NEW Y, Counted(Y), NEW t, Counts(t, Y),
         NEW m \in [at : Int, boot : Nat, value : Nat], m \notin Y, \A y \in Y : y.at < m.at
  PROVE  Counts(Accumulate(t, m), Y \cup {m})
<1> DEFINE Z == Y \cup {m}
           E == Successive(Y)
           p == Newest(Y)
           e == <<p, m>>
           u == Accumulate(t, m)
<1>1. t \in Total /\ (t.some <=> Y # {}) /\ (Y # {} => t.before = p)
  BY DEF Counts
<1>2. Timed(Z) /\ \A z \in Z : z.at <= m.at
  <2>1. IsFiniteSet(Z)
    BY FS_AddElement DEF Counted, Timed
  <2> QED
    BY <2>1 DEF Counted, Timed
<1>3. Newest(Z) = m
  BY <1>2, NewestIs
<1>4. Successive(Z) = IF Y = {} THEN {} ELSE E \cup {e}
  BY NextPair DEF Counted
<1>5. CASE Y = {}
  <2>1. u = [t EXCEPT !.before = m, !.some = TRUE]
    BY <1>1, <1>5 DEF Accumulate
  <2>2. E = {}
    BY <1>5 DEF Successive
  <2>3. /\ u \in Total /\ u.some = TRUE /\ u.before = m /\ u.resets = t.resets
        /\ u.delta = t.delta /\ u.moves = t.moves /\ u.overflow = t.overflow
    BY <1>1, <2>1 DEF Total
  <2>4. Successive(Z) = E
    BY <1>4, <1>5, <2>2
  <2>5. Z # {}
    OBVIOUS
  <2>6. Counts(t, Y)
    OBVIOUS
  <2> HIDE DEF u, Z
  <2>7. Counts(u, Z)
    BY <1>3, <2>3, <2>4, <2>5, <2>6 DEF Counts
  <2> QED
    BY <2>7 DEF u, Z
<1>6. CASE Y # {}
  <2>1. p \in Y /\ e \notin E /\ e[1] = p /\ e[2] = m
    BY <1>6, NewestExists DEF Counted, Successive
  <2>2. IsFiniteSet(E)
    BY PairsAreFinite DEF Counted, Timed
  <2>3. Resets(E) \in SUBSET E /\ Grows(E) \in SUBSET E
    BY DEF Resets, Grows
  <2>4. IsFiniteSet(Resets(E)) /\ IsFiniteSet(Grows(E))
    BY <2>2, <2>3, FS_Subset
  <2>5. Successive(Z) = E \cup {e}
    BY <1>4, <1>6
  <2>6. p.value \in Nat /\ m.value \in Nat /\ p.boot \in Nat /\ m.boot \in Nat
    BY <2>1 DEF Counted
  <2>7. Z # {} /\ t.some = TRUE /\ t.before = p
    BY <1>1, <1>6 DEF Total
  <2>8. /\ t.resets = Cardinality(Resets(E)) /\ IsFiniteSet(Increments(Grows(E)))
        /\ IF t.overflow THEN Cardinality(Increments(Grows(E))) > MaxInt
           ELSE /\ t.delta = Cardinality(Increments(Grows(E)))
                /\ t.moves = Cardinality(Grows(E)) /\ t.delta <= MaxInt
    BY DEF Counts
  <2>9. CASE IsReset(p, m)
    <3> DEFINE n == t.resets + 1
    <3>5. n \in Nat
      BY <1>1 DEF Total
    <3>1. u = [t EXCEPT !.before = m, !.some = TRUE, !.resets = n]
      BY <2>7, <2>9 DEF Accumulate
    <3> HIDE DEF n
    <3>2. /\ u \in Total /\ u.some = TRUE /\ u.before = m /\ u.resets = n
          /\ u.delta = t.delta /\ u.moves = t.moves /\ u.overflow = t.overflow
      BY <1>1, <3>1, <3>5 DEF Total
    <3>3. Resets(E \cup {e}) = Resets(E) \cup {e} /\ Grows(E \cup {e}) = Grows(E) /\ e \notin Resets(E)
      BY <2>1, <2>3, <2>9, OneMorePair
    <3>4. Cardinality(Resets(E) \cup {e}) = Cardinality(Resets(E)) + 1
      BY <2>4, <3>3, FS_AddElement
    <3>6. n = Cardinality(Resets(E)) + 1
      BY <2>8 DEF n
    <3>7. Resets(Successive(Z)) = Resets(E) \cup {e} /\ Grows(Successive(Z)) = Grows(E)
      BY <2>5, <3>3
    <3> HIDE DEF u, Z, E, e
    <3>8. Counts(u, Z)
      <4>1. u.resets = Cardinality(Resets(Successive(Z)))
        BY <3>2, <3>4, <3>6, <3>7
      <4>2. IF u.overflow THEN Cardinality(Increments(Grows(Successive(Z)))) > MaxInt
            ELSE /\ u.delta = Cardinality(Increments(Grows(Successive(Z))))
                 /\ u.moves = Cardinality(Grows(Successive(Z)))
                 /\ Cardinality(Increments(Grows(Successive(Z)))) <= MaxInt
        BY <2>8, <3>2, <3>7
      <4> QED
        BY <1>3, <2>7, <2>8, <3>2, <3>7, <4>1, <4>2 DEF Counts
    <3> QED
      BY <3>8 DEF u, Z
  <2>10. CASE ~IsReset(p, m)
    <3> DEFINE sum == t.delta + m.value - p.value
    <3>1. u = IF Fits(sum) THEN [t EXCEPT !.before = m, !.some = TRUE, !.delta = sum, !.moves = @ + 1]
              ELSE [t EXCEPT !.before = m, !.some = TRUE, !.overflow = TRUE]
      BY <2>7, <2>10 DEF Accumulate
    <3>2. m.value >= p.value /\ t.delta \in Nat /\ MaxInt \in Nat
      BY <1>1, <2>6, <2>10, BoundAssumption DEF IsReset, Total
    <3>3. sum \in Nat /\ Increase(e) \in Nat /\ sum = t.delta + Increase(e)
      BY <2>1, <2>6, <3>2 DEF Increase
    <3>4. t.moves + 1 \in Nat
      BY <1>1 DEF Total
    <3>5. /\ Resets(E \cup {e}) = Resets(E) /\ Grows(E \cup {e}) = Grows(E) \cup {e}
          /\ e \notin Grows(E)
      BY <2>1, <2>3, <2>10, OneMorePair
    <3>6. /\ Resets(Successive(Z)) = Resets(E)
          /\ Grows(Successive(Z)) = Grows(E) \cup {e}
      BY <2>5, <3>5
    <3>7. /\ IsFiniteSet(Increments(Grows(E) \cup {e}))
          /\ Cardinality(Increments(Grows(E) \cup {e}))
               = Cardinality(Increments(Grows(E))) + Increase(e)
      BY <2>8, <3>3, <3>5, OneIncrease
    <3>8. Cardinality(Grows(E) \cup {e}) = Cardinality(Grows(E)) + 1
      BY <2>4, <3>5, FS_AddElement
    <3>9. Cardinality(Increments(Grows(E))) \in Nat /\ Cardinality(Grows(E)) \in Nat
      BY <2>4, <2>8, FS_CardinalityType
    <3> DEFINE moves == t.moves + 1
    <3>10. moves \in Nat /\ (~t.overflow => moves = Cardinality(Grows(E)) + 1)
      BY <2>8, <3>4
    <3>11. u = IF Fits(sum) THEN [t EXCEPT !.before = m, !.some = TRUE, !.delta = sum, !.moves = moves]
               ELSE [t EXCEPT !.before = m, !.some = TRUE, !.overflow = TRUE]
      BY <3>1
    <3> HIDE DEF sum, moves
    <3>12. /\ u \in Total /\ u.some = TRUE /\ u.before = m /\ u.resets = t.resets
           /\ Fits(sum) => u.delta = sum /\ u.moves = moves /\ u.overflow = t.overflow
           /\ ~Fits(sum) => u.overflow = TRUE
      <4>1. CASE Fits(sum)
        BY <1>1, <3>3, <3>10, <3>11, <4>1 DEF Total
      <4>2. CASE ~Fits(sum)
        BY <1>1, <3>11, <4>2 DEF Total
      <4> QED
        BY <4>1, <4>2
    <3> DEFINE C == Cardinality(Increments(Grows(E)))
               D == Cardinality(Increments(Grows(Successive(Z))))
    <3>13. D = C + Increase(e) /\ C \in Nat /\ IsFiniteSet(Increments(Grows(Successive(Z))))
      BY <3>6, <3>7, <3>9
    <3>14. IF t.overflow THEN C > MaxInt ELSE t.delta = C
      BY <2>8
    <3> HIDE DEF C, D, u, Z, E, e
    <3>15. /\ u.overflow => D > MaxInt
           /\ ~u.overflow => u.delta = D /\ D <= MaxInt
      <4>1. CASE Fits(sum)
        BY <3>2, <3>3, <3>12, <3>13, <3>14, <4>1 DEF Fits
      <4>2. CASE ~Fits(sum)
        <5>1. CASE t.overflow
          BY <3>2, <3>3, <3>12, <3>13, <3>14, <4>2, <5>1
        <5>2. CASE ~t.overflow
          BY <3>2, <3>3, <3>12, <3>13, <3>14, <4>2, <5>2 DEF Fits
        <5> QED
          BY <5>1, <5>2
      <4> QED
        BY <4>1, <4>2
    <3>16. ~u.overflow => u.moves = Cardinality(Grows(Successive(Z)))
      BY <3>6, <3>8, <3>10, <3>12
    <3>17. u.resets = Cardinality(Resets(Successive(Z)))
      BY <2>8, <3>6, <3>12
    <3>18. Counts(u, Z)
      BY <1>3, <2>7, <3>12, <3>13, <3>15, <3>16, <3>17 DEF Counts, D
    <3> QED
      BY <3>18 DEF u, Z
  <2> QED
    BY <2>9, <2>10
<1> QED
  BY <1>5, <1>6

LEMMA LoopCounts ==
  ASSUME NEW X, NEW boundary, Counted(boundary \cup X), boundary = {} \/ \E b : boundary = {b},
         \A b \in boundary, x \in X : b.at < x.at
  PROVE  Counts(Totals(X, FirstTotal(boundary))[X], boundary \cup X)
<1> DEFINE f    == Totals(X, FirstTotal(boundary))
           B    == {T \in SUBSET X : ~Counts(f[T], boundary \cup T)}
<1>1. Timed(X) /\ Timed(boundary) /\ Counted(boundary)
  BY TimedSubset DEF Counted
<1>2. /\ f[{}] = FirstTotal(boundary)
      /\ \A T \in SUBSET X : T # {} => f[T] = Accumulate(f[T \ {Newest(T)}], Newest(T))
  BY <1>1, TotalsUnfold
<1> HIDE DEF f
<1>3. SUFFICES ASSUME B # {} PROVE FALSE
  <2>1. X \in SUBSET X
    OBVIOUS
  <2> QED
    BY <1>3, <2>1 DEF f
<1>4. PICK T \in B : \A U \in B : U \subseteq T => U = T
  <2>1. B \in SUBSET (SUBSET X)
    OBVIOUS
  <2> HIDE DEF B
  <2> QED
    BY <1>1, <1>3, <2>1, SmallestSubset DEF Timed
<1>5. T \subseteq X /\ ~Counts(f[T], boundary \cup T)
  OBVIOUS
<1>6. CASE T = {}
  <2>1. boundary \cup T = boundary /\ f[T] = FirstTotal(boundary)
    BY <1>2, <1>6
  <2> QED
    BY <1>1, <1>5, <2>1, CountsFirst
<1>7. CASE T # {}
  <2> DEFINE m == Newest(T)
             V == T \ {m}
             Y == boundary \cup V
  <2>1. Timed(T) /\ m \in T /\ \A t \in T : t.at <= m.at
    BY <1>1, <1>5, <1>7, NewestExists, TimedSubset
  <2>2. V \in SUBSET X /\ V \subseteq T /\ V # T
    BY <1>5, <2>1
  <2>3. V \notin B
    BY <1>4, <2>2
  <2> HIDE DEF m
  <2>4. Counts(f[V], Y)
    BY <2>2, <2>3
  <2>5. Counted(Y)
    BY <2>2, TimedSubset DEF Counted
  <2>6. /\ m \in [at : Int, boot : Nat, value : Nat] /\ m \notin Y
        /\ \A y \in Y : y.at < m.at
    BY <1>5, <2>1, <2>2 DEF Counted, Timed
  <2>7. Counts(Accumulate(f[V], m), Y \cup {m})
    BY <2>4, <2>5, <2>6, CountsNext
  <2>8. Y \cup {m} = boundary \cup T
    BY <2>1
  <2>9. f[T] = Accumulate(f[V], m)
    BY <1>2, <1>5, <1>7 DEF m
  <2> QED
    BY <1>5, <2>7, <2>8, <2>9
<1> QED
  BY <1>6, <1>7

\* The delta and the resets of a bucket are those of its successive samples.
LEMMA AggregateIs ==
  ASSUME NEW S, NEW boundary, Counted(boundary \cup Observed(S)), Observed(S) # {},
         boundary = {} \/ \E b : boundary = {b},
         \A b \in boundary, x \in Observed(S) : b.at < x.at
  PROVE  LET E     == Successive(boundary \cup Observed(S))
             sum   == Cardinality(Increments(Grows(E)))
         IN  /\ IsFiniteSet(Increments(Grows(E)))
             /\ AggregateCounter(S, boundary).resets = Cardinality(Resets(E))
             /\ AggregateCounter(S, boundary).delta
                  = IF Grows(E) = {} \/ sum > MaxInt THEN None ELSE sum
<1> DEFINE X   == Observed(S)
           Y   == boundary \cup X
           E   == Successive(Y)
           end == Totals(X, FirstTotal(boundary))[X]
           sum == Cardinality(Increments(Grows(E)))
<1>1. Counts(end, Y)
  BY LoopCounts
<1>2. IsFiniteSet(Grows(E))
  <2>1. IsFiniteSet(E) /\ Grows(E) \in SUBSET E
    BY PairsAreFinite DEF Counted, Timed, Grows
  <2> QED
    BY <2>1, FS_Subset
<1>3. /\ AggregateCounter(S, boundary).resets = end.resets
      /\ AggregateCounter(S, boundary).delta =
           IF end.overflow \/ end.moves = 0 THEN None ELSE end.delta
  BY DEF AggregateCounter
<1>4. Cardinality(Grows(E)) = 0 <=> Grows(E) = {}
  BY <1>2, FS_EmptySet
<1>5. sum \in Nat /\ MaxInt \in Nat
  BY <1>1, FS_CardinalityType, BoundAssumption DEF Counts
<1> HIDE DEF X, Y, E, end
<1>6. /\ IsFiniteSet(Increments(Grows(E)))
      /\ end.resets = Cardinality(Resets(E))
      /\ IF end.overflow THEN sum > MaxInt
         ELSE end.delta = sum /\ end.moves = Cardinality(Grows(E)) /\ sum <= MaxInt
  BY <1>1 DEF Counts, E
<1> HIDE DEF sum
<1>7. (IF end.overflow \/ end.moves = 0 THEN None ELSE end.delta)
        = IF Grows(E) = {} \/ sum > MaxInt THEN None ELSE sum
  BY <1>4, <1>5, <1>6
<1> QED
  BY <1>3, <1>6, <1>7 DEF X, Y, E, sum

-----------------------------------------------------------------------------
(* The boundary in place of the sample before the bucket                     *)

LEMMA OldestExists ==
  ASSUME NEW X, Timed(X), X # {}
  PROVE  \E s \in X : \A t \in X : s.at <= t.at
<1> DEFINE Before(s) == {t \in X : t.at < s.at}
           B         == {Before(s) : s \in X}
<1>1. PICK T \in B : \A U \in B : U \subseteq T => U = T
  <2>1. B \in SUBSET (SUBSET X) /\ B # {}
    OBVIOUS
  <2> HIDE DEF B
  <2> QED
    BY <2>1, SmallestSubset DEF Timed
<1>2. PICK s \in X : T = Before(s)
  BY <1>1
<1>3. ASSUME NEW t \in X, t.at < s.at PROVE FALSE
  <2>1. Before(t) \subseteq Before(s) /\ t \in Before(s) /\ t \notin Before(t)
    BY <1>3 DEF Timed
  <2> QED
    BY <1>1, <1>2, <2>1
<1> QED
  BY <1>3 DEF Timed

\* What a sample before a bucket adds to the pairs of its samples.
LEMMA FirstPair ==
  ASSUME NEW O, Timed(O), NEW f \in O, \A s \in O : f.at <= s.at,
         NEW p, p.at \in Int, \A s \in O : p.at < s.at
  PROVE  /\ Successive({p} \cup O) = Successive(O) \cup {<<p, f>>}
         /\ <<p, f>> \notin Successive(O)
<1> DEFINE Z == {p} \cup O
<1>1. p \notin O
  BY DEF Timed
<1>2. ASSUME NEW e \in Successive(Z) PROVE e \in Successive(O) \cup {<<p, f>>}
  <2>1. e = <<e[1], e[2]>> /\ e[1] \in Z /\ e[2] \in Z /\ e[1].at < e[2].at
        /\ \A s \in Z : s.at <= e[1].at \/ e[2].at <= s.at
    BY <1>2 DEF Successive
  <2>2. e[2] \in O
    BY <2>1 DEF Timed
  <2>3. CASE e[1] \in O
    BY <2>1, <2>2, <2>3 DEF Successive
  <2>4. CASE e[1] = p
    <3>1. f.at <= p.at \/ e[2].at <= f.at
      BY <2>1, <2>4
    <3>2. e[2].at <= f.at
      BY <3>1 DEF Timed
    <3>3. e[2] = f
      BY <2>2, <3>2 DEF Timed
    <3> QED
      BY <2>1, <2>4, <3>3
  <2> QED
    BY <2>1, <2>3, <2>4
<1>3. ASSUME NEW e \in Successive(O) PROVE e \in Successive(Z)
  <2>1. e \in O \X O /\ e[1].at < e[2].at /\ \A s \in O : s.at <= e[1].at \/ e[2].at <= s.at
    BY <1>3 DEF Successive
  <2>2. p.at <= e[1].at
    BY <2>1 DEF Timed
  <2> QED
    BY <2>1, <2>2 DEF Successive
<1>4. <<p, f>> \in Successive(Z)
  BY DEF Successive
<1>5. <<p, f>> \notin Successive(O)
  BY <1>1 DEF Successive
<1> QED
  BY <1>2, <1>3, <1>4, <1>5

Between(H, b, c) == {h \in H : b <= h.at /\ h.at < c}

\* The pairs that end in a bucket of H begin in it or with the sample before it.
LEMMA PairsOfBucket ==
  ASSUME NEW H, Timed(H), NEW b \in Int, NEW c \in Int,
         NEW B \in SUBSET H, \A h \in B : h.at < b,
         \A h \in H : h.at < b => \E p \in B : h.at <= p.at,
         B = {} \/ \E p : B = {p}
  PROVE  {e \in Successive(H) : e[2] \in Between(H, b, c)}
           = Successive(B \cup Between(H, b, c))
<1> DEFINE O == Between(H, b, c)
           Z == B \cup O
<1> USE DEF Between
<1>1. ASSUME NEW e \in Successive(H), e[2] \in O PROVE e \in Successive(Z)
  <2>1. e = <<e[1], e[2]>> /\ e[1] \in H /\ e[2] \in H /\ e[1].at < e[2].at
        /\ \A s \in H : s.at <= e[1].at \/ e[2].at <= s.at
    BY <1>1 DEF Successive
  <2>2. e[1] \in Z
    <3>1. CASE b <= e[1].at
      BY <1>1, <2>1, <3>1 DEF Timed
    <3>2. CASE e[1].at < b
      <4>1. PICK p \in B : e[1].at <= p.at
        BY <2>1, <3>2
      <4>2. p.at <= e[1].at \/ e[2].at <= p.at
        BY <2>1, <4>1
      <4>3. p.at = e[1].at
        BY <1>1, <2>1, <4>1, <4>2 DEF Timed
      <4> QED
        BY <2>1, <4>1, <4>3 DEF Timed
    <3> QED
      BY <2>1, <3>1, <3>2 DEF Timed
  <2> QED
    BY <1>1, <2>1, <2>2 DEF Successive
<1>2. ASSUME NEW e \in Successive(Z) PROVE e \in Successive(H) /\ e[2] \in O
  <2>1. e = <<e[1], e[2]>> /\ e[1] \in Z /\ e[2] \in Z /\ e[1].at < e[2].at
        /\ \A s \in Z : s.at <= e[1].at \/ e[2].at <= s.at
    BY <1>2 DEF Successive
  <2>2. e[2] \in O
    BY <2>1 DEF Timed
  <2>3. ASSUME NEW s \in H PROVE s.at <= e[1].at \/ e[2].at <= s.at
    <3>1. CASE s.at < b
      <4>1. PICK p \in B : s.at <= p.at
        BY <3>1
      <4>2. p.at <= e[1].at
        BY <2>1, <4>1 DEF Timed
      <4> QED
        BY <2>1, <4>1, <4>2 DEF Timed
    <3>2. CASE b <= s.at /\ s.at < c
      BY <2>1, <3>2
    <3>3. CASE c <= s.at
      BY <2>2, <3>3 DEF Timed
    <3> QED
      BY <3>1, <3>2, <3>3 DEF Timed
  <2> QED
    BY <2>1, <2>2, <2>3 DEF Successive
<1> QED
  BY <1>1, <1>2

\* The boundary x counts like the sample y whose value it has.
LEMMA SameCounts ==
  ASSUME NEW E, IsFiniteSet(E), NEW x, x \notin E, NEW y, y \notin E,
         \A e \in E : IsReset(e[1], e[2]) <=> ~Growing(e),
         IsReset(x[1], x[2]) <=> ~Growing(y),
         Increase(x) = Increase(y), Increase(y) \in Int,
         IsFiniteSet(Increments(Grows(E \cup {x})))
  PROVE  LET P == E \cup {y}
             X == E \cup {x}
         IN  /\ Cardinality(Resets(X)) = Cardinality(P \ Growth(P))
             /\ Grows(X) = {} <=> Growth(P) = {}
             /\ Cardinality(Increments(Grows(X))) = Cardinality(Increments(Growth(P)))
<1> DEFINE G == Growth(E)
           R == E \ G
<1>1. Grows(E) = G /\ Resets(E) = R
  BY DEF Grows, Resets, Growth
<1>2. IsFiniteSet(R)
  BY FS_Difference
<1>3. x \notin G /\ x \notin R /\ y \notin G /\ y \notin R
  BY DEF Growth
<1>4. CASE ~Growing(y)
  <2>1. /\ Growth(E \cup {y}) = G
        /\ (E \cup {y}) \ G = R \cup {y}
    BY <1>3, <1>4 DEF Growth
  <2>2. Resets(E \cup {x}) = R \cup {x} /\ Grows(E \cup {x}) = G
    BY <1>1, <1>4, OneMorePair
  <2> HIDE DEF G, R
  <2>3. Cardinality(R \cup {x}) = Cardinality(R) + 1 /\ Cardinality(R \cup {y}) = Cardinality(R) + 1
    BY <1>2, <1>3, FS_AddElement
  <2>4. Cardinality(Resets(E \cup {x})) = Cardinality((E \cup {y}) \ Growth(E \cup {y}))
    BY <2>1, <2>2, <2>3
  <2>5. Grows(E \cup {x}) = Growth(E \cup {y})
    BY <2>1, <2>2
  <2> QED
    BY <2>4, <2>5
<1>5. CASE Growing(y)
  <2>1. /\ Growth(E \cup {y}) = G \cup {y}
        /\ (E \cup {y}) \ (G \cup {y}) = R
    BY <1>3, <1>5 DEF Growth
  <2>2. Resets(E \cup {x}) = R /\ Grows(E \cup {x}) = G \cup {x}
    BY <1>1, <1>5, OneMorePair
  <2>3. Increase(x) \in Nat /\ Increase(y) \in Nat
    BY <1>5 DEF Growing
  <2>4. IsFiniteSet(Increments(G))
    <3>1. Increments(G) \in SUBSET Increments(G \cup {x})
      BY DEF Increments
    <3> QED
      BY <2>2, <3>1, FS_Subset
  <2> HIDE DEF G, R
  <2>5. Cardinality(Increments(G \cup {x})) = Cardinality(Increments(G)) + Increase(x)
    BY <1>3, <2>3, <2>4, OneIncrease
  <2>6. Cardinality(Increments(G \cup {y})) = Cardinality(Increments(G)) + Increase(y)
    BY <1>3, <2>3, <2>4, OneIncrease
  <2> QED
    BY <2>1, <2>2, <2>5, <2>6
<1> QED
  BY <1>4, <1>5

-----------------------------------------------------------------------------
(* The inductive invariant                                                   *)

Known == history \cup inflight

\* Samples are taken one after another, on a device whose boots only grow.
SamplesInv ==
  /\ IsFiniteSet(history)
  /\ inflight = {} \/ \E s \in Sample : inflight = {s}
  /\ \A s \in Known : /\ s.at <= clock /\ s.boot <= device.boot
                      /\ s.value # None => s.boot # NoBoot
  /\ \A s, t \in Known : /\ s.at = t.at => s = t
                         /\ s.at <= t.at /\ t.boot # NoBoot => s.boot <= t.boot
  /\ \A s \in inflight : clock <= s.at + MaxDelay /\ \A t \in history : t.at < s.at

Compacted(s, res)  == \E r \in rollups : r.res = res /\ s \in r.inputs
SealedOver(s, res) == \E r \in rollups : r.res = res /\ r.sealed /\ s \in r.inputs

\* A rollup ends with its newest sample, and holds its newest value.
LastInv(r) ==
  /\ \E q \in r.inputs : q.at = r.lastAt /\ q.boot = r.lastBoot
  /\ IF r.last = None THEN Observed(r.inputs) = {}
     ELSE \E p \in Observed(r.inputs) : /\ p.value = r.last
                                        /\ \A t \in Observed(r.inputs) : t.at <= p.at

\* What RollupsExact says of one rollup.
Accounts(r, E) ==
  LET grown == Growth(E)
      sum   == Cardinality(Increments(grown))
  IN  /\ r.resets = Cardinality(E \ grown)
      /\ r.delta = IF grown = {} \/ sum > MaxInt THEN None ELSE sum

Exact(r) == (\A e \in Pairs(r) : ~Hidden(e) /\ ~Forgotten(r, e)) => Accounts(r, Pairs(r))

\* A rollup holds the samples of a closed bucket up to some time, and all of
\* them once it is sealed.
RollupInv(r) ==
  /\ r.start = Floor(r.start, r.res) /\ r.start + Width(r.res) <= clock
  /\ r.inputs = {s \in history : r.start <= s.at /\ s.at <= r.lastAt}
  /\ r.lastAt < r.start + Width(r.res)
  /\ LastInv(r)
  /\ r.sealed => /\ r.inputs = Bucket(history, r.res, r.start)
                 /\ r.start + Width(r.res) <= Cutoff(RawRetention)
  /\ r.pruned /\ r.res = "day" => r.start + DayLength <= Cutoff(DayRetention)
  /\ Exact(r)

\* What is deleted has been sealed, and its whole day compacted.
DeletedInv ==
  \A s \in history \ raw : \A res \in Resolution :
    /\ SealedOver(s, res)
    /\ \A t \in history : Floor(t.at, "day") = Floor(s.at, "day") => Compacted(t, res)

\* The day before a sample that waits for its rollup is there unless it is
\* older than DayRetention.
PrunedInv ==
  \A r \in rollups : r.res = "day" /\ r.pruned =>
    \A t \in Known : \A res \in Resolution :
      Compacted(t, res) \/ r.start + DayLength <= Floor(t.at + MaxDelay - DayRetention, "day")

OneRollup == \A p, q \in rollups : p.res = q.res /\ p.start = q.start => p = q

CounterIInv ==
  /\ CounterTypeOK /\ SamplesInv /\ OneRollup
  /\ \A r \in rollups : RollupInv(r)
  /\ DeletedInv /\ PrunedInv

-----------------------------------------------------------------------------
(* Types *)

LEMMA SampleTypes ==
  ASSUME NEW s \in Sample
  PROVE  s.at \in Nat /\ s.boot \in Nat /\ (s.value # None => s.value \in Nat)
BY BoundAssumption DEF Sample, Value, None

LEMMA HistoryTypes ==
  ASSUME CounterIInv
  PROVE  /\ clock \in Nat /\ Timed(history) /\ raw \subseteq history
         /\ \A s \in Known : s \in Sample /\ s.at \in Nat
<1>1. clock \in Nat /\ raw \subseteq history /\ history \subseteq Sample /\ inflight \subseteq Sample
  BY BoundAssumption DEF CounterIInv, CounterTypeOK
<1>2. \A s \in Known : s \in Sample /\ s.at \in Nat
  BY <1>1, SampleTypes DEF Known
<1>3. Timed(history)
  BY <1>2 DEF CounterIInv, SamplesInv, Timed, Known
<1> QED
  BY <1>1, <1>2, <1>3

LEMMA RollupTypes ==
  ASSUME CounterIInv, NEW r \in rollups
  PROVE  /\ r.res \in Resolution /\ r.start \in Nat /\ r.lastAt \in Nat /\ r.lastBoot \in Nat
         /\ r.inputs \subseteq history /\ r.sealed \in BOOLEAN /\ r.pruned \in BOOLEAN
         /\ RollupInv(r)
BY BoundAssumption DEF CounterIInv, CounterTypeOK

\* The samples of a rollup are of its bucket.
LEMMA InputsInBucket ==
  ASSUME CounterIInv, NEW r \in rollups, NEW s \in r.inputs
  PROVE  /\ s \in history /\ s.at \in Nat
         /\ r.start <= s.at /\ s.at <= r.lastAt /\ s.at < r.start + Width(r.res)
         /\ Floor(s.at, r.res) = r.start
<1>1. /\ r.start \in Nat /\ r.lastAt \in Nat /\ r.lastAt < r.start + Width(r.res)
      /\ Floor(r.start, r.res) = r.start
      /\ s \in history /\ r.start <= s.at /\ s.at <= r.lastAt
  BY RollupTypes DEF RollupInv
<1>2. s.at \in Nat /\ Width(r.res) \in Nat
  BY <1>1, HistoryTypes, WidthIsPositive DEF Known
<1>3. s.at < r.start + Width(r.res)
  BY <1>1, <1>2
<1>4. Floor(s.at, r.res) = r.start
  BY <1>1, <1>2, <1>3, FloorUnique
<1> QED
  BY <1>1, <1>2, <1>3, <1>4

\* Cutoffs are in the past, and move on with the clock.
LEMMA CutoffIsPast ==
  ASSUME CounterIInv, NEW retention \in {RawRetention, HourRetention, DayRetention}
  PROVE  Cutoff(retention) \in Int /\ Cutoff(retention) <= clock - retention
<1>1. clock - retention \in Int
  BY HistoryTypes, Spans
<1> QED
  BY <1>1, FloorBounds DEF Cutoff

-----------------------------------------------------------------------------
(* The initial state, time and samples *)

LEMMA InitIInv == CounterInit => CounterIInv
<1> SUFFICES ASSUME CounterInit PROVE CounterIInv
  OBVIOUS
<1>1. CounterTypeOK
  BY BoundAssumption, FS_EmptySet DEF CounterInit, CounterTypeOK, Reading
<1>2. SamplesInv
  BY FS_EmptySet DEF CounterInit, SamplesInv, Known
<1> QED
  BY <1>1, <1>2 DEF CounterInit, CounterIInv, OneRollup, DeletedInv, PrunedInv

\* A rollup stays as it is while no earlier sample appears and time goes on.
LEMMA RollupStays ==
  ASSUME CounterIInv, NEW r \in rollups, clock' \in Nat, clock <= clock', history' = history
  PROVE  RollupInv(r)'
<1>1. /\ r.start \in Nat /\ Width(r.res) \in Nat /\ clock \in Nat
      /\ RollupInv(r)
  BY RollupTypes, HistoryTypes, WidthIsPositive
<1>2. \A d \in {RawRetention, DayRetention} : Cutoff(d) <= Cutoff(d)' /\ Cutoff(d) \in Int /\ Cutoff(d)' \in Int
  <2> TAKE d \in {RawRetention, DayRetention}
  <2>1. clock - d \in Int /\ clock' - d \in Int /\ clock - d <= clock' - d
    BY <1>1, Spans
  <2> QED
    BY <2>1, FloorMonotone, FloorBounds DEF Cutoff
<1>3. Exact(r)'
  BY <1>1 DEF RollupInv, Exact, Pairs, Hidden, Forgotten, Accounts
<1>4. LastInv(r)'
  BY <1>1 DEF RollupInv, LastInv
<1>5. r.sealed => r.start + Width(r.res) <= Cutoff(RawRetention)'
  BY <1>1, <1>2 DEF RollupInv
<1>6. r.pruned /\ r.res = "day" => r.start + DayLength <= Cutoff(DayRetention)'
  BY <1>1, <1>2, Spans DEF RollupInv
<1>7. r.start + Width(r.res) <= clock'
  BY <1>1 DEF RollupInv
<1> QED
  BY <1>1, <1>3, <1>4, <1>5, <1>6, <1>7 DEF RollupInv

LEMMA TickKeepsIInv == CounterIInv /\ ClockTick => CounterIInv'
<1> SUFFICES ASSUME CounterIInv, ClockTick PROVE CounterIInv'
  OBVIOUS
<1> USE DEF ClockTick
<1>1. clock \in Nat /\ clock' = clock + 1 /\ clock' \in 0..MaxClock
  BY HistoryTypes, BoundAssumption
<1>2. CounterTypeOK'
  BY <1>1 DEF CounterIInv, CounterTypeOK
<1>3. SamplesInv'
  <2>1. \A s \in inflight : s.at \in Nat
    BY HistoryTypes DEF Known
  <2>2. \A s \in inflight : clock' <= s.at + MaxDelay
    BY <1>1, <2>1, Spans
  <2>3. \A s \in Known : s.at <= clock'
    BY <1>1, HistoryTypes DEF CounterIInv, SamplesInv
  <2> QED
    BY <2>2, <2>3 DEF CounterIInv, SamplesInv, Known
<1>4. \A r \in rollups : RollupInv(r)'
  BY <1>1, RollupStays
<1> QED
  BY <1>2, <1>3, <1>4 DEF CounterIInv, OneRollup, DeletedInv, PrunedInv, Known, SealedOver, Compacted

LEMMA StutterKeepsIInv == CounterIInv /\ UNCHANGED counterVars => CounterIInv'
<1> SUFFICES ASSUME CounterIInv, UNCHANGED counterVars PROVE CounterIInv'
  OBVIOUS
<1> USE DEF counterVars
<1>1. CounterTypeOK'
  BY DEF CounterIInv, CounterTypeOK
<1>2. SamplesInv'
  BY DEF CounterIInv, SamplesInv, Known
<1>3. \A r \in rollups : RollupInv(r)'
  BY HistoryTypes, RollupStays
<1> QED
  BY <1>1, <1>2, <1>3 DEF CounterIInv, OneRollup, DeletedInv, PrunedInv, Known, SealedOver, Compacted

LEMMA ObserveKeepsIInv ==
  ASSUME CounterIInv, NEW boot \in 1..MaxBoot, NEW value \in Reading, NEW readable \in BOOLEAN,
         Observe(boot, value, readable)
  PROVE  CounterIInv'
<1> DEFINE s == SampleOf(boot, value, readable)
<1>1. /\ inflight = {} /\ \A t \in history : t.at < clock
      /\ boot = device.boot \/ boot = device.boot + 1
      /\ device' = [boot |-> boot, value |-> value] /\ inflight' = {s}
      /\ UNCHANGED <<clock, raw, rollups, history>>
  BY Zenon DEF Observe
<1>2. boot \in Nat \ {0} /\ MaxBoot \in Nat /\ device.boot \in Nat /\ device.boot <= boot
  BY <1>1, BoundAssumption DEF CounterIInv, CounterTypeOK
<1>3. /\ s \in Sample /\ s.at = clock /\ s.boot <= boot
      /\ s.value # None => s.boot # NoBoot
      /\ s.boot # NoBoot => s.boot = boot
  <2>1. Counter(value, readable) \in Value \cup {None}
        /\ (Counter(value, readable) # None => readable)
    BY DEF Counter
  <2>2. clock \in 0..MaxClock
    BY DEF CounterIInv, CounterTypeOK
  <2>3. (IF readable THEN boot ELSE NoBoot) \in 0..MaxBoot
    BY <1>2 DEF NoBoot
  <2>4. s.at = clock /\ s.boot = (IF readable THEN boot ELSE NoBoot) /\ s.value = Counter(value, readable)
    BY DEF SampleOf
  <2>5. s \in Sample
    BY <2>1, <2>2, <2>3 DEF SampleOf, Sample
  <2> QED
    BY <1>2, <2>1, <2>4, <2>5 DEF NoBoot
<1> HIDE DEF s
<1>4. Known = history /\ Known' = history \cup {s} /\ clock \in Nat
  BY <1>1, HistoryTypes DEF Known
<1>5. \A t \in history : /\ t.at \in Nat /\ t.at < s.at /\ t.at <= clock
                         /\ t.boot \in Nat /\ t.boot <= device.boot
  BY <1>1, <1>3, <1>4, HistoryTypes, SampleTypes DEF CounterIInv, SamplesInv
<1>6. CounterTypeOK'
  <2>1. Cardinality({s}) = 1
    BY FS_Singleton
  <2> QED
    BY <1>1, <1>3, <2>1 DEF CounterIInv, CounterTypeOK
<1>7. SamplesInv'
  <2>1. \A t \in Known' : t.at <= clock' /\ t.boot <= device'.boot /\ (t.value # None => t.boot # NoBoot)
    BY <1>1, <1>2, <1>3, <1>4, <1>5, SampleTypes DEF CounterIInv, SamplesInv
  <2>2. \A t, u \in Known' : t.at = u.at => t = u
    BY <1>3, <1>4, <1>5 DEF CounterIInv, SamplesInv
  <2>3. ASSUME NEW t \in Known', NEW u \in Known', t.at <= u.at, u.boot # NoBoot
        PROVE  t.boot <= u.boot
    <3>1. CASE u = s
      <4>1. t = s \/ (t.boot \in Nat /\ t.boot <= device.boot)
        BY <1>4, <1>5, <2>3
      <4>2. u.boot = boot /\ (t = s => t.boot = boot)
        BY <1>3, <2>3, <3>1
      <4> QED
        BY <1>2, <4>1, <4>2
    <3>2. CASE u # s
      <4>1. u \in history /\ t \in history
        BY <1>3, <1>4, <1>5, <2>3, <3>2
      <4> QED
        BY <1>4, <2>3, <4>1 DEF CounterIInv, SamplesInv
    <3> QED
      BY <3>1, <3>2
  <2>4. \A t \in inflight' : clock' <= t.at + MaxDelay /\ \A u \in history' : u.at < t.at
    BY <1>1, <1>3, <1>4, <1>5, Spans
  <2> QED
    BY <1>1, <1>3, <2>1, <2>2, <2>3, <2>4 DEF CounterIInv, SamplesInv
<1>8. \A r \in rollups : RollupInv(r)'
  BY <1>1, <1>4, RollupStays
<1>9. PrunedInv'
  <2> SUFFICES ASSUME NEW r \in rollups, r.res = "day", r.pruned, NEW t \in Known', NEW res \in Resolution
               PROVE  Compacted(t, res)'
                      \/ r.start + DayLength <= Floor(t.at + MaxDelay - DayRetention, "day")
    BY <1>1 DEF PrunedInv
  <2>1. CASE t \in history
    BY <1>1, <1>4, <2>1 DEF CounterIInv, PrunedInv, Compacted
  <2>2. CASE t = s
    <3>1. r.start + DayLength <= Cutoff(DayRetention)
      BY RollupTypes DEF RollupInv
    <3>2. /\ clock - DayRetention \in Int /\ s.at + MaxDelay - DayRetention \in Int
          /\ clock - DayRetention <= s.at + MaxDelay - DayRetention
      BY <1>3, <1>4, Spans
    <3>3. /\ Cutoff(DayRetention) <= Floor(s.at + MaxDelay - DayRetention, "day")
          /\ Cutoff(DayRetention) \in Int /\ Floor(s.at + MaxDelay - DayRetention, "day") \in Int
      BY <3>2, FloorMonotone, FloorBounds DEF Cutoff
    <3>4. r.start + DayLength \in Int
      BY RollupTypes, Spans
    <3> QED
      BY <2>2, <3>1, <3>3, <3>4
  <2> QED
    BY <1>4, <2>1, <2>2
<1> QED
  BY <1>1, <1>6, <1>7, <1>8, <1>9 DEF CounterIInv, OneRollup, DeletedInv, SealedOver, Compacted

\* A sealed bucket is long over when a sample is committed.
LEMMA SealedIsPast ==
  ASSUME CounterIInv, NEW r \in rollups, r.sealed, NEW s \in inflight
  PROVE  r.start + Width(r.res) <= s.at
<1>1. /\ clock \in Nat /\ s.at \in Nat /\ clock <= s.at + MaxDelay
  BY HistoryTypes DEF CounterIInv, SamplesInv, Known
<1>2. r.start + Width(r.res) <= Cutoff(RawRetention) /\ r.start + Width(r.res) \in Int
  BY RollupTypes, WidthIsPositive DEF RollupInv
<1>3. Cutoff(RawRetention) \in Int /\ Cutoff(RawRetention) <= clock - RawRetention
  BY CutoffIsPast
<1> QED
  BY <1>1, <1>2, <1>3, Spans

\* A later sample is not what a rollup accounts for.
LEMMA ExactStays ==
  ASSUME CounterIInv, Commit, NEW r \in rollups
  PROVE  Exact(r)'
<1>1. PICK m \in Sample : inflight = {m}
  BY DEF CounterIInv, SamplesInv, Commit
<1>2. history' = history \cup {m} /\ rollups' = rollups
  BY <1>1 DEF Commit
<1>3. /\ m.at \in Nat /\ m \notin history /\ \A t \in history : t.at < m.at
  BY <1>1, HistoryTypes DEF CounterIInv, SamplesInv, Known
<1>4. r.inputs \subseteq history
  BY RollupTypes
<1> DEFINE Y == Observed(history)
<1>5. Timed(Y) /\ m \notin Y /\ \A y \in Y : y.at < m.at
  <2>1. Y \in SUBSET history
    BY DEF Observed
  <2> QED
    BY <1>3, <2>1, HistoryTypes, TimedSubset
<1>6. Pairs(r)' = Pairs(r)
  <2>1. CASE m.value = None
    <3>1. Observed(history') = Y
      BY <1>2, <2>1 DEF Observed
    <3> HIDE DEF Y
    <3> QED
      BY <3>1 DEF Pairs, Y
  <2>2. CASE m.value # None
    <3>1. Observed(history') = Y \cup {m}
      BY <1>2, <2>2 DEF Observed
    <3>6. m.at \in Int
      BY <1>3
    <3>2. Successive(Y \cup {m}) = IF Y = {} THEN {} ELSE Successive(Y) \cup {<<Newest(Y), m>>}
      <4> HIDE DEF Y
      <4> QED
        BY <1>5, <3>6, NextPair
    <3>3. Y = {} => Successive(Y) = {}
      BY DEF Successive
    <3>4. m \notin r.inputs
      BY <1>3, <1>4
    <3> HIDE DEF Y
    <3>5. {e \in Successive(Y \cup {m}) : e[2] \in r.inputs} = {e \in Successive(Y) : e[2] \in r.inputs}
      BY <3>2, <3>3, <3>4
    <3> QED
      BY <3>1, <3>5 DEF Pairs, Y
  <2> QED
    BY <2>1, <2>2
<1>7. \A e \in Pairs(r) : Hidden(e)' <=> Hidden(e)
  <2> TAKE e \in Pairs(r)
  <2>1. e[2] \in history /\ e[2].at \in Nat
    BY HistoryTypes DEF Pairs, Successive, Observed, Known
  <2>2. ~(m.at < e[2].at)
    BY <1>3, <2>1
  <2> QED
    BY <1>2, <2>2 DEF Hidden
<1>8. Exact(r)
  BY RollupTypes DEF RollupInv
<1> QED
  BY <1>6, <1>7, <1>8 DEF Exact, Forgotten, Accounts

LEMMA CommitKeepsIInv == CounterIInv /\ Commit => CounterIInv'
<1> SUFFICES ASSUME CounterIInv, Commit PROVE CounterIInv'
  OBVIOUS
<1>1. PICK m \in Sample : inflight = {m}
  BY DEF CounterIInv, SamplesInv, Commit
<1>2. /\ history' = history \cup {m} /\ raw' = raw \cup {m} /\ inflight' = {}
      /\ UNCHANGED <<clock, device, rollups>>
  BY <1>1 DEF Commit
<1>3. Known' = Known /\ clock \in Nat
  BY <1>1, <1>2, HistoryTypes DEF Known
<1>4. /\ m.at \in Nat /\ m \notin history /\ \A t \in history : t.at \in Nat /\ t.at < m.at
  BY <1>1, HistoryTypes DEF CounterIInv, SamplesInv, Known
<1>5. CounterTypeOK'
  <2>1. Cardinality({}) = 0
    BY FS_EmptySet
  <2>2. SUBSET history \subseteq SUBSET history'
    BY <1>2
  <2> QED
    BY <1>1, <1>2, <2>1, <2>2 DEF CounterIInv, CounterTypeOK
<1>6. SamplesInv'
  <2>1. IsFiniteSet(history')
    BY <1>2, FS_AddElement DEF CounterIInv, SamplesInv
  <2> QED
    BY <1>2, <1>3, <2>1 DEF CounterIInv, SamplesInv
<1>7. ASSUME NEW r \in rollups PROVE RollupInv(r)'
  <2>1. /\ r.start \in Nat /\ r.lastAt \in Nat /\ Width(r.res) \in Nat /\ RollupInv(r)
    BY RollupTypes, WidthIsPositive
  <2>2. r.lastAt < m.at
    BY <1>4, <2>1, InputsInBucket DEF RollupInv, LastInv
  <2>3. r.inputs = {s \in history' : r.start <= s.at /\ s.at <= r.lastAt}
    BY <1>2, <1>4, <2>1, <2>2 DEF RollupInv
  <2>4. r.sealed => r.inputs = Bucket(history', r.res, r.start)
    <3> HAVE r.sealed
    <3>1. r.start + Width(r.res) <= m.at
      BY <1>1, SealedIsPast
    <3>2. Bucket(history', r.res, r.start) = Bucket(history, r.res, r.start)
      BY <1>2, <1>4, <2>1, <3>1 DEF Bucket
    <3> QED
      BY <2>1, <3>2 DEF RollupInv
  <2>5. LastInv(r)'
    BY <2>1 DEF RollupInv, LastInv
  <2>6. Exact(r)'
    BY ExactStays
  <2>7. \A d : Cutoff(d)' = Cutoff(d)
    BY <1>2 DEF Cutoff
  <2> QED
    BY <1>2, <2>1, <2>3, <2>4, <2>5, <2>6, <2>7 DEF RollupInv
<1>8. DeletedInv'
  <2> SUFFICES ASSUME NEW s \in history, s \notin raw, NEW res \in Resolution
               PROVE  /\ SealedOver(s, res)
                      /\ \A t \in history' : Floor(t.at, "day") = Floor(s.at, "day") => Compacted(t, res)
    BY <1>2 DEF DeletedInv, SealedOver, Compacted
  <2>1. /\ SealedOver(s, res)
        /\ \A t \in history : Floor(t.at, "day") = Floor(s.at, "day") => Compacted(t, res)
    BY DEF CounterIInv, DeletedInv
  <2>2. Floor(m.at, "day") # Floor(s.at, "day")
    <3>1. PICK r \in rollups : r.res = "day" /\ r.sealed /\ s \in r.inputs
      BY DEF CounterIInv, DeletedInv, SealedOver, Resolution
    <3>2. Floor(s.at, "day") = r.start /\ r.start \in Nat /\ r.start + Width("day") <= m.at
      BY <1>1, <3>1, InputsInBucket, SealedIsPast, RollupTypes
    <3>3. m.at < Floor(m.at, "day") + Width("day") /\ Floor(m.at, "day") \in Int
      BY <1>4, FloorBounds
    <3> QED
      BY <1>4, <3>2, <3>3, WidthIsPositive
  <2> QED
    BY <1>2, <2>1, <2>2
<1> QED
  BY <1>2, <1>3, <1>5, <1>6, <1>7, <1>8 DEF CounterIInv, OneRollup, PrunedInv, Compacted

-----------------------------------------------------------------------------
(* The bucket that is compacted *)

\* Nothing of a bucket that has a candidate is deleted.
LEMMA CandidateIs ==
  ASSUME CounterIInv, NEW res \in Resolution, NEW b \in Candidates(res)
  PROVE  /\ b \in Nat /\ b = Floor(b, res) /\ b + Width(res) <= clock
         /\ Bucket(raw, res, b) = Bucket(history, res, b)
         /\ Bucket(history, res, b) # {}
         /\ \A s \in Bucket(history, res, b) : s.at \in Nat /\ Floor(s.at, res) = b
         /\ \A r \in Of(res, b) : ~r.sealed /\ ~SameInput(r, Bucket(raw, res, b))
<1>1. \A r \in Of(res, b) : ~r.sealed /\ ~SameInput(r, Bucket(raw, res, b))
  BY DEF Candidates
<1>2. PICK s \in raw : s.at < Floor(clock, res) /\ b = Floor(s.at, res)
  BY DEF Candidates
<1>3. s \in history /\ s.at \in Nat /\ clock \in Nat /\ Width(res) \in Nat \ {0}
  BY HistoryTypes, WidthIsPositive DEF Known
<1>4. b \in Nat /\ b <= s.at /\ s.at < b + Width(res)
  BY <1>2, <1>3, FloorBounds
<1>5. b = Floor(b, res)
  BY <1>2, <1>3, <1>4, FloorBounds, FloorUnique
<1>6. b + Width(res) <= clock
  <2>1. b + Width(res) <= Floor(clock, res)
    BY <1>2, <1>3, FloorGap
  <2>2. Floor(clock, res) \in Int /\ Floor(clock, res) <= clock
    BY <1>3, FloorBounds
  <2> QED
    BY <1>3, <1>4, <2>1, <2>2
<1>7. ASSUME NEW t \in Bucket(history, res, b) PROVE t.at \in Nat /\ Floor(t.at, res) = b
  <2>1. t.at \in Nat /\ b <= t.at /\ t.at < b + Width(res)
    BY HistoryTypes DEF Bucket, Known
  <2> QED
    BY <1>4, <1>5, <2>1, FloorUnique
<1>8. ASSUME NEW t \in Bucket(history, res, b) PROVE t \in raw
  <2>1. SUFFICES ASSUME t \notin raw PROVE FALSE
    OBVIOUS
  <2>2. t \in history
    BY DEF Bucket
  <2>3. PICK r \in rollups : r.res = res /\ r.sealed /\ t \in r.inputs
    BY <2>1, <2>2 DEF CounterIInv, DeletedInv, SealedOver
  <2>4. r.start = b
    BY <1>7, <2>3, InputsInBucket
  <2> QED
    BY <1>1, <2>3, <2>4 DEF Of
<1>9. Bucket(raw, res, b) = Bucket(history, res, b)
  BY <1>8, HistoryTypes DEF Bucket
<1>10. s \in Bucket(history, res, b)
  BY <1>3, <1>4 DEF Bucket
<1> QED
  BY <1>1, <1>4, <1>5, <1>6, <1>7, <1>9, <1>10

LEMMA OldestCandidate ==
  ASSUME CounterIInv, NEW res \in Resolution, Candidates(res) # {}
  PROVE  Min(Candidates(res)) \in Candidates(res)
<1> DEFINE X == {t \in raw : Floor(t.at, res) \in Candidates(res)}
<1>1. X # {}
  BY DEF Candidates
<1>2. Timed(X)
  <2>1. X \in SUBSET history
    BY HistoryTypes
  <2> HIDE DEF X
  <2> QED
    BY <2>1, HistoryTypes, TimedSubset
<1>3. PICK s \in X : \A t \in X : s.at <= t.at
  <2> HIDE DEF X
  <2> QED
    BY <1>1, <1>2, OldestExists
<1>4. ASSUME NEW b \in Candidates(res) PROVE Floor(s.at, res) <= b
  <2>1. PICK t \in raw : b = Floor(t.at, res)
    BY DEF Candidates
  <2>2. s.at \in Int /\ t.at \in Int /\ s.at <= t.at
    BY <1>2, <1>3, <2>1 DEF Timed
  <2> QED
    BY <2>1, <2>2, FloorMonotone
<1> QED
  BY <1>3, <1>4 DEF Min

\* The newest sample of the bucket is in no rollup yet.
LEMMA NewestIsNew ==
  ASSUME CounterIInv, NEW res \in Resolution, NEW b \in Candidates(res),
         NEW q \in Bucket(history, res, b), \A t \in Bucket(history, res, b) : t.at <= q.at
  PROVE  ~Compacted(q, res)
<1> SUFFICES ASSUME NEW r \in rollups, r.res = res, q \in r.inputs PROVE FALSE
  BY DEF Compacted
<1>1. r.start = b /\ q.at <= r.lastAt /\ r.lastAt < b + Width(res) /\ RollupInv(r)
      /\ r.lastAt \in Nat /\ b \in Nat /\ q.at \in Nat
  <2>1. r.start = b
    BY CandidateIs, InputsInBucket
  <2> QED
    BY <2>1, InputsInBucket, RollupTypes, CandidateIs DEF RollupInv
<1>2. \A t \in history : t.at \in Nat
  BY HistoryTypes DEF Known
<1>3. r.inputs = Bucket(history, res, b)
  <2>1. ASSUME NEW t \in history PROVE t \in r.inputs <=> t \in Bucket(history, res, b)
    <3>1. t \in r.inputs <=> b <= t.at /\ t.at <= r.lastAt
      BY <1>1 DEF RollupInv
    <3>2. t \in Bucket(history, res, b) <=> b <= t.at /\ t.at < b + Width(res)
      BY DEF Bucket
    <3>3. t \in Bucket(history, res, b) => t.at <= q.at
      OBVIOUS
    <3> QED
      BY <1>1, <1>2, <3>1, <3>2, <3>3, WidthIsPositive
  <2>2. r.inputs \subseteq history /\ Bucket(history, res, b) \subseteq history
    BY RollupTypes DEF Bucket
  <2> QED
    BY <2>1, <2>2
<1>4. r \in Of(res, b)
  BY <1>1 DEF Of
<1> QED
  BY <1>3, <1>4, CandidateIs DEF SameInput

-----------------------------------------------------------------------------
(* The boundary of the bucket *)

LEMMA ObservedTypes ==
  ASSUME CounterIInv
  PROVE  /\ Timed(Observed(history)) /\ Counted(Observed(history))
         /\ Observed(history) \subseteq history
         /\ \A s \in Observed(history) :
              s.at \in Nat /\ s.boot \in Nat \ {0} /\ s.value \in Nat
<1>1. Observed(history) \in SUBSET history
  BY DEF Observed
<1>2. Timed(Observed(history))
  BY <1>1, HistoryTypes, TimedSubset
<1>3. ASSUME NEW s \in Observed(history)
      PROVE  s.at \in Nat /\ s.boot \in Nat \ {0} /\ s.value \in Nat /\ s \in Sample
  <2>1. s \in Sample /\ s.value # None /\ s.boot # NoBoot
    BY <1>1, HistoryTypes DEF Observed, CounterIInv, SamplesInv, Known
  <2> QED
    BY <2>1, SampleTypes DEF NoBoot
<1>4. Observed(history) \subseteq [at : Int, boot : Nat, value : Nat]
  BY <1>3 DEF Sample
<1> QED
  BY <1>1, <1>2, <1>3, <1>4 DEF Counted

LEMMA NoAnchor ==
  ASSUME CounterIInv, NEW b \in Nat, \A h \in Observed(history) : ~(h.at < b)
  PROVE  LoadCounterBoundary(b) = {}
<1>1. ASSUME NEW s \in Observed(raw) PROVE ~(s.at < b)
  BY HistoryTypes DEF Observed
<1>2. ASSUME NEW r \in rollups, r.last # None, r.lastAt < b PROVE FALSE
  <2>1. PICK p \in Observed(r.inputs) : p.value = r.last
    BY <1>2, RollupTypes DEF RollupInv, LastInv
  <2>2. p \in Observed(history) /\ p \in r.inputs
    BY <2>1, RollupTypes DEF Observed
  <2>3. p.at \in Nat /\ p.at <= r.lastAt /\ r.lastAt \in Nat
    BY <2>2, InputsInBucket, RollupTypes
  <2> QED
    BY <1>2, <2>2, <2>3
<1>3. Anchors(b) = {}
  BY <1>1, <1>2 DEF Anchors
<1> QED
  BY <1>3 DEF LoadCounterBoundary

\* Every anchor that is no older than the last observed sample p has its value.
\* The boot is that of p, or of a later sample without a value.
HasValueOf(a, p, b) ==
  /\ a.at \in Nat /\ a.at < b /\ p.at <= a.at
  /\ a.value = p.value /\ a.boot \in Nat
  /\ a.boot = p.boot \/ \E u \in history : /\ u.value = None /\ u.boot = a.boot
                                           /\ p.at < u.at /\ u.at < b

LEMMA AnchorHasValue ==
  ASSUME CounterIInv, NEW b \in Nat, NEW p \in Observed(history), p.at < b,
         \A h \in Observed(history) : h.at < b => h.at <= p.at,
         NEW a \in Anchors(b), p.at <= a.at
  PROVE  HasValueOf(a, p, b)
<1>1. p \in history /\ p.at \in Nat /\ p.boot \in Nat /\ Timed(history)
  BY ObservedTypes, HistoryTypes
<1>2. CASE \E s \in Observed(raw) : s.at < b /\ a = [at |-> s.at, boot |-> s.boot, value |-> s.value, rank |-> 0]
  <2>1. PICK s \in Observed(raw) : s.at < b /\ a.at = s.at /\ a.boot = s.boot /\ a.value = s.value
    BY <1>2
  <2>2. s \in Observed(history) /\ s \in history /\ s.at \in Nat
    BY HistoryTypes, ObservedTypes DEF Observed
  <2>3. s.at = p.at
    BY <1>1, <2>1, <2>2
  <2>4. s = p
    BY <1>1, <2>2, <2>3 DEF Timed
  <2> QED
    BY <1>1, <2>1, <2>4 DEF HasValueOf
<1>3. CASE \E r \in rollups :
             /\ r.last # None /\ r.lastAt < b
             /\ a = [at |-> r.lastAt, boot |-> r.lastBoot, value |-> r.last, rank |-> 1]
  <2>1. PICK r \in rollups : /\ r.last # None /\ r.lastAt < b
                             /\ a.at = r.lastAt /\ a.boot = r.lastBoot /\ a.value = r.last
    BY <1>3
  <2>2. /\ r.lastAt \in Nat /\ r.start \in Nat /\ r.lastBoot \in Nat /\ RollupInv(r)
        /\ r.inputs = {s \in history : r.start <= s.at /\ s.at <= r.lastAt}
    BY RollupTypes DEF RollupInv
  <2>3. PICK o \in Observed(r.inputs) : /\ o.value = r.last
                                        /\ \A t \in Observed(r.inputs) : t.at <= o.at
    BY <2>1, <2>2 DEF RollupInv, LastInv
  <2>4. o \in r.inputs /\ o \in Observed(history) /\ o \in history
    BY <2>2 DEF Observed
  <2>5. o.at \in Nat /\ r.start <= o.at /\ o.at <= r.lastAt
    BY <2>4, InputsInBucket
  <2>6. o.at <= p.at
    BY <2>1, <2>2, <2>4, <2>5
  <2>7. p \in r.inputs
    BY <1>1, <2>1, <2>2, <2>5, <2>6
  <2>8. p.at <= o.at
    BY <2>3, <2>7 DEF Observed
  <2>9. o = p
    BY <1>1, <2>4, <2>5, <2>6, <2>8 DEF Timed
  <2>10. PICK q \in r.inputs : q.at = r.lastAt /\ q.boot = r.lastBoot
    BY <2>2 DEF RollupInv, LastInv
  <2>11. q \in history
    BY <2>2, <2>10
  <2>12. CASE q = p
    BY <2>1, <2>2, <2>3, <2>9, <2>10, <2>12 DEF HasValueOf
  <2>13. CASE q # p
    <3>1. p.at < q.at /\ q.at < b
      BY <1>1, <2>1, <2>2, <2>10, <2>11, <2>13 DEF Timed
    <3>2. q.value = None
      <4>1. SUFFICES ASSUME q.value # None PROVE FALSE
        OBVIOUS
      <4>2. q \in Observed(history) /\ q.at \in Nat
        BY <2>2, <2>10, <2>11, <4>1 DEF Observed
      <4> QED
        BY <1>1, <3>1, <4>2
    <3> QED
      BY <2>1, <2>2, <2>3, <2>9, <2>10, <2>11, <3>1, <3>2 DEF HasValueOf
  <2> QED
    BY <2>12, <2>13
<1> QED
  BY <1>2, <1>3 DEF Anchors

\* A sample is still there as raw, or in the rollup of its day, when a later
\* bucket that waits for its rollup needs it.
LEMMA AnchorExists ==
  ASSUME CounterIInv, NEW res \in Resolution, NEW b \in Candidates(res),
         NEW q \in Bucket(history, res, b), \A t \in Bucket(history, res, b) : t.at <= q.at,
         NEW p \in Observed(history), p.at < b,
         ~(Floor(p.at, "day") + DayLength <= Floor(q.at + MaxDelay - DayRetention, "day"))
  PROVE  \E a \in Anchors(b) : p.at <= a.at
<1>1. /\ p \in history /\ p.at \in Nat /\ q \in history /\ q.at \in Nat /\ b \in Nat
      /\ Floor(q.at, res) = b /\ ~Compacted(q, res)
  <2>1. q \in history
    BY DEF Bucket
  <2> QED
    BY <2>1, ObservedTypes, CandidateIs, NewestIsNew
<1>2. CASE p \in raw
  <2>1. p \in Observed(raw)
    BY <1>2 DEF Observed
  <2>2. [at |-> p.at, boot |-> p.boot, value |-> p.value, rank |-> 0] \in Anchors(b)
    BY <2>1 DEF Anchors
  <2> QED
    BY <1>1, <2>2
<1>3. CASE p \notin raw
  <2>1. PICK d \in rollups : d.res = "day" /\ d.sealed /\ p \in d.inputs
    BY <1>1, <1>3 DEF CounterIInv, DeletedInv, SealedOver, Resolution
  <2>2. d.start = Floor(p.at, "day") /\ p.at <= d.lastAt
    BY <2>1, InputsInBucket
  <2>3. /\ d.lastAt \in Nat /\ d.start \in Nat /\ d.lastAt < d.start + Width("day") /\ RollupInv(d)
        /\ Width("day") = DayLength /\ DayLength \in Nat
    BY <2>1, RollupTypes, Spans DEF RollupInv, Width
  <2>4. Floor(q.at, "day") # Floor(p.at, "day")
    BY <1>1, <1>3 DEF CounterIInv, DeletedInv
  <2>5. d.start + Width("day") <= b
    <3>1. Floor(p.at, "day") <= Floor(q.at, "day")
      <4>1. b <= q.at
        BY <1>1, FloorBounds
      <4> QED
        BY <1>1, <4>1, FloorMonotone
    <3>2. Floor(q.at, "day") \in Int /\ Floor(p.at, "day") \in Int
      BY <1>1, FloorBounds
    <3>3. p.at < Floor(q.at, "day")
      <4>1. SUFFICES ASSUME Floor(q.at, "day") <= p.at PROVE FALSE
        BY <1>1, <3>2
      <4>2. q.at < Floor(q.at, "day") + Width("day")
        BY <1>1, FloorBounds
      <4>3. p.at < Floor(q.at, "day") + Width("day")
        <5>1. p.at < q.at
          BY <1>1, FloorBounds
        <5> QED
          BY <1>1, <2>3, <3>2, <4>2, <5>1
      <4> QED
        BY <1>1, <2>4, <4>1, <4>3, FloorUnique
    <3>4. d.start + Width("day") <= Floor(q.at, "day")
      BY <1>1, <2>2, <3>3, FloorGap
    <3>5. Floor(q.at, "day") <= b
      BY <1>1, DayBeforeHour
    <3> QED
      BY <1>1, <2>3, <3>2, <3>4, <3>5
  <2>6. d.last # None
    <3>1. p \in Observed(d.inputs)
      BY <2>1 DEF Observed
    <3> QED
      BY <2>3, <3>1 DEF RollupInv, LastInv
  <2>7. ~d.pruned
    <3>1. SUFFICES ASSUME d.pruned PROVE FALSE
      OBVIOUS
    <3>2. q \in Known
      BY <1>1 DEF Known
    <3> QED
      BY <1>1, <2>1, <2>2, <3>1, <3>2 DEF CounterIInv, PrunedInv
  <2>8. d.lastAt < b
    BY <1>1, <2>3, <2>5
  <2>9. [at |-> d.lastAt, boot |-> d.lastBoot, value |-> d.last, rank |-> 1] \in Anchors(b)
    BY <2>6, <2>7, <2>8 DEF Anchors
  <2> QED
    BY <2>2, <2>9
<1> QED
  BY <1>2, <1>3

\* The boundary is the latest anchor.
LEMMA BoundaryIsAnchor ==
  ASSUME CounterIInv, NEW b \in Nat, Anchors(b) # {}
  PROVE  \E a \in Anchors(b) :
           /\ \A x \in Anchors(b) : x.at <= a.at
           /\ LoadCounterBoundary(b) = {[at |-> a.at, boot |-> a.boot, value |-> a.value]}
<1> DEFINE A      == Anchors(b)
           latest == {a \in A : \A x \in A : x.at <= a.at}
           best   == CHOOSE a \in latest : \A x \in latest : a.rank <= x.rank
<1>1. \A a \in A : a.at \in Nat /\ a.at < b /\ (a.rank = 0 \/ a.rank = 1)
  <2>1. \A s \in Observed(raw) : s.at \in Nat
    BY HistoryTypes DEF Observed, Known
  <2>2. \A r \in rollups : r.lastAt \in Nat
    BY RollupTypes
  <2> QED
    BY <2>1, <2>2 DEF Anchors
<1>2. latest # {}
  <2> DEFINE N        == 0..b
             After(a) == {n \in N : a.at < n}
             B        == {After(a) : a \in A}
  <2>1. IsFiniteSet(N)
    BY FS_Interval
  <2>2. PICK T \in B : \A U \in B : U \subseteq T => U = T
    <3>1. B \in SUBSET (SUBSET N) /\ B # {}
      OBVIOUS
    <3> HIDE DEF B, N
    <3> QED
      BY <2>1, <3>1, SmallestSubset
  <2>3. PICK a \in A : T = After(a)
    BY <2>2
  <2>4. ASSUME NEW x \in A, ~(x.at <= a.at) PROVE FALSE
    <3>1. a.at < x.at /\ x.at \in 0..b
      BY <1>1, <2>4
    <3>2. After(x) \subseteq After(a) /\ x.at \in After(a) /\ x.at \notin After(x)
      BY <1>1, <3>1
    <3> QED
      BY <2>2, <2>3, <3>2
  <2> QED
    BY <2>4
<1>3. best \in latest
  <2>1. \E a \in latest : \A x \in latest : a.rank <= x.rank
    <3>1. \A x \in latest : x.rank = 0 \/ x.rank = 1
      BY <1>1
    <3> HIDE DEF latest
    <3>2. CASE \E a \in latest : a.rank = 0
      BY <3>1, <3>2
    <3>3. CASE ~(\E a \in latest : a.rank = 0)
      BY <1>2, <3>1, <3>3
    <3> QED
      BY <3>2, <3>3
  <2> HIDE DEF latest
  <2> QED
    BY <2>1
<1>4. LoadCounterBoundary(b) = {[at |-> best.at, boot |-> best.boot, value |-> best.value]}
  BY DEF LoadCounterBoundary
<1> HIDE DEF best
<1> QED
  BY <1>3, <1>4

LEMMA BoundaryIs ==
  ASSUME CounterIInv, NEW b \in Nat, NEW p \in Observed(history), p.at < b,
         \A h \in Observed(history) : h.at < b => h.at <= p.at,
         NEW c \in Anchors(b), p.at <= c.at
  PROVE  \E a : /\ HasValueOf(a, p, b)
                /\ LoadCounterBoundary(b) = {[at |-> a.at, boot |-> a.boot, value |-> a.value]}
<1>1. PICK a \in Anchors(b) :
        /\ \A x \in Anchors(b) : x.at <= a.at
        /\ LoadCounterBoundary(b) = {[at |-> a.at, boot |-> a.boot, value |-> a.value]}
  BY BoundaryIsAnchor
<1>2. \A x \in Anchors(b) : x.at \in Nat
  <2>1. \A s \in Observed(raw) : s.at \in Nat
    BY HistoryTypes DEF Observed, Known
  <2>2. \A r \in rollups : r.lastAt \in Nat
    BY RollupTypes
  <2> QED
    BY <2>1, <2>2 DEF Anchors
<1>3. p.at <= a.at
  <2>1. p.at \in Nat /\ c.at \in Nat /\ a.at \in Nat /\ c.at <= a.at
    BY <1>1, <1>2, ObservedTypes
  <2> QED
    BY <2>1
<1> QED
  BY <1>1, <1>3, AnchorHasValue

LEMMA BoundaryType ==
  ASSUME CounterIInv, NEW b \in Nat
  PROVE  \/ LoadCounterBoundary(b) = {}
         \/ \E x \in [at : Nat, boot : Nat, value : Nat] : LoadCounterBoundary(b) = {x} /\ x.at < b
<1>1. CASE Anchors(b) = {}
  BY <1>1 DEF LoadCounterBoundary
<1>2. CASE Anchors(b) # {}
  <2>1. PICK a \in Anchors(b) :
          LoadCounterBoundary(b) = {[at |-> a.at, boot |-> a.boot, value |-> a.value]}
    BY <1>2, BoundaryIsAnchor
  <2>2. ASSUME NEW s \in Observed(raw)
        PROVE  s.at \in Nat /\ s.boot \in Nat /\ s.value \in Nat
    <3>1. s \in Observed(history)
      BY HistoryTypes DEF Observed
    <3> QED
      BY <3>1, ObservedTypes
  <2>3. ASSUME NEW r \in rollups, r.last # None
        PROVE  r.lastAt \in Nat /\ r.lastBoot \in Nat /\ r.last \in Nat
    <3>1. r.last \in Value
      BY <2>3 DEF CounterIInv, CounterTypeOK
    <3> QED
      BY <3>1, RollupTypes, BoundAssumption DEF Value
  <2>4. a.at \in Nat /\ a.boot \in Nat /\ a.value \in Nat /\ a.at < b
    BY <2>2, <2>3 DEF Anchors
  <2> QED
    BY <2>1, <2>4
<1> QED
  BY <1>1, <1>2

-----------------------------------------------------------------------------
(* What the new rollup counts *)

\* The samples of the bucket with their boundary are what the loop can count.
LEMMA BucketIsCounted ==
  ASSUME CounterIInv, NEW res \in Resolution, NEW b \in Candidates(res)
  PROVE  LET O == Observed(Bucket(history, res, b))
             B == LoadCounterBoundary(b)
         IN  /\ Counted(B \cup O) /\ Timed(O)
             /\ O = Between(Observed(history), b, b + Width(res))
             /\ B = {} \/ \E x : B = {x}
             /\ \A x \in B, s \in O : x.at < s.at
<1> DEFINE O == Observed(Bucket(history, res, b))
           B == LoadCounterBoundary(b)
           H == Observed(history)
<1>1. b \in Nat
  BY CandidateIs
<1>2. O = Between(H, b, b + Width(res))
  BY DEF Observed, Bucket, Between
<1>3. /\ Timed(H) /\ \A s \in H : s \in [at : Int, boot : Nat, value : Nat]
      /\ O \in SUBSET H /\ \A s \in O : s.at \in Nat /\ b <= s.at
  BY <1>2, ObservedTypes DEF Counted, Between
<1>4. B = {} \/ \E x \in [at : Nat, boot : Nat, value : Nat] : B = {x} /\ x.at < b
  BY <1>1, BoundaryType
<1> HIDE DEF O, B, H
<1>5. Timed(O)
  BY <1>3, TimedSubset
<1>6. \A x \in B, s \in O : x.at < s.at
  BY <1>1, <1>3, <1>4
<1>7. Counted(B \cup O)
  <2>1. CASE B = {}
    <3>1. B \cup O = O
      BY <2>1
    <3> QED
      BY <1>3, <1>5, <3>1 DEF Counted
  <2>2. CASE B # {}
    <3>1. PICK x \in [at : Nat, boot : Nat, value : Nat] : B = {x} /\ x.at < b
      BY <1>4, <2>2
    <3>2. IsFiniteSet(B \cup O)
      <4>1. B \cup O = O \cup {x} /\ IsFiniteSet(O)
        BY <1>5, <3>1 DEF Timed
      <4> QED
        BY <4>1, FS_AddElement
    <3>3. \A s \in O : s \in [at : Int, boot : Nat, value : Nat]
      BY <1>3
    <3>4. x \in [at : Int, boot : Nat, value : Nat] /\ x.at \in Nat
      BY <3>1
    <3>5. \A s \in O : x.at < s.at /\ s.at \in Nat
      BY <1>3, <1>6, <3>1
    <3>6. \A s, t \in B \cup O : s.at = t.at => s = t
      BY <1>5, <3>1, <3>4, <3>5 DEF Timed
    <3> QED
      BY <3>1, <3>2, <3>3, <3>4, <3>5, <3>6 DEF Counted, Timed
  <2> QED
    BY <2>1, <2>2
<1>8. B = {} \/ \E x : B = {x}
  BY <1>4
<1> QED
  BY <1>2, <1>5, <1>6, <1>7, <1>8 DEF O, B, H

\* Between two observed samples the code sees every reset.
LEMMA ResetIsNotGrowing ==
  ASSUME CounterIInv, NEW e \in Observed(history) \X Observed(history)
  PROVE  IsReset(e[1], e[2]) <=> ~Growing(e)
<1>1. \A s \in {e[1], e[2]} : s.boot \in Nat \ {0} /\ s.value \in Nat
  BY ObservedTypes
<1> QED
  BY <1>1 DEF IsReset, Growing, Rebooted, Increase, NoBoot

\* The boundary shows the same reset as the sample before the bucket.
LEMMA BoundaryReset ==
  ASSUME CounterIInv, NEW b \in Nat, NEW p \in Observed(history), NEW f \in Observed(history),
         b <= f.at, NEW a, HasValueOf(a, p, b), ~Hidden(<<p, f>>),
         NEW x, x.boot = a.boot, x.value = a.value
  PROVE  /\ IsReset(x, f) <=> ~Growing(<<p, f>>)
         /\ Increase(<<x, f>>) = Increase(<<p, f>>)
         /\ Increase(<<p, f>>) \in Int
<1>1. /\ p.at \in Nat /\ p.boot \in Nat \ {0} /\ p.value \in Nat /\ p \in history
      /\ f.at \in Nat /\ f.boot \in Nat \ {0} /\ f.value \in Nat /\ f \in history
      /\ x.value = p.value /\ x.boot \in Nat
  BY ObservedTypes DEF HasValueOf
<1>2. /\ Rebooted(<<p, f>>) <=> p.boot # f.boot
      /\ Increase(<<p, f>>) = f.value - p.value /\ Increase(<<x, f>>) = f.value - p.value
  BY <1>1 DEF Rebooted, Increase
<1>3. CASE x.boot = p.boot
  BY <1>1, <1>2, <1>3 DEF IsReset, Growing, NoBoot
<1>4. CASE x.boot # p.boot
  <2>1. PICK u \in history : u.value = None /\ u.boot = x.boot /\ p.at < u.at /\ u.at < b
    BY <1>4 DEF HasValueOf
  <2>2. u.at \in Nat /\ u.boot \in Nat /\ u.at < f.at
    BY <1>1, <2>1, HistoryTypes DEF Known
  <2>3. p.boot # f.boot => f.value - p.value < 0
    BY <1>1, <1>2, <2>1, <2>2 DEF Hidden
  <2>4. CASE f.value < p.value
    BY <1>1, <1>2, <2>4 DEF IsReset, Growing
  <2>5. CASE ~(f.value < p.value)
    <3>1. p.boot = f.boot
      BY <1>1, <2>3, <2>5
    <3>2. u.boot # NoBoot => p.boot <= u.boot /\ u.boot <= f.boot
      <4> HAVE u.boot # NoBoot
      <4>1. p \in Known /\ u \in Known /\ f \in Known /\ p.at <= u.at /\ u.at <= f.at
            /\ f.boot # NoBoot
        BY <1>1, <2>1, <2>2 DEF Known, NoBoot
      <4> QED
        BY <4>1 DEF CounterIInv, SamplesInv
    <3>3. ~IsReset(x, f)
      BY <1>1, <2>1, <2>2, <2>5, <3>1, <3>2 DEF IsReset
    <3> QED
      BY <1>1, <1>2, <2>5, <3>1, <3>3 DEF Growing
  <2> QED
    BY <2>4, <2>5
<1> QED
  BY <1>1, <1>2, <1>3, <1>4

\* The new rollup counts what happened up to each of its samples.
LEMMA NewIsExact ==
  ASSUME CounterIInv, NEW res \in Resolution, NEW b \in Candidates(res),
         NEW n, n = NewRollup(res, b)
  PROVE  Exact(n)
<1> DEFINE S == Bucket(history, res, b)
           H == Observed(history)
           O == Observed(S)
           B == LoadCounterBoundary(b)
           q == Newest(S)
<1>1. /\ n.inputs = S /\ n.lastAt = q.at
      /\ n.resets = AggregateCounter(S, B).resets /\ n.delta = AggregateCounter(S, B).delta
  BY CandidateIs DEF NewRollup
<1>2. q \in S /\ \A t \in S : t.at <= q.at
  <2>1. S \in SUBSET history /\ S # {}
    BY CandidateIs DEF Bucket
  <2> HIDE DEF S
  <2> QED
    BY <2>1, HistoryTypes, TimedSubset, NewestExists
<1>3. b \in Nat /\ Width(res) \in Nat \ {0} /\ Timed(H) /\ H \subseteq history
      /\ \A s \in H : s.at \in Nat
  BY CandidateIs, WidthIsPositive, ObservedTypes
<1>4. /\ Counted(B \cup O) /\ Timed(O) /\ (B = {} \/ \E x : B = {x})
      /\ O = Between(H, b, b + Width(res))
      /\ \A x \in B, s \in O : x.at < s.at
  BY BucketIsCounted
<1>10. O \in SUBSET H /\ \A s \in O : s.at \in Nat /\ b <= s.at
  BY <1>3, <1>4 DEF Between
<1>5. Pairs(n) = {e \in Successive(H) : e[2] \in O}
  BY <1>1 DEF Pairs, Successive, Observed
<1>6. SUFFICES ASSUME \A e \in Pairs(n) : ~Hidden(e) /\ ~Forgotten(n, e)
               PROVE  Accounts(n, Pairs(n))
  BY DEF Exact
<1>7. \A e \in H \X H : IsReset(e[1], e[2]) <=> ~Growing(e)
  BY ResetIsNotGrowing
<1> HIDE DEF S, H, B, q
<1>8. CASE O = {}
  <2>1. Pairs(n) = {}
    BY <1>5, <1>8
  <2>2. n.delta = None /\ n.resets = 0
    BY <1>1, <1>8 DEF AggregateCounter
  <2>3. Growth({}) = {} /\ {} \ {} = {} /\ Cardinality({}) = 0
    BY FS_EmptySet DEF Growth
  <2> QED
    BY <2>1, <2>2, <2>3 DEF Accounts
<1>9. CASE O # {}
  <2> DEFINE E == Successive(B \cup O)
             g == Cardinality(Increments(Grows(E)))
  <2> HIDE DEF O
  <2>1. /\ IsFiniteSet(Increments(Grows(E)))
        /\ n.resets = Cardinality(Resets(E))
        /\ n.delta = IF Grows(E) = {} \/ g > MaxInt THEN None ELSE g
    BY <1>1, <1>4, <1>9, AggregateIs DEF O
  <2> HIDE DEF g
  <2>2. CASE ~(\E h \in H : h.at < b)
    <3>1. B = {}
      BY <1>3, <2>2, NoAnchor DEF B, H
    <3>2. Pairs(n) = E
      <4> DEFINE c == b + Width(res)
      <4>1. /\ c \in Int /\ b \in Int /\ B \in SUBSET H /\ \A h \in B : h.at < b
            /\ \A h \in H : h.at < b => \E x \in B : h.at <= x.at
            /\ O = Between(H, b, c)
        BY <1>3, <1>4, <2>2, <3>1
      <4> HIDE DEF c
      <4>2. {e \in Successive(H) : e[2] \in Between(H, b, c)} = Successive(B \cup Between(H, b, c))
        BY <1>3, <3>1, <4>1, PairsOfBucket
      <4> QED
        BY <1>5, <4>1, <4>2
    <3>3. Growth(E) = Grows(E) /\ E \ Growth(E) = Resets(E)
      <4>1. \A e \in E : e \in H \X H
        BY <1>10, <3>1 DEF Successive
      <4> QED
        BY <1>7, <4>1 DEF Growth, Grows, Resets
    <3> QED
      BY <2>1, <3>2, <3>3 DEF Accounts, g
  <2>3. CASE \E h \in H : h.at < b
    <3>1. PICK p \in H : p.at < b /\ \A h \in H : h.at < b => h.at <= p.at
      <4> DEFINE P == {h \in H : h.at < b}
      <4>1. P \in SUBSET H /\ P # {}
        BY <2>3
      <4>2. Newest(P) \in P /\ \A h \in P : h.at <= Newest(P).at
        <5> HIDE DEF P
        <5> QED
          BY <1>3, <4>1, TimedSubset, NewestExists
      <4> QED
        BY <4>2
    <3>2. PICK f \in O : \A s \in O : f.at <= s.at
      BY <1>4, <1>9, OldestExists
    <3>3. /\ p \in H /\ p.at \in Nat /\ f \in H /\ f.at \in Nat /\ b <= f.at
          /\ \A s \in O : s.at \in Nat /\ p.at < s.at
      BY <1>3, <1>10, <3>1, <3>2
    <3>4. /\ Successive({p} \cup O) = Successive(O) \cup {<<p, f>>}
          /\ <<p, f>> \notin Successive(O)
      <4>1. p.at \in Int
        BY <3>3
      <4> QED
        BY <1>4, <3>2, <3>3, <4>1, FirstPair
    <3>5. Pairs(n) = Successive(O) \cup {<<p, f>>}
      <4> DEFINE c == b + Width(res)
                 D == {p}
      <4>1. /\ c \in Int /\ b \in Int /\ D \in SUBSET H /\ \A h \in D : h.at < b
            /\ \A h \in H : h.at < b => \E x \in D : h.at <= x.at
            /\ O = Between(H, b, c)
            /\ D = {} \/ \E x : D = {x}
        BY <1>3, <1>4, <3>1
      <4> HIDE DEF c, D
      <4>2. {e \in Successive(H) : e[2] \in Between(H, b, c)} = Successive(D \cup Between(H, b, c))
        BY <1>3, <4>1, PairsOfBucket
      <4> QED
        BY <1>5, <3>4, <4>1, <4>2 DEF D
    <3>6. ~Hidden(<<p, f>>) /\ ~Forgotten(n, <<p, f>>)
      BY <1>6, <3>5
    <3>7. PICK c \in Anchors(b) : p.at <= c.at
      <4>1. ~(Floor(p.at, "day") + DayLength <= Floor(q.at + MaxDelay - DayRetention, "day"))
        BY <1>1, <3>6 DEF Forgotten
      <4> QED
        BY <1>2, <3>1, <4>1, AnchorExists DEF S, H
    <3>8. PICK a : HasValueOf(a, p, b) /\ B = {[at |-> a.at, boot |-> a.boot, value |-> a.value]}
      BY <1>3, <3>1, <3>7, BoundaryIs DEF B, H
    <3> DEFINE x == [at |-> a.at, boot |-> a.boot, value |-> a.value]
    <3>9. /\ IsReset(x, f) <=> ~Growing(<<p, f>>)
          /\ Increase(<<x, f>>) = Increase(<<p, f>>) /\ Increase(<<p, f>>) \in Int
      <4>1. x.boot = a.boot /\ x.value = a.value
        OBVIOUS
      <4> HIDE DEF x
      <4> QED
        BY <1>3, <3>3, <3>6, <3>8, <4>1, BoundaryReset DEF H
    <3>10. x.at \in Int /\ \A s \in O : x.at < s.at
      BY <1>4, <3>8 DEF HasValueOf
    <3>11. B = {x}
      BY <3>8
    <3> HIDE DEF x
    <3>12. E = Successive(O) \cup {<<x, f>>} /\ <<x, f>> \notin Successive(O)
      BY <1>4, <3>2, <3>10, <3>11, FirstPair
    <3> DEFINE N == Successive(O)
               y == <<p, f>>
               z == <<x, f>>
    <3>13. IsFiniteSet(N)
      BY <1>4, PairsAreFinite DEF Timed
    <3>14. \A e \in N : IsReset(e[1], e[2]) <=> ~Growing(e)
      BY <1>7, <1>10 DEF Successive
    <3>15. /\ Pairs(n) = N \cup {y} /\ y \notin N /\ E = N \cup {z} /\ z \notin N
           /\ IsReset(z[1], z[2]) <=> ~Growing(y)
           /\ Increase(z) = Increase(y) /\ Increase(y) \in Int
      BY <3>4, <3>5, <3>9, <3>12
    <3> HIDE DEF N, y, z, E
    <3>16. /\ Cardinality(Resets(N \cup {z})) = Cardinality((N \cup {y}) \ Growth(N \cup {y}))
           /\ Grows(N \cup {z}) = {} <=> Growth(N \cup {y}) = {}
           /\ Cardinality(Increments(Grows(N \cup {z}))) = Cardinality(Increments(Growth(N \cup {y})))
      BY <2>1, <3>13, <3>14, <3>15, SameCounts
    <3> QED
      BY <2>1, <3>15, <3>16 DEF Accounts, g
  <2> QED
    BY <2>2, <2>3
<1> QED
  BY <1>8, <1>9

\* The types of a rollup's fields, over the samples of H.
Rollup(H) ==
  [res : Resolution, start : 0..MaxClock, inputs : SUBSET H,
   last : Value \cup {None}, lastAt : 0..MaxClock, lastBoot : 0..MaxBoot,
   delta : Value \cup {None}, resets : Nat,
   sealed : BOOLEAN, pruned : BOOLEAN]

LEMMA CounterType ==
  ASSUME CounterIInv, NEW res \in Resolution, NEW b \in Candidates(res)
  PROVE  LET counter == AggregateCounter(Bucket(history, res, b), LoadCounterBoundary(b))
         IN  counter.delta \in Value \cup {None} /\ counter.resets \in Nat
<1> DEFINE S == Bucket(history, res, b)
           O == Observed(S)
           B == LoadCounterBoundary(b)
           E == Successive(B \cup O)
           g == Cardinality(Increments(Grows(E)))
<1>1. CASE O = {}
  BY <1>1 DEF AggregateCounter
<1>2. CASE O # {}
  <2>1. Counted(B \cup O) /\ (B = {} \/ \E x : B = {x}) /\ \A x \in B, s \in O : x.at < s.at
    BY BucketIsCounted
  <2> HIDE DEF S, B
  <2>2. /\ IsFiniteSet(Increments(Grows(E)))
        /\ AggregateCounter(S, B).resets = Cardinality(Resets(E))
        /\ AggregateCounter(S, B).delta = IF Grows(E) = {} \/ g > MaxInt THEN None ELSE g
    BY <1>2, <2>1, AggregateIs
  <2>3. IsFiniteSet(Resets(E))
    <3>1. IsFiniteSet(E)
      BY <2>1, PairsAreFinite DEF Counted, Timed
    <3>2. Resets(E) \in SUBSET E
      BY DEF Resets
    <3> QED
      BY <3>1, <3>2, FS_Subset
  <2>4. g \in Nat /\ Cardinality(Resets(E)) \in Nat
    BY <2>2, <2>3, FS_CardinalityType
  <2> HIDE DEF g, E
  <2>5. AggregateCounter(S, B).delta \in Value \cup {None}
    BY <2>2, <2>4, BoundAssumption DEF Value
  <2> QED
    BY <2>2, <2>4, <2>5 DEF S, B
<1> QED
  BY <1>1, <1>2

\* The rollup of a bucket of which nothing is deleted.
LEMMA NewRollupIs ==
  ASSUME CounterIInv, NEW res \in Resolution, NEW b \in Candidates(res),
         NEW n, n = NewRollup(res, b)
  PROVE  /\ n \in Rollup(history)
         /\ n.res = res /\ n.start = b /\ n.inputs = Bucket(history, res, b)
         /\ ~n.sealed /\ ~n.pruned /\ RollupInv(n)
<1> DEFINE S == Bucket(history, res, b)
           O == Observed(S)
           q == Newest(S)
           c == AggregateCounter(S, LoadCounterBoundary(b))
           l == IF O = {} THEN None ELSE Newest(O).value
<1>1. /\ b \in Nat /\ b = Floor(b, res) /\ b + Width(res) <= clock /\ S # {}
      /\ Bucket(raw, res, b) = S /\ Width(res) \in Nat \ {0} /\ clock \in 0..MaxClock
  BY CandidateIs, WidthIsPositive DEF CounterIInv, CounterTypeOK
<1>2. /\ c.delta \in Value \cup {None} /\ c.resets \in Nat
  BY CounterType
<1>3. n = [res |-> res, start |-> b, inputs |-> S, last |-> l,
           lastAt |-> q.at, lastBoot |-> q.boot,
           delta |-> c.delta, resets |-> c.resets, sealed |-> FALSE, pruned |-> FALSE]
  BY <1>1 DEF NewRollup
<1>4. Timed(S) /\ S \in SUBSET history /\ Timed(O) /\ O \in SUBSET S
  <2>1. S \in SUBSET history /\ O \in SUBSET S
    BY DEF Bucket, Observed
  <2> HIDE DEF S, O
  <2>2. Timed(S)
    BY <2>1, HistoryTypes, TimedSubset
  <2> QED
    BY <2>1, <2>2, TimedSubset
<1>5. q \in S /\ \A t \in S : t.at <= q.at
  <2> HIDE DEF S
  <2> QED
    BY <1>1, <1>4, NewestExists
<1>6. O # {} => Newest(O) \in O /\ \A t \in O : t.at <= Newest(O).at
  <2> HIDE DEF O
  <2> QED
    BY <1>4, NewestExists
<1>7. \A s \in history : s \in Sample /\ s.at \in Nat
  BY HistoryTypes DEF Known
<1>8. \A s \in S : b <= s.at /\ s.at < b + Width(res)
  BY DEF Bucket
<1>9. l \in Value \cup {None}
  <2>1. \A s \in O : s.value \in Value \cup {None}
    BY <1>4, <1>7 DEF Sample
  <2> HIDE DEF O
  <2> QED
    BY <1>6, <2>1
<1>10. q.at \in 0..MaxClock /\ q.boot \in 0..MaxBoot
  BY <1>4, <1>5, <1>7 DEF Sample
<1>11. b \in 0..MaxClock
  BY <1>1, BoundAssumption
<1>14. S \in SUBSET history
  BY <1>4
<1> HIDE DEF S, O, q, c, l
<1>12. /\ n.res = res /\ n.start = b /\ n.inputs = S /\ n.last = l /\ n.lastAt = q.at
       /\ n.lastBoot = q.boot /\ n.sealed = FALSE /\ n.pruned = FALSE
  BY <1>3
<1>13. n \in Rollup(history)
  BY <1>2, <1>3, <1>9, <1>10, <1>11, <1>14 DEF Rollup
<1>15. S = {s \in history : b <= s.at /\ s.at <= q.at}
  <2>1. ASSUME NEW s \in history, b <= s.at, s.at <= q.at PROVE s \in S
    <3>1. q.at < b + Width(res) /\ q.at \in Nat /\ s.at \in Nat
      BY <1>5, <1>7, <1>8, <1>14
    <3>2. s.at < b + Width(res)
      BY <1>1, <2>1, <3>1
    <3> QED
      BY <2>1, <3>2 DEF S, Bucket
  <2> QED
    BY <1>5, <1>8, <1>14, <2>1
<1>16. LastInv(n)
  <2>1. \E s \in n.inputs : s.at = n.lastAt /\ s.boot = n.lastBoot
    BY <1>5, <1>12
  <2>2. CASE O = {}
    BY <1>12, <2>1, <2>2 DEF LastInv, O, l
  <2>3. CASE O # {}
    <3>1. Newest(O) \in O /\ n.last = Newest(O).value /\ Newest(O).value # None
      BY <1>6, <1>12, <2>3 DEF O, l, Observed
    <3> QED
      BY <1>6, <1>12, <2>1, <2>3, <3>1 DEF LastInv, O
  <2> QED
    BY <2>2, <2>3
<1>17. Exact(n)
  BY NewIsExact
<1>18. q.at < b + Width(res)
  BY <1>5, <1>8
<1>19. RollupInv(n)
  BY <1>1, <1>12, <1>15, <1>16, <1>17, <1>18 DEF RollupInv
<1> QED
  BY <1>12, <1>13, <1>19 DEF S

LEMMA CompactKeepsIInv ==
  ASSUME CounterIInv, NEW res \in Resolution, Compact(res)
  PROVE  CounterIInv'
<1> DEFINE b == Min(Candidates(res))
           n == NewRollup(res, b)
           old == Of(res, b)
<1>1. b \in Candidates(res)
  BY OldestCandidate DEF Compact
<1>2. /\ n \in Rollup(history)
      /\ n.res = res /\ n.start = b /\ n.inputs = Bucket(history, res, b)
      /\ ~n.sealed /\ ~n.pruned /\ RollupInv(n)
  BY <1>1, NewRollupIs
<1>3. rollups' = (rollups \ old) \cup {n} /\ UNCHANGED <<clock, device, inflight, raw, history>>
  BY <1>2, Zenon DEF Compact, Upsert
<1>4. \A r \in old : ~r.sealed /\ r.res = res /\ r.start = b /\ r \in rollups
  BY <1>1, CandidateIs DEF Of
<1>5. \A r \in rollups : r.res = res /\ r.start = b => r \in old
  BY DEF Of
<1> HIDE DEF b, n, old
<1>6. CounterTypeOK'
  <2>1. rollups \subseteq Rollup(history)
    BY DEF CounterIInv, CounterTypeOK, Rollup
  <2>2. rollups' \subseteq Rollup(history')
    BY <1>2, <1>3, <2>1
  <2> QED
    BY <1>3, <2>2 DEF CounterIInv, CounterTypeOK, Rollup
<1>7. SamplesInv'
  BY <1>3 DEF CounterIInv, SamplesInv, Known
<1>8. OneRollup'
  BY <1>2, <1>3, <1>5 DEF CounterIInv, OneRollup
<1>9. \A r : RollupInv(r) => RollupInv(r)'
  BY <1>3 DEF RollupInv, LastInv, Exact, Pairs, Hidden, Forgotten, Accounts, Cutoff
<1>10. \A r \in rollups' : RollupInv(r)'
  BY <1>2, <1>3, <1>9 DEF CounterIInv
<1>11. ASSUME NEW t \in Known, NEW f \in Resolution, Compacted(t, f) PROVE Compacted(t, f)'
  <2>1. PICK r \in rollups : r.res = f /\ t \in r.inputs
    BY <1>11 DEF Compacted
  <2>2. CASE r \notin old
    BY <1>3, <2>1, <2>2 DEF Compacted
  <2>3. CASE r \in old
    <3>1. r.res = res /\ r.start = b
      BY <1>4, <2>3
    <3>2. t \in history /\ r.start <= t.at /\ t.at < r.start + Width(r.res)
      BY <2>1, InputsInBucket
    <3>3. t \in n.inputs
      BY <1>2, <3>1, <3>2 DEF Bucket
    <3> QED
      BY <1>2, <1>3, <2>1, <3>1, <3>3 DEF Compacted
  <2> QED
    BY <2>2, <2>3
<1>12. ASSUME NEW t, NEW f, SealedOver(t, f) PROVE SealedOver(t, f)'
  BY <1>3, <1>4, <1>12 DEF SealedOver
<1>13. DeletedInv'
  <2>1. \A t \in history : t \in Known
    BY DEF Known
  <2> QED
    BY <1>3, <1>11, <1>12, <2>1 DEF CounterIInv, DeletedInv
<1>14. PrunedInv'
  <2> SUFFICES ASSUME NEW r \in rollups', r.res = "day", r.pruned, NEW t \in Known', NEW f \in Resolution
               PROVE  Compacted(t, f)'
                      \/ r.start + DayLength <= Floor(t.at + MaxDelay - DayRetention, "day")
    BY DEF PrunedInv
  <2>1. r \in rollups /\ t \in Known
    BY <1>2, <1>3 DEF Known
  <2>2. Compacted(t, f) \/ r.start + DayLength <= Floor(t.at + MaxDelay - DayRetention, "day")
    BY <2>1 DEF CounterIInv, PrunedInv
  <2> QED
    BY <1>11, <2>1, <2>2
<1> QED
  BY <1>6, <1>7, <1>8, <1>10, <1>13, <1>14 DEF CounterIInv

-----------------------------------------------------------------------------
(* Retention *)

\* Without a backlog every sample of a closed bucket is compacted.
LEMMA NoBacklog ==
  ASSUME CounterIInv, ~Backlog, NEW t \in history, NEW res \in Resolution, t.at < Floor(clock, res)
  PROVE  Compacted(t, res)
<1>1. CASE t \notin raw
  BY <1>1 DEF CounterIInv, DeletedInv, SealedOver, Compacted
<1>2. CASE t \in raw
  <2> DEFINE b == Floor(t.at, res)
  <2>1. t.at \in Nat /\ b <= t.at /\ t.at < b + Width(res)
    BY HistoryTypes, FloorBounds DEF Known
  <2>2. b \notin Candidates(res)
    BY DEF Backlog
  <2>3. PICK r \in Of(res, b) : r.sealed \/ SameInput(r, Bucket(raw, res, b))
    BY <1>2, <2>2 DEF Candidates
  <2>4. r \in rollups /\ r.res = res /\ r.start = b
    BY DEF Of
  <2>5. t \in r.inputs
    <3>1. CASE r.sealed
      BY <2>1, <2>4, <3>1, RollupTypes DEF RollupInv, Bucket
    <3>2. CASE SameInput(r, Bucket(raw, res, b))
      BY <1>2, <2>1, <3>2 DEF SameInput, Bucket
    <3> QED
      BY <2>3, <3>1, <3>2
  <2> QED
    BY <2>4, <2>5 DEF Compacted
<1> QED
  BY <1>1, <1>2

\* Nothing is deleted from the bucket of a rollup that is not sealed.
LEMMA UnsealedIsRaw ==
  ASSUME CounterIInv, NEW r \in rollups, ~r.sealed
  PROVE  Bucket(raw, r.res, r.start) = Bucket(history, r.res, r.start)
<1>1. r.res \in Resolution /\ r.start \in Nat /\ r.start = Floor(r.start, r.res)
  BY RollupTypes DEF RollupInv
<1>2. ASSUME NEW t \in Bucket(history, r.res, r.start), t \notin raw PROVE FALSE
  <2>1. t \in history /\ r.start <= t.at /\ t.at < r.start + Width(r.res) /\ t.at \in Nat
    BY HistoryTypes DEF Bucket, Known
  <2>2. Floor(t.at, r.res) = r.start
    BY <1>1, <2>1, FloorUnique
  <2>3. PICK d \in rollups : d.res = r.res /\ d.sealed /\ t \in d.inputs
    BY <1>1, <1>2, <2>1 DEF CounterIInv, DeletedInv, SealedOver
  <2>4. d.start = r.start
    BY <2>2, <2>3, InputsInBucket
  <2>5. d = r
    BY <2>3, <2>4 DEF CounterIInv, OneRollup
  <2> QED
    BY <2>3, <2>5
<1>3. Bucket(raw, r.res, r.start) \subseteq Bucket(history, r.res, r.start)
  BY HistoryTypes DEF Bucket
<1>4. Bucket(history, r.res, r.start) \subseteq Bucket(raw, r.res, r.start)
  BY <1>2 DEF Bucket
<1> QED
  BY <1>3, <1>4

\* What becomes of a rollup.
Retained(r, left) ==
  LET sealed == {Seal(x) : x \in rollups}
  IN  [Seal(r) EXCEPT !.pruned = @ \/ PruneHour(Seal(r), sealed, left) \/ PruneDay(Seal(r), left)]

LEMMA RetainedIs ==
  ASSUME CounterIInv, NEW r \in rollups, NEW left
  PROVE  LET x == Retained(r, left)
         IN  /\ x \in Rollup(history)
             /\ x.res = r.res /\ x.start = r.start /\ x.inputs = r.inputs /\ x.last = r.last
             /\ x.lastAt = r.lastAt /\ x.lastBoot = r.lastBoot
             /\ x.delta = r.delta /\ x.resets = r.resets
             /\ x.sealed = Seal(r).sealed /\ (r.sealed => x.sealed)
             /\ x.sealed => \/ r.sealed
                            \/ /\ r.start + Width(r.res) <= Cutoff(RawRetention)
                               /\ r.inputs = Bucket(raw, r.res, r.start)
             /\ x.pruned /\ r.res = "day" => r.pruned \/ r.start + DayLength <= Cutoff(DayRetention)
<1> DEFINE x == Retained(r, left)
           s == r.sealed \/ (/\ r.start + Width(r.res) <= Cutoff(RawRetention)
                             /\ r.inputs = Bucket(raw, r.res, r.start))
           d == {Seal(z) : z \in rollups}
           p == \/ r.pruned \/ PruneHour(Seal(r), d, left) \/ PruneDay(Seal(r), left)
<1>1. r \in Rollup(history)
  BY DEF CounterIInv, CounterTypeOK, Rollup
<1>2. Seal(r) = [r EXCEPT !.sealed = s]
  BY DEF Seal
<1>3. s \in BOOLEAN /\ p \in BOOLEAN
  <2>1. r.sealed \in BOOLEAN /\ r.pruned \in BOOLEAN
    BY <1>1 DEF Rollup
  <2> QED
    BY <2>1
<1>4. x = [Seal(r) EXCEPT !.pruned = p]
  <2>1. Seal(r).pruned = r.pruned
    BY <1>1, <1>2 DEF Rollup
  <2> QED
    BY <2>1 DEF Retained
<1>5. p => \/ r.pruned \/ Seal(r).res = "hour"
           \/ (Seal(r).res = "day" /\ Seal(r).start + DayLength <= Cutoff(DayRetention))
  BY DEF PruneHour, PruneDay
<1>6. s => \/ r.sealed
           \/ /\ r.start + Width(r.res) <= Cutoff(RawRetention)
              /\ r.inputs = Bucket(raw, r.res, r.start)
  OBVIOUS
<1>7. r.sealed => s
  OBVIOUS
<1> HIDE DEF s, p, x
<1>8. /\ Seal(r) \in Rollup(history) /\ Seal(r).res = r.res /\ Seal(r).start = r.start
      /\ Seal(r).inputs = r.inputs /\ Seal(r).last = r.last
      /\ Seal(r).lastAt = r.lastAt /\ Seal(r).lastBoot = r.lastBoot
      /\ Seal(r).delta = r.delta /\ Seal(r).resets = r.resets /\ Seal(r).sealed = s
  BY <1>1, <1>2, <1>3 DEF Rollup
<1>9. /\ x \in Rollup(history) /\ x.res = r.res /\ x.start = r.start
      /\ x.inputs = r.inputs /\ x.last = r.last
      /\ x.lastAt = r.lastAt /\ x.lastBoot = r.lastBoot
      /\ x.delta = r.delta /\ x.resets = r.resets /\ x.sealed = s /\ x.pruned = p
  BY <1>3, <1>4, <1>8 DEF Rollup
<1> QED
  BY <1>5, <1>6, <1>7, <1>8, <1>9 DEF x

LEMMA EnforceRetentionIs ==
  ASSUME EnforceRetention
  PROVE  LET left == raw \ Deletable({Seal(x) : x \in rollups})
         IN  /\ raw' = left /\ rollups' = {Retained(r, left) : r \in rollups}
             /\ ~Backlog /\ UNCHANGED <<clock, device, inflight, history>>
<1> DEFINE sealed == {Seal(x) : x \in rollups}
           left   == raw \ Deletable(sealed)
           G(r)   == [r EXCEPT !.pruned = @ \/ PruneHour(r, sealed, left) \/ PruneDay(r, left)]
<1>1. /\ raw' = left /\ rollups' = {G(r) : r \in sealed}
      /\ ~Backlog /\ UNCHANGED <<clock, device, inflight, history>>
  BY Zenon DEF EnforceRetention
<1>2. \A r : Retained(r, left) = G(Seal(r))
  BY DEF Retained
<1>3. {G(r) : r \in sealed} = {G(Seal(r)) : r \in rollups}
  <2> HIDE DEF G
  <2> QED
    OBVIOUS
<1> HIDE DEF G, left
<1>4. rollups' = {Retained(r, left) : r \in rollups}
  BY <1>1, <1>2, <1>3
<1> QED
  BY <1>1, <1>4 DEF left

LEMMA RetentionKeepsIInv ==
  ASSUME CounterIInv, EnforceRetention
  PROVE  CounterIInv'
<1> DEFINE sealed == {Seal(x) : x \in rollups}
           gone == Deletable(sealed)
           left == raw \ gone
           R(r) == Retained(r, left)
<1>1. /\ raw' = left /\ rollups' = {R(r) : r \in rollups} /\ ~Backlog
      /\ UNCHANGED <<clock, device, inflight, history>>
  BY EnforceRetentionIs
<1>2. ASSUME NEW r \in rollups
      PROVE  LET x == R(r)
             IN  /\ x \in Rollup(history) /\ x \in rollups'
                 /\ x.res = r.res /\ x.start = r.start /\ x.inputs = r.inputs /\ x.last = r.last
                 /\ x.lastAt = r.lastAt /\ x.lastBoot = r.lastBoot
                 /\ x.delta = r.delta /\ x.resets = r.resets
                 /\ x.sealed = Seal(r).sealed /\ (r.sealed => x.sealed)
                 /\ x.sealed => \/ r.sealed
                                \/ /\ r.start + Width(r.res) <= Cutoff(RawRetention)
                                   /\ r.inputs = Bucket(raw, r.res, r.start)
                 /\ x.pruned /\ r.res = "day" => r.pruned \/ r.start + DayLength <= Cutoff(DayRetention)
  BY <1>1, RetainedIs
<1>3. \A x \in rollups' : \E r \in rollups : x = R(r)
  BY <1>1
<1>4. gone \subseteq raw /\ left \subseteq raw /\ raw \subseteq history
  BY HistoryTypes DEF Deletable
<1>5. ASSUME NEW s \in gone, NEW res \in Resolution
      PROVE  /\ s \in raw /\ s.at < Cutoff(RawRetention)
             /\ \E r \in rollups : r.res = res /\ r.start = Floor(s.at, res) /\ Seal(r).sealed
  <2>1. /\ s \in raw /\ s.at < Cutoff(RawRetention)
        /\ \E x \in sealed : x.res = res /\ x.start = Floor(s.at, res) /\ x.sealed
    BY DEF Deletable
  <2>2. PICK r \in rollups : Seal(r).res = res /\ Seal(r).start = Floor(s.at, res) /\ Seal(r).sealed
    BY <2>1
  <2>3. Seal(r).res = r.res /\ Seal(r).start = r.start
    <3>1. r \in Rollup(history)
      BY DEF CounterIInv, CounterTypeOK, Rollup
    <3> QED
      BY <3>1 DEF Seal, Rollup
  <2> QED
    BY <2>1, <2>2, <2>3
<1> HIDE DEF R, gone
<1>6. CounterTypeOK'
  <2>1. rollups' \subseteq Rollup(history')
    BY <1>1, <1>2, <1>3
  <2> QED
    BY <1>1, <1>4, <2>1 DEF CounterIInv, CounterTypeOK, Rollup
<1>7. SamplesInv'
  BY <1>1 DEF CounterIInv, SamplesInv, Known
<1>8. OneRollup'
  <2> SUFFICES ASSUME NEW x \in rollups', NEW y \in rollups', x.res = y.res, x.start = y.start
               PROVE  x = y
    BY DEF OneRollup
  <2>1. PICK r \in rollups : x = R(r)
    BY <1>3
  <2>2. PICK q \in rollups : y = R(q)
    BY <1>3
  <2>3. r.res = q.res /\ r.start = q.start
    BY <1>2, <2>1, <2>2
  <2>4. r = q
    BY <2>3 DEF CounterIInv, OneRollup
  <2> QED
    BY <2>1, <2>2, <2>4
<1>9. ASSUME NEW x \in rollups' PROVE RollupInv(x)'
  <2>8. PICK r \in rollups : x = R(r)
    BY <1>3
  <2>1. /\ x.res = r.res /\ x.start = r.start /\ x.inputs = r.inputs /\ x.last = r.last
        /\ x.lastAt = r.lastAt /\ x.lastBoot = r.lastBoot
        /\ x.delta = r.delta /\ x.resets = r.resets
        /\ x.sealed => \/ r.sealed
                       \/ /\ r.start + Width(r.res) <= Cutoff(RawRetention)
                          /\ r.inputs = Bucket(raw, r.res, r.start)
        /\ x.pruned /\ r.res = "day" => r.pruned \/ r.start + DayLength <= Cutoff(DayRetention)
    BY <1>2, <2>8
  <2>2. RollupInv(r)
    BY RollupTypes
  <2>3. LastInv(x)'
    BY <2>1, <2>2 DEF RollupInv, LastInv
  <2>4. Exact(x)'
    BY <1>1, <2>1, <2>2 DEF RollupInv, Exact, Pairs, Hidden, Forgotten, Accounts
  <2>5. x.sealed => /\ x.inputs = Bucket(history, x.res, x.start)
                    /\ x.start + Width(x.res) <= Cutoff(RawRetention)
    <3>1. CASE r.sealed
      BY <2>1, <2>2, <3>1 DEF RollupInv
    <3>2. CASE ~r.sealed
      BY <2>1, <3>2, UnsealedIsRaw
    <3> QED
      BY <3>1, <3>2
  <2>6. x.pruned /\ x.res = "day" => x.start + DayLength <= Cutoff(DayRetention)
    BY <2>1, <2>2 DEF RollupInv
  <2> QED
    BY <1>1, <2>1, <2>2, <2>3, <2>4, <2>5, <2>6 DEF RollupInv, Cutoff
<1>10. \A x \in rollups' : RollupInv(x)'
  BY <1>9
<1>11. ASSUME NEW t, NEW res, Compacted(t, res) PROVE Compacted(t, res)'
  BY <1>2, <1>11 DEF Compacted
<1>12. ASSUME NEW t, NEW res, SealedOver(t, res) PROVE SealedOver(t, res)'
  BY <1>2, <1>12 DEF SealedOver
<1>13. DeletedInv'
  <2> SUFFICES ASSUME NEW s \in history, s \notin left, NEW res \in Resolution
               PROVE  /\ SealedOver(s, res)'
                      /\ \A t \in history : Floor(t.at, "day") = Floor(s.at, "day") => Compacted(t, res)'
    BY <1>1 DEF DeletedInv
  <2>1. CASE s \notin raw
    BY <1>11, <1>12, <2>1 DEF CounterIInv, DeletedInv
  <2>2. CASE s \in raw
    <3>1. s \in gone
      BY <2>2
    <3>2. s.at \in Nat /\ clock \in Nat /\ clock - RawRetention \in Int
      BY HistoryTypes, Spans DEF Known
    <3>3. SealedOver(s, res)'
      <4>1. PICK r \in rollups : r.res = res /\ r.start = Floor(s.at, res) /\ Seal(r).sealed
        BY <1>5, <3>1
      <4>2. PICK x \in rollups' : x.res = res /\ x.start = Floor(s.at, res) /\ x.sealed
        BY <1>2, <4>1
      <4>3. RollupInv(x)'
        BY <1>9
      <4>4. x.inputs = Bucket(history, res, Floor(s.at, res))
        BY <1>1, <4>2, <4>3 DEF RollupInv
      <4>5. s \in x.inputs
        BY <3>2, <4>4, FloorBounds DEF Bucket
      <4> QED
        BY <4>2, <4>5 DEF SealedOver
    <3>4. ASSUME NEW t \in history, Floor(t.at, "day") = Floor(s.at, "day")
          PROVE  Compacted(t, res)'
      <4>1. t.at \in Nat /\ Width("day") \in Nat
        BY HistoryTypes, WidthIsPositive DEF Known
      <4>2. s.at < Cutoff(RawRetention)
        BY <1>5, <3>1
      <4>3. Floor(s.at, "day") + Width("day") <= Cutoff(RawRetention)
        BY <3>2, <4>2, FloorGap DEF Cutoff
      <4>4. t.at < Floor(s.at, "day") + Width("day") /\ Floor(s.at, "day") \in Int
        BY <3>2, <3>4, <4>1, FloorBounds
      <4>5. Cutoff(RawRetention) <= Floor(clock, "day")
        <5>1. clock - RawRetention <= clock
          BY <3>2, Spans
        <5> QED
          BY <3>2, <5>1, FloorMonotone DEF Cutoff
      <4>6. Floor(clock, "day") <= Floor(clock, res)
        BY <3>2, DayBeforeHour
      <4>7. Cutoff(RawRetention) \in Int /\ Floor(clock, "day") \in Int /\ Floor(clock, res) \in Int
        BY <3>2, FloorBounds DEF Cutoff
      <4>8. t.at < Floor(clock, res)
        BY <4>1, <4>3, <4>4, <4>5, <4>6, <4>7
      <4> QED
        BY <1>1, <1>11, <4>8, NoBacklog
    <3> QED
      BY <3>3, <3>4
  <2> QED
    BY <2>1, <2>2
<1>14. PrunedInv'
  <2> SUFFICES ASSUME NEW x \in rollups', x.res = "day", x.pruned, NEW t \in Known, NEW res \in Resolution
               PROVE  Compacted(t, res)'
                      \/ x.start + DayLength <= Floor(t.at + MaxDelay - DayRetention, "day")
    BY <1>1 DEF PrunedInv, Known
  <2>1. PICK r \in rollups : x = R(r)
    BY <1>3
  <2>2. /\ r.res = "day" /\ r.start = x.start /\ r.start \in Nat
        /\ r.pruned \/ r.start + DayLength <= Cutoff(DayRetention)
    BY <1>2, <2>1, RollupTypes
  <2>3. CASE r.pruned
    BY <1>11, <2>2, <2>3 DEF CounterIInv, PrunedInv
  <2>4. CASE r.start + DayLength <= Cutoff(DayRetention)
    <3>1. t.at \in Nat /\ clock \in Nat /\ MaxDelay \in Nat /\ DayRetention \in Nat /\ DayLength \in Nat
      BY HistoryTypes, Spans
    <3> DEFINE u == t.at + MaxDelay - DayRetention
    <3>2. u \in Int /\ clock - DayRetention \in Int
      BY <3>1
    <3>3. Floor(u, "day") \in Int /\ Cutoff(DayRetention) \in Int
      BY <3>2, FloorBounds DEF Cutoff
    <3>4. CASE Cutoff(DayRetention) <= u
      <4>1. PICK k \in Int : Cutoff(DayRetention) = k * Width("day")
        BY <3>2, FloorIsMultiple DEF Cutoff
      <4>2. Cutoff(DayRetention) <= Floor(u, "day")
        BY <3>2, <3>4, <4>1, FloorIsGreatest
      <4> QED
        BY <2>2, <2>4, <3>1, <3>3, <4>2
    <3>5. CASE ~(Cutoff(DayRetention) <= u)
      <4>1. t \in history
        <5>1. ASSUME t \in inflight PROVE FALSE
          <6>1. clock <= t.at + MaxDelay
            BY <5>1 DEF CounterIInv, SamplesInv
          <6>2. Cutoff(DayRetention) <= clock - DayRetention
            BY <3>2, FloorBounds DEF Cutoff
          <6> QED
            BY <3>1, <3>2, <3>3, <3>5, <6>1, <6>2
        <5> QED
          BY <5>1 DEF Known
      <4>2. t.at < Floor(clock, res)
        <5>1. Floor(clock, "day") <= Floor(clock, res)
              /\ Floor(clock, "day") \in Int /\ Floor(clock, res) \in Int
          BY <3>1, DayBeforeHour, FloorBounds
        <5>2. Cutoff(DayRetention) = Floor(clock, "day") - DayRetention
          BY <3>1, FloorShift DEF Cutoff
        <5> QED
          BY <3>1, <3>5, <5>1, <5>2
      <4> QED
        BY <1>1, <1>11, <4>1, <4>2, NoBacklog
    <3> QED
      BY <3>4, <3>5
  <2> QED
    BY <2>2, <2>3, <2>4
<1> QED
  BY <1>1, <1>6, <1>7, <1>8, <1>10, <1>13, <1>14 DEF CounterIInv

-----------------------------------------------------------------------------
(* Theorems *)

LEMMA NextIInv == CounterIInv /\ [CounterNext]_counterVars => CounterIInv'
<1> SUFFICES ASSUME CounterIInv, [CounterNext]_counterVars PROVE CounterIInv'
  OBVIOUS
<1>1. CASE ClockTick
  BY <1>1, TickKeepsIInv
<1>2. CASE \E boot \in 1..MaxBoot, value \in Reading, readable \in BOOLEAN :
             Observe(boot, value, readable)
  BY <1>2, ObserveKeepsIInv
<1>3. CASE Commit
  BY <1>3, CommitKeepsIInv
<1>4. CASE \E res \in Resolution : Compact(res)
  BY <1>4, CompactKeepsIInv
<1>5. CASE EnforceRetention
  BY <1>5, RetentionKeepsIInv
<1>6. CASE UNCHANGED counterVars
  BY <1>6, StutterKeepsIInv
<1> QED
  BY <1>1, <1>2, <1>3, <1>4, <1>5, <1>6 DEF CounterNext

\* Samples, rollups and what retention has left of them agree.
THEOREM CounterInvariant == CounterSpec => []CounterIInv
BY InitIInv, NextIInv, PTL DEF CounterSpec

\* Every variable keeps its type.
THEOREM CounterTypes == CounterSpec => []CounterTypeOK
<1>1. CounterIInv => CounterTypeOK
  BY DEF CounterIInv
<1> QED
  BY <1>1, CounterInvariant, PTL

\* A rollup counts exactly what happened up to each of its samples.
THEOREM CountersAreExact == CounterSpec => []RollupsExact
<1>1. CounterIInv => RollupsExact
  BY DEF CounterIInv, RollupInv, Exact, Accounts, RollupsExact
<1> QED
  BY <1>1, CounterInvariant, PTL

=============================================================================
