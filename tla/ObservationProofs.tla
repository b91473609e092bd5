------------------------- MODULE ObservationProofs -------------------------
(***************************************************************************)
(* Proofs about Observation for any hosts, runs, deletions, number of      *)
(* permits and restarts, and any faults.                                   *)
(***************************************************************************)
EXTENDS Observation, SequenceTheorems, FiniteSetTheorems, TLAPS

-----------------------------------------------------------------------------
(* Queues *)

\* Leaving a queue from any position keeps it a queue of the same waiters.
LEMMA RemoveAtType ==
  ASSUME NEW S, NEW q \in Seq(S), NEW i \in 1..Len(q)
  PROVE  RemoveAt(q, i) \in Seq(S)
<1>1. SubSeq(q, 1, i - 1) \in Seq(S)
  BY SubSeqProperties
<1>2. SubSeq(q, i + 1, Len(q)) \in Seq(S)
  BY SubSeqProperties
<1> QED
  BY <1>1, <1>2, ConcatProperties DEF RemoveAt

\* Leaving a queue behind its head leaves the head where it is.
LEMMA RemoveAtHead ==
  ASSUME NEW S, NEW q \in Seq(S), NEW i \in 1..Len(q), i # 1
  PROVE  RemoveAt(q, i) # <<>> /\ Head(RemoveAt(q, i)) = Head(q)
<1> DEFINE front == SubSeq(q, 1, i - 1)
           back  == SubSeq(q, i + 1, Len(q))
<1>1. front \in Seq(S) /\ Len(front) = i - 1 /\ front[1] = q[1]
  BY SubSeqProperties
<1>2. back \in Seq(S) /\ Len(back) \in Nat
  BY SubSeqProperties
<1>3. RemoveAt(q, i) = front \o back
  BY DEF RemoveAt
<1> HIDE DEF front, back
<1>4. /\ front \o back \in Seq(S)
      /\ Len(front \o back) = Len(front) + Len(back)
      /\ \A k \in 1..Len(front) + Len(back) :
           (front \o back)[k] = IF k <= Len(front) THEN front[k] ELSE back[k - Len(front)]
  BY <1>1, <1>2, ConcatProperties
<1>5. (front \o back)[1] = q[1] /\ Len(front \o back) >= 1
  BY <1>1, <1>2, <1>4
<1>6. front \o back # <<>>
  BY <1>4, <1>5
<1> QED
  BY <1>3, <1>4, <1>5, <1>6

-----------------------------------------------------------------------------
(* Counting permits *)

\* The tasks that own a permit can be counted.
LEMMA HoldersFinite == IsFiniteSet(Holders)
<1>1. IsFiniteSet(WorkerHolders)
  BY RunAssumption, FS_Subset DEF WorkerHolders
<1>2. Scheduler \notin WorkerHolders => IsFiniteSet(WorkerHolders \cup {Scheduler})
  BY <1>1, FS_AddElement
<1> QED
  BY <1>1, <1>2, SchedulerAssumption DEF Holders, WorkerHolders

\* Who owns a permit keeps every deletion from owning all of them, and the
\* number available short of the maximum.
LEMMA HolderBound ==
  ASSUME TypeOK, PermitsConserved, NEW x \in Holders
  PROVE  Barriers = {} /\ permits < MaxConcurrency
<1>1. Cardinality(Holders) \in Nat /\ Cardinality(Holders) # 0
  BY HoldersFinite, FS_CardinalityType, FS_EmptySet
<1> QED
  BY <1>1, PermitAssumption DEF TypeOK, PermitsConserved

\* All permits are available only when nobody owns one.
LEMMA AllPermitsMeansNone ==
  ASSUME TypeOK, PermitsConserved, AllPermits
  PROVE  Barriers = {} /\ Holders = {}
<1>1. Cardinality(Holders) \in Nat
  BY HoldersFinite, FS_CardinalityType
<1> QED
  BY <1>1, HoldersFinite, FS_EmptySet, PermitAssumption DEF TypeOK, PermitsConserved, AllPermits

\* A permit is acquired.
LEMMA PermitTaken ==
  ASSUME TypeOK, PermitsConserved, permits > 0, permits' = permits - 1,
         Barriers' = Barriers, NEW x, x \notin Holders, Holders' = Holders \cup {x}
  PROVE  PermitsConserved'
<1>1. Barriers = {}
  BY DEF PermitsConserved, TypeOK
<1>2. Cardinality(Holders') = Cardinality(Holders) + 1
  BY HoldersFinite, FS_AddElement
<1>3. Cardinality(Holders) \in Nat
  BY HoldersFinite, FS_CardinalityType
<1> QED
  BY <1>1, <1>2, <1>3, PermitAssumption DEF PermitsConserved, TypeOK

\* A permit is given back.
LEMMA PermitReturned ==
  ASSUME TypeOK, PermitsConserved, permits' = permits + 1,
         Barriers' = Barriers, NEW x \in Holders, Holders' = Holders \ {x}
  PROVE  PermitsConserved'
<1>1. Barriers = {}
  BY HolderBound
<1>2. Cardinality(Holders') = Cardinality(Holders) - 1
  BY HoldersFinite, FS_RemoveElement
<1>3. Cardinality(Holders) \in Nat
  BY HoldersFinite, FS_CardinalityType
<1> QED
  BY <1>1, <1>2, <1>3, PermitAssumption DEF PermitsConserved, TypeOK

\* A permit changes hands.
LEMMA PermitMoved ==
  ASSUME TypeOK, PermitsConserved, permits' = permits, Barriers' = Barriers,
         NEW x \in Holders, NEW y, y \notin Holders, Holders' = (Holders \ {x}) \cup {y}
  PROVE  PermitsConserved'
<1>1. Barriers = {}
  BY HolderBound
<1>2. /\ IsFiniteSet(Holders \ {x})
      /\ Cardinality(Holders \ {x}) = Cardinality(Holders) - 1
  BY HoldersFinite, FS_RemoveElement
<1>3. Cardinality(Holders') = Cardinality(Holders \ {x}) + 1
  BY <1>2, FS_AddElement
<1>4. Cardinality(Holders) \in Nat
  BY HoldersFinite, FS_CardinalityType
<1> QED
  BY <1>1, <1>2, <1>3, <1>4, PermitAssumption DEF PermitsConserved, TypeOK

\* Nobody owns a permit and all are available.
LEMMA PermitsReset ==
  ASSUME permits' = MaxConcurrency, Barriers' = {}, Holders' = {}
  PROVE  PermitsConserved'
BY FS_EmptySet, PermitAssumption DEF PermitsConserved

-----------------------------------------------------------------------------
(* The inductive invariant, one conjunct at a time *)

\* TypeOK.  That a permit given back stays within the maximum needs
\* PermitsConserved, that a deletion leaves a queue needs FenceHeld.
LEMMA TypeStep == TypeOK /\ PermitsConserved /\ FenceHeld /\ [Next]_vars => TypeOK'
<1> SUFFICES ASSUME TypeOK, PermitsConserved, FenceHeld, [Next]_vars PROVE TypeOK'
  OBVIOUS
<1>a. \A x \in Holders : permits < MaxConcurrency
  BY HolderBound
<1>b. \A r \in Run : task[r] \in PermitHolding => r \in Holders
  BY DEF Holders, WorkerHolders
<1>c. sched = "permit" => Scheduler \in Holders
  BY DEF Holders
<1> USE RunAssumption, DeleterAssumption, PermitAssumption DEF TypeOK, durable, locks, process
<1>1. CASE UNCHANGED vars
  BY <1>1 DEF vars
<1>2. ASSUME NEW r \in Run, Request(r) \/ HandlerStep(r) \/ DropHandler(r)
      PROVE  TypeOK'
  BY <1>2 DEF Request, HandlerStep, Admit, Insert, Refuse, Spawn, DropHandler,
              Goto, Record, RowState, TaskState, Active
<1>3. ASSUME NEW r \in Run, WorkerStep(r)
      PROVE  TypeOK'
  <2> USE DEF Goto, Record, RowState, TaskState, Active, Terminal
  <2>1. CASE Enqueue(r)
    BY <2>1, AppendProperties DEF Enqueue
  <2>2. CASE Proceed(r)
    BY <2>2, HeadTailProperties DEF Proceed
  <2>3. CASE Yield(r)
    BY <2>3, HeadTailProperties DEF Yield
  <2>4. CASE Interrupt(r) \/ InterruptError(r)
    BY <2>4 DEF Interrupt, InterruptError
  <2>5. CASE MarkRunning(r) \/ NotStarted(r)
    BY <2>5 DEF MarkRunning, NotStarted
  <2>6. CASE Resolve(r) \/ ResolveFails(r) \/ ResolveError(r) \/ SessionEnds(r)
    BY <2>6 DEF Resolve, ResolveFails, ResolveError, SessionEnds
  <2>7. CASE Persist(r) \/ PersistError(r)
    BY <2>7 DEF Persist, PersistError
  <2>8. CASE Close(r)
    BY <2>8, <1>a, <1>b DEF Close, PermitHolding
  <2> QED
    BY <1>3, <2>1, <2>2, <2>3, <2>4, <2>5, <2>6, <2>7, <2>8 DEF WorkerStep
<1>4. ASSUME SchedulerStep
      PROVE  TypeOK'
  <2> USE DEF SchedState
  <2>1. CASE TickBegin
    BY <2>1 DEF TickBegin
  <2>2. CASE TryPermit
    BY <2>2 DEF TryPermit
  <2>3. ASSUME NEW r \in ScheduledRun, ClaimQueued(r)
        PROVE  TypeOK'
    BY <2>3 DEF ClaimQueued, Goto, Record, RowState, TaskState, Active, Run, MonitorRun
  <2>4. ASSUME NEW r \in ScheduledRun, ClaimSkipped(r)
        PROVE  TypeOK'
    BY <2>4, <1>a, <1>c DEF ClaimSkipped, Rescan, Record, RowState, Terminal, Run, MonitorRun
  <2>5. CASE ClaimNone
    BY <2>5, <1>a, <1>c DEF ClaimNone, Rescan
  <2>6. CASE TickEnd
    BY <2>6 DEF TickEnd
  <2>7. CASE TickAbort
    BY <2>7, <1>a, <1>c DEF TickAbort
  <2>8. CASE Stop
    BY <2>8, AppendProperties DEF Stop
  <2>9. CASE Drained
    BY <2>9, HeadTailProperties DEF Drained
  <2> QED
    BY <1>4, <2>1, <2>2, <2>3, <2>4, <2>5, <2>6, <2>7, <2>8, <2>9 DEF SchedulerStep, Claim
<1>5. ASSUME NEW d \in Deleter, RequestDelete(d) \/ DeleteStep(d)
      PROVE  TypeOK'
  <2> USE DEF DelState
  <2>1. CASE RequestDelete(d)
    BY <2>1, AppendProperties DEF RequestDelete
  <2>2. CASE FenceGranted(d)
    BY <2>2, AppendProperties DEF FenceGranted
  <2>3. CASE BarrierGranted(d)
    BY <2>3, HeadTailProperties DEF BarrierGranted
  <2>4. CASE Backup(d)
    BY <2>4 DEF Backup
  <2>5. CASE Cascade(d)
    <3>1. fence # <<>>
      BY <2>5 DEF Cascade, FenceHeld
    <3>2. Tail(fence) \in Seq(Deleter)
      BY <3>1, HeadTailProperties
    <3> QED
      BY <2>5, <3>2 DEF Cascade, NoRows, RowState
  <2>6. CASE Abandon(d)
    BY <2>6, RemoveAtType DEF Abandon, NoRows, RowState
  <2> QED
    BY <1>5, <2>1, <2>2, <2>3, <2>4, <2>5, <2>6 DEF DeleteStep
<1>6. ASSUME ProcessStep
      PROVE  TypeOK'
  <2>1. CASE Shutdown
    BY <2>1 DEF Shutdown
  <2>2. CASE Exit \/ Crash
    <3>1. Die
      BY <2>2 DEF Exit, Crash
    <3>2. <<>> \in Seq(Deleter) /\ <<>> \in Seq(Run \cup Deleter \cup {Scheduler})
      BY EmptySeq
    <3>3. task' \in [Run -> TaskState] /\ del' \in [Deleter -> DelState]
      BY <3>1 DEF Die, TaskState, DelState
    <3>4. backup' \in [Deleter -> [Run -> RowState]]
      BY <3>1 DEF Die, NoRows, RowState
    <3>5. gate' \in Seq(Run \cup Deleter \cup {Scheduler}) /\ fence' \in Seq(Deleter)
      BY <3>1, <3>2 DEF Die
    <3>6. permits' \in 0..MaxConcurrency /\ sched' \in SchedState /\ due' \subseteq Host
      BY <3>1 DEF Die, SchedState
    <3> QED
      BY <3>1, <3>3, <3>4, <3>5, <3>6 DEF Die
  <2>3. CASE RecoverDiscoveries
    BY <2>3 DEF RecoverDiscoveries, RowState, Terminal
  <2>4. CASE RecoverMonitors
    BY <2>4 DEF RecoverMonitors, RowState, Terminal, SchedState
  <2> QED
    BY <1>6, <2>1, <2>2, <2>3, <2>4 DEF ProcessStep
<1> QED
  BY <1>1, <1>2, <1>3, <1>4, <1>5, <1>6 DEF Next

\* Every step that moves a permit does so with its count.
LEMMA PermitStep ==
  TypeOK /\ PermitsConserved /\ NothingRuns /\ RowsFollowTasks /\ [Next]_vars
    => PermitsConserved'
<1> SUFFICES ASSUME TypeOK, PermitsConserved, NothingRuns, RowsFollowTasks, [Next]_vars
             PROVE  PermitsConserved'
  OBVIOUS
<1> USE DEF durable, locks, process
<1>a. permits' = permits /\ Barriers' = Barriers /\ Holders' = Holders => PermitsConserved'
  BY DEF PermitsConserved
<1>b. \A r \in Run : Scheduler # r
  BY SchedulerAssumption
<1>1. CASE UNCHANGED vars
  BY <1>1, <1>a DEF vars, Barriers, Holders, WorkerHolders
<1>2. ASSUME NEW r \in Run, Request(r) \/ HandlerStep(r) \/ DropHandler(r)
      PROVE  PermitsConserved'
  <2>1. WorkerHolders' = WorkerHolders
    BY <1>2 DEF WorkerHolders, PermitHolding, TypeOK, Goto,
                Request, HandlerStep, Admit, Insert, Refuse, Spawn, DropHandler
  <2>2. UNCHANGED <<permits, sched, del>>
    BY <1>2 DEF Request, HandlerStep, Admit, Insert, Refuse, Spawn, DropHandler
  <2> QED
    BY <2>1, <2>2, <1>a DEF Holders, Barriers
<1>3. ASSUME NEW r \in Run, WorkerStep(r)
      PROVE  PermitsConserved'
  <2>1. CASE Proceed(r)
    <3>1. r \notin Holders /\ Holders' = Holders \cup {r}
      BY <2>1, <1>b DEF Proceed, Goto, Holders, WorkerHolders, PermitHolding, TypeOK
    <3> QED
      BY <2>1, <3>1, PermitTaken DEF Proceed, Barriers
  <2>2. CASE Close(r)
    <3>1. r \in Holders /\ Holders' = Holders \ {r}
      BY <2>2, <1>b DEF Close, Goto, Holders, WorkerHolders, PermitHolding, TypeOK
    <3> QED
      BY <2>2, <3>1, PermitReturned DEF Close, Barriers
  <2>3. CASE Enqueue(r) \/ Yield(r) \/ Interrupt(r) \/ InterruptError(r)
    <3>1. WorkerHolders' = WorkerHolders /\ UNCHANGED <<permits, sched, del>>
      BY <2>3 DEF Enqueue, Yield, Interrupt, InterruptError, Goto,
                  WorkerHolders, PermitHolding, TypeOK
    <3> QED
      BY <3>1, <1>a DEF Holders, Barriers
  <2>4. CASE \/ MarkRunning(r) \/ NotStarted(r) \/ Resolve(r) \/ ResolveFails(r)
             \/ ResolveError(r) \/ SessionEnds(r) \/ Persist(r) \/ PersistError(r)
    <3>1. WorkerHolders' = WorkerHolders /\ UNCHANGED <<permits, sched, del>>
      BY <2>4 DEF MarkRunning, NotStarted, Resolve, ResolveFails, ResolveError, SessionEnds,
                  Persist, PersistError, Goto, WorkerHolders, PermitHolding, TypeOK
    <3> QED
      BY <3>1, <1>a DEF Holders, Barriers
  <2> QED
    BY <1>3, <2>1, <2>2, <2>3, <2>4 DEF WorkerStep
<1>4. ASSUME SchedulerStep
      PROVE  PermitsConserved'
  <2>1. CASE TickBegin \/ TickEnd \/ Stop \/ Drained
    <3>1. Holders' = Holders /\ UNCHANGED <<permits, del>>
      BY <2>1 DEF TickBegin, TickEnd, Stop, Drained, Holders, WorkerHolders
    <3> QED
      BY <3>1, <1>a DEF Barriers
  <2>2. CASE TryPermit
    <3>1. CASE permits > 0 /\ gate = <<>>
      <4>1. Scheduler \notin Holders /\ Holders' = Holders \cup {Scheduler}
        BY <2>2, <3>1, <1>b DEF TryPermit, Holders, WorkerHolders
      <4> QED
        BY <2>2, <3>1, <4>1, PermitTaken DEF TryPermit, Barriers
    <3>2. CASE ~(permits > 0 /\ gate = <<>>)
      <4>1. Holders' = Holders /\ UNCHANGED <<permits, del>>
        BY <2>2, <3>2 DEF TryPermit, Holders, WorkerHolders
      <4> QED
        BY <4>1, <1>a DEF Barriers
    <3> QED
      BY <3>1, <3>2
  <2>3. ASSUME NEW r \in ScheduledRun, ClaimQueued(r)
        PROVE  PermitsConserved'
    <3>0. r \in Run
      BY DEF Run, MonitorRun
    <3>1. r \notin WorkerHolders /\ WorkerHolders' = WorkerHolders \cup {r}
      BY <2>3, <3>0 DEF ClaimQueued, Goto, WorkerHolders, PermitHolding, TypeOK, RowsFollowTasks
    <3>2. /\ Scheduler \in Holders /\ r \notin Holders
          /\ Holders' = (Holders \ {Scheduler}) \cup {r}
      BY <2>3, <3>0, <3>1, <1>b DEF ClaimQueued, Holders, WorkerHolders
    <3> QED
      BY <2>3, <3>2, PermitMoved DEF ClaimQueued, Barriers
  <2>4. CASE ClaimNone \/ TickAbort \/ \E r \in ScheduledRun : ClaimSkipped(r)
    <3>1. CASE sched = "permit"
      <4>1. Scheduler \in Holders /\ Holders' = Holders \ {Scheduler}
        BY <2>4, <3>1, <1>b DEF ClaimNone, TickAbort, ClaimSkipped, Rescan, Holders, WorkerHolders
      <4>2. permits' = permits + 1 /\ Barriers' = Barriers
        BY <2>4, <3>1 DEF ClaimNone, TickAbort, ClaimSkipped, Rescan, Barriers
      <4> QED
        BY <4>1, <4>2, PermitReturned
    <3>2. CASE sched # "permit"
      <4>1. Holders' = Holders /\ UNCHANGED <<permits, del>>
        BY <2>4, <3>2 DEF ClaimNone, TickAbort, ClaimSkipped, Rescan, Holders, WorkerHolders
      <4> QED
        BY <4>1, <1>a DEF Barriers
    <3> QED
      BY <3>1, <3>2
  <2> QED
    BY <1>4, <2>1, <2>2, <2>3, <2>4 DEF SchedulerStep, Claim
<1>5. ASSUME NEW d \in Deleter, RequestDelete(d) \/ DeleteStep(d)
      PROVE  PermitsConserved'
  <2>0. Holders' = Holders
    BY <1>5 DEF RequestDelete, DeleteStep, FenceGranted, BarrierGranted, Backup, Cascade,
                Abandon, Holders, WorkerHolders
  <2>1. CASE BarrierGranted(d)
    <3>1. Barriers = {} /\ Holders = {}
      BY <2>1, AllPermitsMeansNone DEF BarrierGranted
    <3>2. Barriers' = {d}
      BY <2>1, <3>1 DEF BarrierGranted, Barriers, TypeOK
    <3> QED
      BY <2>0, <2>1, <3>1, <3>2 DEF BarrierGranted, PermitsConserved
  <2>2. CASE d \in Barriers /\ (Cascade(d) \/ Abandon(d))
    <3>1. Barriers = {d} /\ Holders = {}
      BY <2>2 DEF PermitsConserved
    <3>2. Barriers' = {} /\ permits' = MaxConcurrency
      BY <2>2, <3>1 DEF Cascade, Abandon, Barriers, TypeOK
    <3> QED
      BY <2>0, <3>1, <3>2, PermitsReset
  <2>3. CASE Backup(d)
    <3>1. Barriers' = Barriers /\ permits' = permits
      BY <2>3 DEF Backup, Barriers, TypeOK
    <3> QED
      BY <2>0, <3>1, <1>a
  <2>4. CASE RequestDelete(d) \/ FenceGranted(d) \/ (d \notin Barriers /\ Abandon(d))
    <3>1. Barriers' = Barriers /\ permits' = permits
      BY <2>4 DEF RequestDelete, FenceGranted, Abandon, Barriers, TypeOK
    <3> QED
      BY <2>0, <3>1, <1>a
  <2>5. Cascade(d) => d \in Barriers
    BY DEF Cascade, Barriers
  <2> QED
    BY <1>5, <2>1, <2>2, <2>3, <2>4, <2>5 DEF DeleteStep
<1>6. ASSUME ProcessStep
      PROVE  PermitsConserved'
  <2>1. CASE Shutdown \/ RecoverDiscoveries \/ RecoverMonitors
    <3>1. CASE Shutdown \/ RecoverDiscoveries
      BY <3>1, <1>a DEF Shutdown, RecoverDiscoveries, Holders, WorkerHolders, Barriers
    <3>2. CASE RecoverMonitors
      BY <3>2, <1>a DEF RecoverMonitors, NothingRuns, Holders, WorkerHolders, Barriers
    <3> QED
      BY <2>1, <3>1, <3>2
  <2>2. CASE Exit \/ Crash
    <3>1. Die
      BY <2>2 DEF Exit, Crash
    <3>2. Holders' = {} /\ Barriers' = {}
      BY <3>1 DEF Die, Holders, WorkerHolders, PermitHolding, Barriers
    <3> QED
      BY <3>1, <3>2, PermitsReset DEF Die
  <2> QED
    BY <1>6, <2>1, <2>2 DEF ProcessStep
<1> QED
  BY <1>1, <1>2, <1>3, <1>4, <1>5, <1>6 DEF Next

\* The fence is fair: while a deletion has it, readers only leave.
LEMMA FenceStep == TypeOK /\ FenceHeld /\ [Next]_vars => FenceHeld'
<1> SUFFICES ASSUME TypeOK, FenceHeld, [Next]_vars,
                    NEW e \in Deleter, del'[e] \in {"barrier", "fenced", "backedUp"}
             PROVE  /\ fence' # <<>> /\ Head(fence') = e
                    /\ Readers' = {} /\ ~Ticking'
  BY DEF FenceHeld
<1> USE DEF durable, locks, process, Readers, Ticking
<1>1. CASE UNCHANGED vars
  BY <1>1 DEF vars, FenceHeld
<1>2. ASSUME NEW r \in Run, Request(r) \/ HandlerStep(r) \/ DropHandler(r)
      PROVE  fence' # <<>> /\ Head(fence') = e /\ Readers' = {} /\ ~Ticking'
  BY <1>2 DEF Request, HandlerStep, Admit, Insert, Refuse, Spawn, DropHandler,
              Goto, FenceOpen, FenceHeld, TypeOK
<1>3. ASSUME NEW r \in Run, WorkerStep(r)
      PROVE  fence' # <<>> /\ Head(fence') = e /\ Readers' = {} /\ ~Ticking'
  <2>1. UNCHANGED <<fence, del, sched>>
    BY <1>3 DEF WorkerStep, Enqueue, Proceed, Yield, Interrupt, InterruptError, MarkRunning,
                NotStarted, Resolve, ResolveFails, ResolveError, SessionEnds, Persist,
                PersistError, Close
  <2>2. Readers' \subseteq Readers
    BY <1>3 DEF WorkerStep, Enqueue, Proceed, Yield, Interrupt, InterruptError, MarkRunning,
                NotStarted, Resolve, ResolveFails, ResolveError, SessionEnds, Persist,
                PersistError, Close, Goto, TypeOK
  <2> QED
    BY <2>1, <2>2 DEF FenceHeld
<1>4. ASSUME SchedulerStep
      PROVE  fence' # <<>> /\ Head(fence') = e /\ Readers' = {} /\ ~Ticking'
  BY <1>4 DEF SchedulerStep, TickBegin, TryPermit, Claim, ClaimQueued, ClaimSkipped, ClaimNone,
              Rescan, TickEnd, TickAbort, Stop, Drained, Goto, FenceOpen, FenceHeld, TypeOK
<1>5. ASSUME NEW d \in Deleter, RequestDelete(d) \/ DeleteStep(d)
      PROVE  fence' # <<>> /\ Head(fence') = e /\ Readers' = {} /\ ~Ticking'
  <2>0. UNCHANGED <<task, sched>>
    BY <1>5 DEF RequestDelete, DeleteStep, FenceGranted, BarrierGranted, Backup, Cascade, Abandon
  <2>1. CASE RequestDelete(d)
    <3>1. fence # <<>> /\ Head(fence) = e /\ Readers = {} /\ ~Ticking
      BY <2>1 DEF RequestDelete, FenceHeld, TypeOK
    <3>2. fence' # <<>> /\ Head(fence') = Head(fence)
      BY <2>1, <3>1, AppendProperties DEF RequestDelete, TypeOK
    <3> QED
      BY <2>0, <3>1, <3>2
  <2>2. CASE FenceGranted(d)
    BY <2>0, <2>2 DEF FenceGranted, FenceHeld, TypeOK
  <2>3. CASE BarrierGranted(d) \/ Backup(d)
    BY <2>0, <2>3 DEF BarrierGranted, Backup, FenceHeld, TypeOK
  <2>4. CASE Cascade(d)
    BY <2>0, <2>4 DEF Cascade, FenceHeld, TypeOK
  <2>5. CASE Abandon(d)
    <3>1. /\ e # d
          /\ fence # <<>> /\ Head(fence) = e /\ Readers = {} /\ ~Ticking
      BY <2>5 DEF Abandon, FenceHeld, TypeOK
    <3>2. PICK i \in 1..Len(fence) : fence[i] = d /\ fence' = RemoveAt(fence, i)
      BY <2>5 DEF Abandon
    <3>3. i # 1
      BY <3>1, <3>2 DEF TypeOK
    <3> QED
      BY <2>0, <3>1, <3>2, <3>3, RemoveAtHead DEF TypeOK
  <2> QED
    BY <1>5, <2>1, <2>2, <2>3, <2>4, <2>5 DEF DeleteStep
<1>6. ASSUME ProcessStep
      PROVE  fence' # <<>> /\ Head(fence') = e /\ Readers' = {} /\ ~Ticking'
  BY <1>6 DEF ProcessStep, Shutdown, Exit, Crash, Die, RecoverDiscoveries, RecoverMonitors,
              FenceHeld, TypeOK
<1> QED
  BY <1>1, <1>2, <1>3, <1>4, <1>5, <1>6 DEF Next

\* A dead or recovering process runs nothing, and the scheduler only drains
\* once a shutdown has been requested.
LEMMA ProcessStateStep ==
  TypeOK /\ NothingRuns /\ DrainFollowsShutdown /\ [Next]_vars
    => NothingRuns' /\ DrainFollowsShutdown'
<1> SUFFICES ASSUME TypeOK, NothingRuns, DrainFollowsShutdown, [Next]_vars
             PROVE  NothingRuns' /\ DrainFollowsShutdown'
  OBVIOUS
<1> USE DEF durable, locks, process, NothingRuns, DrainFollowsShutdown, TypeOK
<1>1. CASE UNCHANGED vars
  BY <1>1 DEF vars
<1>2. ASSUME NEW r \in Run, Request(r) \/ HandlerStep(r) \/ DropHandler(r)
      PROVE  NothingRuns' /\ DrainFollowsShutdown'
  BY <1>2 DEF Request, HandlerStep, Admit, Insert, Refuse, Spawn, DropHandler, Goto, Up
<1>3. ASSUME NEW r \in Run, WorkerStep(r)
      PROVE  NothingRuns' /\ DrainFollowsShutdown'
  BY <1>3 DEF WorkerStep, Enqueue, Proceed, Yield, Interrupt, InterruptError, MarkRunning,
              NotStarted, Resolve, ResolveFails, ResolveError, SessionEnds, Persist,
              PersistError, Close, Goto
<1>4. ASSUME SchedulerStep
      PROVE  NothingRuns' /\ DrainFollowsShutdown'
  BY <1>4 DEF SchedulerStep, TickBegin, TryPermit, Claim, ClaimQueued, ClaimSkipped, ClaimNone,
              Rescan, TickEnd, TickAbort, Stop, Drained, Ticking, Goto
<1>5. ASSUME NEW d \in Deleter, RequestDelete(d) \/ DeleteStep(d)
      PROVE  NothingRuns' /\ DrainFollowsShutdown'
  BY <1>5 DEF Up, RequestDelete, DeleteStep, FenceGranted, BarrierGranted, Backup, Cascade, Abandon
<1>6. ASSUME ProcessStep
      PROVE  NothingRuns' /\ DrainFollowsShutdown'
  BY <1>6 DEF ProcessStep, Shutdown, Exit, Crash, Die, RecoverDiscoveries, RecoverMonitors, Up
<1> QED
  BY <1>1, <1>2, <1>3, <1>4, <1>5, <1>6 DEF Next

\* Rows and workers agree: each state change of a row is made by the worker
\* that owns it, or when that worker is not between claim and receipt.
LEMMA RowStep ==
  /\ TypeOK /\ PermitsConserved /\ NothingRuns
  /\ RowsFollowTasks /\ WorkingRowsRun /\ OneActiveRun
  /\ [Next]_vars
  => RowsFollowTasks' /\ WorkingRowsRun' /\ OneActiveRun'
<1> SUFFICES ASSUME TypeOK, PermitsConserved, NothingRuns,
                    RowsFollowTasks, WorkingRowsRun, OneActiveRun, [Next]_vars
             PROVE  RowsFollowTasks' /\ WorkingRowsRun' /\ OneActiveRun'
  OBVIOUS
<1> USE RunAssumption DEF durable, locks, process, RowsFollowTasks, WorkingRowsRun, OneActiveRun,
        TypeOK, PermitHolding, Active
<1>1. CASE UNCHANGED vars
  BY <1>1 DEF vars
<1>2. ASSUME NEW r \in Run, Request(r) \/ HandlerStep(r) \/ DropHandler(r)
      PROVE  RowsFollowTasks' /\ WorkingRowsRun' /\ OneActiveRun'
  <2>1. CASE Insert(r)
    BY <2>1 DEF Insert, Goto, Record, Occupied
  <2>2. CASE Request(r) \/ Admit(r) \/ Refuse(r) \/ Spawn(r) \/ DropHandler(r)
    BY <2>2 DEF Request, Admit, Refuse, Spawn, DropHandler, Goto
  <2> QED
    BY <1>2, <2>1, <2>2 DEF HandlerStep
<1>3. ASSUME NEW r \in Run, WorkerStep(r)
      PROVE  RowsFollowTasks' /\ WorkingRowsRun' /\ OneActiveRun'
  <2>1. CASE Enqueue(r) \/ Proceed(r) \/ Yield(r)
    BY <2>1 DEF Enqueue, Proceed, Yield, Goto
  <2>2. CASE Interrupt(r)
    BY <2>2 DEF Interrupt, Goto, Record
  <2>3. CASE MarkRunning(r)
    BY <2>3 DEF MarkRunning, Goto, Record
  <2>4. CASE Persist(r)
    BY <2>4 DEF Persist, MayFinish, Goto, Record
  <2>5. CASE \/ InterruptError(r) \/ NotStarted(r) \/ Resolve(r) \/ ResolveFails(r)
             \/ ResolveError(r) \/ SessionEnds(r) \/ PersistError(r) \/ Close(r)
    BY <2>5 DEF InterruptError, NotStarted, Resolve, ResolveFails, ResolveError, SessionEnds,
                PersistError, Close, Goto
  <2> QED
    BY <1>3, <2>1, <2>2, <2>3, <2>4, <2>5 DEF WorkerStep
<1>4. ASSUME SchedulerStep
      PROVE  RowsFollowTasks' /\ WorkingRowsRun' /\ OneActiveRun'
  <2>1. ASSUME NEW r \in ScheduledRun, ClaimQueued(r)
        PROVE  RowsFollowTasks' /\ WorkingRowsRun' /\ OneActiveRun'
    BY <2>1 DEF ClaimQueued, Goto, Record, Occupied, Run, MonitorRun
  <2>2. ASSUME NEW r \in ScheduledRun, ClaimSkipped(r)
        PROVE  RowsFollowTasks' /\ WorkingRowsRun' /\ OneActiveRun'
    <3>1. r \in Run /\ r \notin RequestRun
      BY RunAssumption DEF Run, MonitorRun, RequestRun
    <3>2. row[r] = "absent" /\ row' = [row EXCEPT ![r] = "skipped"] /\ task' = task
      BY <2>2 DEF ClaimSkipped, Record
    <3>3. task[r] \notin {"checked", "admitted"}
      BY <3>1, <3>2
    <3> QED
      BY <3>1, <3>2, <3>3
  <2>3. CASE TickBegin \/ TryPermit \/ ClaimNone \/ TickEnd \/ TickAbort \/ Stop \/ Drained
    BY <2>3 DEF TickBegin, TryPermit, ClaimNone, TickEnd, TickAbort, Stop, Drained
  <2> QED
    BY <1>4, <2>1, <2>2, <2>3 DEF SchedulerStep, Claim
<1>5. ASSUME NEW d \in Deleter, RequestDelete(d) \/ DeleteStep(d)
      PROVE  RowsFollowTasks' /\ WorkingRowsRun' /\ OneActiveRun'
  <2>1. CASE Cascade(d)
    <3>1. \A r \in Run : task[r] \notin {"resolving", "session", "persisting"}
      BY <2>1 DEF Cascade, PermitsConserved, Barriers, Holders, WorkerHolders
    <3> QED
      BY <2>1, <3>1 DEF Cascade
  <2>2. CASE RequestDelete(d) \/ FenceGranted(d) \/ BarrierGranted(d) \/ Backup(d) \/ Abandon(d)
    BY <2>2 DEF RequestDelete, FenceGranted, BarrierGranted, Backup, Abandon
  <2> QED
    BY <1>5, <2>1, <2>2 DEF DeleteStep
<1>6. ASSUME ProcessStep
      PROVE  RowsFollowTasks' /\ WorkingRowsRun' /\ OneActiveRun'
  <2>1. CASE RecoverDiscoveries \/ RecoverMonitors
    <3>1. \A r \in Run : /\ task[r] \in {"idle", "gone"}
                         /\ \/ row'[r] = row[r]
                            \/ row[r] \in Active /\ row'[r] = "interrupted"
      BY <2>1 DEF RecoverDiscoveries, RecoverMonitors, NothingRuns
    <3>2. task' = task
      BY <2>1 DEF RecoverDiscoveries, RecoverMonitors
    <3> QED
      BY <3>1, <3>2
  <2>2. CASE Shutdown \/ Exit \/ Crash
    BY <2>2 DEF Shutdown, Exit, Crash, Die
  <2> QED
    BY <1>6, <2>1, <2>2 DEF ProcessStep
<1> QED
  BY <1>1, <1>2, <1>3, <1>4, <1>5, <1>6 DEF Next

\* The drain ends with no worker left, and none starts after it.
LEMMA DrainStep ==
  /\ TypeOK /\ PermitsConserved /\ DrainFollowsShutdown /\ DrainedWhenStopped
  /\ [Next]_vars
  => DrainedWhenStopped'
<1> SUFFICES ASSUME TypeOK, PermitsConserved, DrainFollowsShutdown, DrainedWhenStopped,
                    [Next]_vars, sched' = "stopped"
             PROVE  WorkerHolders' = {}
  BY DEF DrainedWhenStopped
<1> USE DEF durable, locks, process, WorkerHolders, PermitHolding, TypeOK
<1>1. CASE UNCHANGED vars
  BY <1>1 DEF vars, DrainedWhenStopped
<1>2. ASSUME NEW r \in Run, Request(r) \/ HandlerStep(r) \/ DropHandler(r)
      PROVE  WorkerHolders' = {}
  BY <1>2 DEF Request, HandlerStep, Admit, Insert, Refuse, Spawn, DropHandler, Goto,
              DrainedWhenStopped
<1>3. ASSUME NEW r \in Run, WorkerStep(r)
      PROVE  WorkerHolders' = {}
  <2>1. sched = "stopped" /\ shutdown /\ \A q \in Run : task[q] \notin PermitHolding
    BY <1>3 DEF WorkerStep, Enqueue, Proceed, Yield, Interrupt, InterruptError, MarkRunning,
                NotStarted, Resolve, ResolveFails, ResolveError, SessionEnds, Persist,
                PersistError, Close, DrainedWhenStopped, DrainFollowsShutdown
  <2> QED
    BY <1>3, <2>1 DEF WorkerStep, Enqueue, Proceed, Yield, Interrupt, InterruptError, MarkRunning,
                NotStarted, Resolve, ResolveFails, ResolveError, SessionEnds, Persist,
                PersistError, Close, Goto
<1>4. ASSUME SchedulerStep
      PROVE  WorkerHolders' = {}
  <2>1. CASE Drained
    BY <2>1, AllPermitsMeansNone DEF Drained, Holders
  <2> QED
    BY <1>4, <2>1 DEF SchedulerStep, TickBegin, TryPermit, Claim, ClaimQueued, ClaimSkipped,
                      ClaimNone, Rescan, TickEnd, TickAbort, Stop
<1>5. ASSUME NEW d \in Deleter, RequestDelete(d) \/ DeleteStep(d)
      PROVE  WorkerHolders' = {}
  BY <1>5 DEF RequestDelete, DeleteStep, FenceGranted, BarrierGranted, Backup, Cascade, Abandon,
              DrainedWhenStopped
<1>6. ASSUME ProcessStep
      PROVE  WorkerHolders' = {}
  BY <1>6 DEF ProcessStep, Shutdown, Exit, Crash, Die, RecoverDiscoveries, RecoverMonitors,
              DrainedWhenStopped
<1> QED
  BY <1>1, <1>2, <1>3, <1>4, <1>5, <1>6 DEF Next

\* While a backup waits for its cascade only interrupted queued rows change.
LEMMA SnapshotStep ==
  TypeOK /\ PermitsConserved /\ FenceHeld /\ NothingRuns /\ DrainFollowsShutdown
  /\ FrozenSnapshot /\ [Next]_vars
  => FrozenSnapshot'
<1> SUFFICES ASSUME TypeOK, PermitsConserved, FenceHeld, NothingRuns, DrainFollowsShutdown,
                    FrozenSnapshot, [Next]_vars,
                    NEW e \in Deleter, del'[e] = "backedUp", NEW q \in Run
             PROVE  \/ row'[q] = backup'[e][q]
                    \/ shutdown' /\ backup'[e][q] = "queued" /\ row'[q] = "interrupted"
  BY DEF FrozenSnapshot
<1> DEFINE Frozen == \/ row'[q] = backup'[e][q]
                     \/ shutdown' /\ backup'[e][q] = "queued" /\ row'[q] = "interrupted"
<1> USE DEF durable, locks, process, TypeOK
<1>a. UNCHANGED <<row, backup, shutdown, del>> => Frozen
  BY DEF FrozenSnapshot
<1>b. del[e] = "backedUp" =>
        /\ Readers = {} /\ ~Ticking
        /\ WorkerHolders = {} /\ Barriers = {e} /\ fence # <<>> /\ Head(fence) = e
  BY DEF FenceHeld, PermitsConserved, Barriers, Holders
<1> HIDE DEF Frozen
<1>1. ASSUME UNCHANGED vars PROVE Frozen
  BY <1>1, <1>a DEF vars
<1>2. ASSUME NEW r \in Run, Request(r) \/ HandlerStep(r) \/ DropHandler(r)
      PROVE  Frozen
  <2>1. CASE Insert(r)
    BY <2>1, <1>b DEF Insert, Readers
  <2>2. CASE Request(r) \/ Admit(r) \/ Refuse(r) \/ Spawn(r) \/ DropHandler(r)
    BY <2>2, <1>a DEF Request, Admit, Refuse, Spawn, DropHandler
  <2> QED
    BY <1>2, <2>1, <2>2 DEF HandlerStep
<1>3. ASSUME NEW r \in Run, WorkerStep(r)
      PROVE  Frozen
  <2>1. CASE Interrupt(r)
    <3>1. del[e] = "backedUp" /\ shutdown /\ UNCHANGED <<backup, shutdown>>
      BY <2>1 DEF Interrupt, DrainFollowsShutdown
    <3>2. CASE row[r] = "queued" /\ q = r
      BY <2>1, <3>1, <3>2 DEF Interrupt, Record, FrozenSnapshot, Frozen
    <3>3. CASE ~(row[r] = "queued" /\ q = r)
      <4>1. row'[q] = row[q]
        BY <2>1, <3>3 DEF Interrupt, Record
      <4> QED
        BY <3>1, <4>1 DEF FrozenSnapshot, Frozen
    <3> QED
      BY <3>2, <3>3
  <2>2. CASE MarkRunning(r) \/ Persist(r)
    BY <2>2, <1>b DEF MarkRunning, Persist, WorkerHolders, PermitHolding
  <2>3. CASE \/ Enqueue(r) \/ Proceed(r) \/ Yield(r) \/ InterruptError(r) \/ NotStarted(r)
             \/ Resolve(r) \/ ResolveFails(r) \/ ResolveError(r) \/ SessionEnds(r)
             \/ PersistError(r) \/ Close(r)
    BY <2>3, <1>a DEF Enqueue, Proceed, Yield, InterruptError, NotStarted, Resolve, ResolveFails,
                      ResolveError, SessionEnds, PersistError, Close
  <2> QED
    BY <1>3, <2>1, <2>2, <2>3 DEF WorkerStep
<1>4. ASSUME SchedulerStep
      PROVE  Frozen
  <2>1. CASE \E r \in ScheduledRun : ClaimQueued(r) \/ ClaimSkipped(r)
    BY <2>1, <1>b DEF ClaimQueued, ClaimSkipped, Ticking
  <2>2. CASE TickBegin \/ TryPermit \/ ClaimNone \/ TickEnd \/ TickAbort \/ Stop \/ Drained
    BY <2>2, <1>a DEF TickBegin, TryPermit, ClaimNone, TickEnd, TickAbort, Stop, Drained
  <2> QED
    BY <1>4, <2>1, <2>2 DEF SchedulerStep, Claim
<1>5. ASSUME NEW d \in Deleter, RequestDelete(d) \/ DeleteStep(d)
      PROVE  Frozen
  <2>1. CASE RequestDelete(d) \/ FenceGranted(d) \/ BarrierGranted(d)
    BY <2>1 DEF RequestDelete, FenceGranted, BarrierGranted, FrozenSnapshot, Frozen
  <2>2. CASE Backup(d)
    BY <2>2 DEF Backup, FrozenSnapshot, Frozen
  <2>3. CASE Cascade(d)
    BY <2>3, <1>b DEF Cascade, Barriers
  <2>4. CASE Abandon(d)
    BY <2>4 DEF Abandon, FrozenSnapshot, Frozen
  <2> QED
    BY <1>5, <2>1, <2>2, <2>3, <2>4 DEF DeleteStep
<1>6. ASSUME ProcessStep
      PROVE  Frozen
  <2>1. CASE Shutdown
    BY <2>1 DEF Shutdown, FrozenSnapshot, Frozen
  <2>2. CASE Exit \/ Crash
    BY <2>2 DEF Exit, Crash, Die
  <2>3. CASE RecoverDiscoveries \/ RecoverMonitors
    BY <2>3 DEF RecoverDiscoveries, RecoverMonitors, NothingRuns
  <2> QED
    BY <1>6, <2>1, <2>2, <2>3 DEF ProcessStep
<1> QED
  BY <1>1, <1>2, <1>3, <1>4, <1>5, <1>6 DEF Next, Frozen

-----------------------------------------------------------------------------
(* Who writes rows, who opens and closes sessions *)

\* The only steps that write a row.
LEMMA RowWriters ==
  ASSUME [Next]_vars
  PROVE  \/ UNCHANGED row
         \/ \E r \in Run : Insert(r) \/ Interrupt(r) \/ MarkRunning(r) \/ Persist(r)
         \/ \E r \in ScheduledRun : ClaimQueued(r) \/ ClaimSkipped(r)
         \/ \E d \in Deleter : Cascade(d)
         \/ RecoverDiscoveries \/ RecoverMonitors
<1> USE DEF durable
<1>1. UNCHANGED vars => UNCHANGED row
  BY DEF vars
<1>2. ASSUME NEW r \in Run, Request(r) \/ HandlerStep(r) \/ DropHandler(r)
      PROVE  UNCHANGED row \/ Insert(r)
  BY <1>2 DEF Request, HandlerStep, Admit, Refuse, Spawn, DropHandler
<1>3. ASSUME NEW r \in Run, WorkerStep(r)
      PROVE  UNCHANGED row \/ Interrupt(r) \/ MarkRunning(r) \/ Persist(r)
  BY <1>3 DEF WorkerStep, Enqueue, Proceed, Yield, InterruptError, NotStarted, Resolve,
              ResolveFails, ResolveError, SessionEnds, PersistError, Close
<1>4. ASSUME SchedulerStep
      PROVE  UNCHANGED row \/ \E r \in ScheduledRun : ClaimQueued(r) \/ ClaimSkipped(r)
  BY <1>4 DEF SchedulerStep, TickBegin, TryPermit, Claim, ClaimNone, TickEnd, TickAbort, Stop,
              Drained
<1>5. ASSUME NEW d \in Deleter, RequestDelete(d) \/ DeleteStep(d)
      PROVE  UNCHANGED row \/ Cascade(d)
  BY <1>5 DEF RequestDelete, DeleteStep, FenceGranted, BarrierGranted, Backup, Abandon
<1>6. ASSUME ProcessStep
      PROVE  UNCHANGED row \/ RecoverDiscoveries \/ RecoverMonitors
  BY <1>6 DEF ProcessStep, Shutdown, Exit, Crash, Die
<1> QED
  BY <1>1, <1>2, <1>3, <1>4, <1>5, <1>6 DEF Next

-----------------------------------------------------------------------------
(* The theorems *)

\* The process starts in a state of the invariant.
LEMMA InvInit == Init => IInv
<1> SUFFICES ASSUME Init PROVE IInv
  OBVIOUS
<1> USE DEF Init
<1>1. Holders = {} /\ Barriers = {}
  BY DEF Holders, WorkerHolders, PermitHolding, Barriers
<1>2. PermitsConserved
  BY <1>1, FS_EmptySet, PermitAssumption DEF PermitsConserved
<1>3. <<>> \in Seq(Deleter) /\ <<>> \in Seq(Run \cup Deleter \cup {Scheduler})
  BY EmptySeq
<1>4. TypeOK
  <2>1. row \in [Run -> RowState] /\ backup \in [Deleter -> [Run -> RowState]]
    BY DEF NoRows, RowState
  <2>2. task \in [Run -> TaskState] /\ del \in [Deleter -> DelState] /\ sched \in SchedState
    BY DEF TaskState, DelState, SchedState
  <2>3. fence \in Seq(Deleter) /\ gate \in Seq(Run \cup Deleter \cup {Scheduler})
    BY <1>3
  <2>4. permits \in 0..MaxConcurrency
    BY PermitAssumption
  <2> QED
    BY <2>1, <2>2, <2>3, <2>4 DEF TypeOK
<1>5. FenceHeld /\ NothingRuns /\ RowsFollowTasks /\ WorkingRowsRun /\ OneActiveRun
  BY DEF FenceHeld, NothingRuns, RowsFollowTasks, WorkingRowsRun, OneActiveRun, NoRows, Active,
         PermitHolding
<1>6. DrainFollowsShutdown /\ DrainedWhenStopped /\ FrozenSnapshot
  BY DEF DrainFollowsShutdown, DrainedWhenStopped, FrozenSnapshot
<1> QED
  BY <1>2, <1>4, <1>5, <1>6 DEF IInv

\* Every reachable state satisfies the invariant from which the other theorems
\* follow: handlers, workers, ticks, deletions, shutdown and recovery preserve it.
THEOREM InductiveInvariant == Spec => []IInv
<1>1. Init => IInv
  BY InvInit
<1>2. IInv /\ [Next]_vars => IInv'
  BY TypeStep, PermitStep, FenceStep, ProcessStateStep, RowStep, DrainStep, SnapshotStep DEF IInv
<1> QED
  BY <1>1, <1>2, PTL DEF Spec

\* Every variable keeps its type: in particular the permit counter never
\* leaves 0..MaxConcurrency and both queues hold waiters only.
THEOREM TypeCorrect == Spec => []TypeOK
<1>1. IInv => TypeOK
  BY DEF IInv
<1> QED
  BY <1>1, InductiveInvariant, PTL

\* The observation permits of api.rs are neither leaked nor returned twice.
THEOREM PermitConservation == Spec => []PermitsConserved
<1>1. IInv => PermitsConserved
  BY DEF IInv
<1> QED
  BY <1>1, InductiveInvariant, PTL

\* Manual, scheduled and discovery runs never observe one host together.
THEOREM SessionExclusion == Spec => []OneSessionPerHost
<1>1. IInv => OneSessionPerHost
  BY DEF IInv, WorkingRowsRun, OneActiveRun, OneSessionPerHost, Sessions, Active
<1> QED
  BY <1>1, InductiveInvariant, PTL

\* The barrier of delete_scope excludes every worker from claim to receipt.
THEOREM BarrierQuiescence == Spec => []QuiescentUnderBarrier
<1>1. IInv => QuiescentUnderBarrier
  BY DEF IInv, PermitsConserved, QuiescentUnderBarrier, Holders
<1> QED
  BY <1>1, InductiveInvariant, PTL

\* The rows of a verified backup stay as they are until the cascade, but for
\* queued runs that a shutdown interrupts.
THEOREM SnapshotFrozen == Spec => []FrozenSnapshot
<1>1. IInv => FrozenSnapshot
  BY DEF IInv
<1> QED
  BY <1>1, InductiveInvariant, PTL

\* The scheduler's drain waits for the last worker and lets none start later.
THEOREM DrainComplete == Spec => []DrainedWhenStopped
<1>1. IInv => DrainedWhenStopped
  BY DEF IInv
<1> QED
  BY <1>1, InductiveInvariant, PTL

\* A finished run is never written again: only its own worker, recovery and
\* the cascade write rows, and discovery's unguarded update finds 'running'.
THEOREM FinishedStaysFinished == Spec => TerminalStable
<1>1. ASSUME IInv, [Next]_vars
      PROVE  [\A r \in Run : row[r] \in Terminal => row'[r] \in {row[r], "deleted"}]_row
  <2> SUFFICES ASSUME NEW q \in Run, row[q] \in Terminal
               PROVE  row'[q] \in {row[q], "deleted"}
    OBVIOUS
  <2> USE <1>1 DEF IInv, TypeOK, Terminal, RowsFollowTasks, WorkingRowsRun, durable
  <2>1. CASE UNCHANGED row
    BY <2>1
  <2>2. CASE \E r \in Run : Insert(r) \/ Interrupt(r) \/ MarkRunning(r) \/ Persist(r)
    BY <2>2 DEF Insert, Interrupt, MarkRunning, Persist, MayFinish, Record, RequestRun, Run,
                MonitorRun
  <2>3. CASE \E r \in ScheduledRun : ClaimQueued(r) \/ ClaimSkipped(r)
    BY <2>3 DEF ClaimQueued, ClaimSkipped, Record
  <2>4. CASE \E d \in Deleter : Cascade(d)
    BY <2>4 DEF Cascade
  <2>5. CASE RecoverDiscoveries \/ RecoverMonitors
    BY <2>5 DEF RecoverDiscoveries, RecoverMonitors, Active
  <2> QED
    BY <2>1, <2>2, <2>3, <2>4, <2>5, RowWriters
<1> QED
  BY <1>1, InductiveInvariant, PTL DEF Spec, TerminalStable

-----------------------------------------------------------------------------
(* Every active run has its worker, unless a fault takes it away             *)

\* An active run has a worker.  A worker that is not through MarkRunning has no
\* 'running' row and one that is closing no active row; the first half of the
\* startup recovery leaves no active discovery to the second.
Owned(r) ==
  /\ Up /\ row[r] \in Active => task[r] \in Working
  /\ life = "recovering" /\ r \in DiscoveryRun => row[r] \notin Active
  /\ task[r] = "closing" => row[r] \notin Active
  /\ task[r] \in {"inserted", "spawned", "waiting", "dropping", "starting"} => row[r] # "running"

OwnedInv == \A r \in Run : Owned(r)

\* Without faults, a worker is done with its run only when the row is.
LEMMA OwnedStep ==
  ASSUME Fault = {}, IInv, OwnedInv, [Next]_vars
  PROVE  OwnedInv'
<1> SUFFICES ASSUME NEW q \in Run PROVE Owned(q)'
  BY DEF OwnedInv
<1> USE DEF Up, Working, PermitHolding, Active, durable, locks, process
<1>0. /\ Owned(q) /\ row \in [Run -> RowState] /\ task \in [Run -> TaskState]
      /\ task[q] \in {"idle", "checked", "admitted"} /\ q \in RequestRun => row[q] = "absent"
      /\ task[q] \in {"checked", "admitted"} => q \in RequestRun
      /\ task[q] \in {"resolving", "session", "persisting"} => row[q] = "running"
      /\ life # "up" => task[q] \in {"idle", "gone"} /\ sched = "down"
  BY DEF IInv, TypeOK, OwnedInv, RowsFollowTasks, WorkingRowsRun, NothingRuns
<1>a. row'[q] = row[q] /\ task'[q] = task[q] /\ life' = life => Owned(q)'
  BY <1>0 DEF Owned
<1>1. CASE UNCHANGED vars
  BY <1>1, <1>a DEF vars
<1>2. ASSUME NEW r \in Run, Request(r) \/ HandlerStep(r) \/ DropHandler(r)
      PROVE  Owned(q)'
  <2>1. CASE q # r
    <3>1. row'[q] = row[q] /\ task'[q] = task[q] /\ life' = life
      BY <1>0, <1>2, <2>1 DEF Request, HandlerStep, Admit, Insert, Refuse, Spawn, DropHandler,
                              Goto, Record
    <3> QED
      BY <3>1, <1>a
  <2>2. CASE q = r
    BY <1>0, <1>2, <2>2 DEF Request, HandlerStep, Admit, Insert, Refuse, Spawn, DropHandler,
                            Goto, Record, Owned
  <2> QED
    BY <2>1, <2>2
<1>3. ASSUME NEW r \in Run, WorkerStep(r)
      PROVE  Owned(q)'
  <2>1. CASE q # r
    <3>1. row'[q] = row[q] /\ task'[q] = task[q] /\ life' = life
      BY <1>0, <1>3, <2>1 DEF WorkerStep, Enqueue, Proceed, Yield, Interrupt, InterruptError,
                MarkRunning, NotStarted, Resolve, ResolveFails, ResolveError, SessionEnds, Persist,
                PersistError, Close, Goto, Record
    <3> QED
      BY <3>1, <1>a
  <2>2. CASE q = r /\ (Enqueue(r) \/ Proceed(r) \/ Yield(r) \/ Interrupt(r))
    BY <1>0, <2>2 DEF Enqueue, Proceed, Yield, Interrupt, Goto, Record, Owned
  <2>3. CASE q = r /\ (MarkRunning(r) \/ NotStarted(r))
    BY <1>0, <2>3 DEF MarkRunning, NotStarted, Goto, Record, Owned
  <2>4. CASE q = r /\ (Resolve(r) \/ ResolveFails(r) \/ SessionEnds(r))
    BY <1>0, <2>4 DEF Resolve, ResolveFails, SessionEnds, Goto, Owned
  <2>5. CASE q = r /\ (Persist(r) \/ Close(r))
    BY <1>0, <2>5 DEF Persist, MayFinish, Close, Goto, Record, Owned
  <2>6. CASE InterruptError(r) \/ ResolveError(r) \/ PersistError(r)
    BY <2>6 DEF InterruptError, ResolveError, PersistError
  <2> QED
    BY <1>3, <2>1, <2>2, <2>3, <2>4, <2>5, <2>6 DEF WorkerStep
<1>4. ASSUME SchedulerStep
      PROVE  Owned(q)'
  <2>1. ASSUME NEW r \in ScheduledRun, ClaimQueued(r) \/ ClaimSkipped(r)
        PROVE  Owned(q)'
    <3>1. CASE q # r
      <4>1. row'[q] = row[q] /\ task'[q] = task[q] /\ life' = life
        BY <1>0, <2>1, <3>1 DEF ClaimQueued, ClaimSkipped, Goto, Record
      <4> QED
        BY <4>1, <1>a
    <3>2. CASE q = r
      BY <1>0, <2>1, <3>2 DEF ClaimQueued, ClaimSkipped, Goto, Record, Owned
    <3> QED
      BY <3>1, <3>2
  <2>2. CASE TickBegin \/ TryPermit \/ ClaimNone \/ TickEnd \/ TickAbort \/ Stop \/ Drained
    BY <1>a, <2>2 DEF TickBegin, TryPermit, ClaimNone, TickEnd, TickAbort, Stop, Drained
  <2> QED
    BY <1>4, <2>1, <2>2 DEF SchedulerStep, Claim
<1>5. ASSUME NEW d \in Deleter, RequestDelete(d) \/ DeleteStep(d)
      PROVE  Owned(q)'
  <2>1. CASE Cascade(d)
    <3>1. row'[q] \in {row[q], "deleted"} /\ task' = task /\ life' = life
      BY <2>1 DEF Cascade
    <3> QED
      BY <1>0, <3>1 DEF Owned
  <2>2. CASE RequestDelete(d) \/ FenceGranted(d) \/ BarrierGranted(d) \/ Backup(d) \/ Abandon(d)
    BY <1>a, <2>2 DEF RequestDelete, FenceGranted, BarrierGranted, Backup, Abandon
  <2> QED
    BY <1>5, <2>1, <2>2 DEF DeleteStep
<1>6. ASSUME ProcessStep
      PROVE  Owned(q)'
  <2>1. CASE Shutdown
    BY <1>a, <2>1 DEF Shutdown
  <2>2. CASE Exit \/ Crash
    BY <1>0, <2>2 DEF Exit, Crash, Die, Owned
  <2>3. CASE RecoverDiscoveries \/ RecoverMonitors
    <3>1. task[q] \in {"idle", "gone"} /\ task' = task
      BY <1>0, <2>3 DEF RecoverDiscoveries, RecoverMonitors
    <3>2. CASE RecoverDiscoveries
      BY <1>0, <3>1, <3>2 DEF RecoverDiscoveries, Owned
    <3>3. CASE RecoverMonitors
      BY <1>0, <3>1, <3>3 DEF RecoverMonitors, Owned, Run, MonitorRun
    <3> QED
      BY <2>3, <3>2, <3>3
  <2> QED
    BY <1>6, <2>1, <2>2, <2>3 DEF ProcessStep
<1> QED
  BY <1>1, <1>2, <1>3, <1>4, <1>5, <1>6 DEF Next

\* While the process is up each active run has the worker that will finish it,
\* through every admission, shutdown, recovery, crash and deletion: only a
\* storage fault or a client that hangs up between Insert and Spawn leaves a
\* run to the next startup.
THEOREM ActiveRunsOwned ==
  ASSUME Fault = {}
  PROVE  Spec => []ActiveRunOwned
<1>1. Init => OwnedInv
  BY DEF Init, NoRows, OwnedInv, Owned, Active
<1>2. IInv /\ OwnedInv /\ [Next]_vars => OwnedInv'
  BY OwnedStep
<1>3. OwnedInv => ActiveRunOwned
  BY DEF OwnedInv, Owned, ActiveRunOwned
<1> QED
  BY <1>1, <1>2, <1>3, InductiveInvariant, PTL DEF Spec

-----------------------------------------------------------------------------
(* Observation implements HostSlot *)

Occupying == {r \in Run : row[r] \in Active}

\* Each step of a handler, worker, tick, deletion or of the process is a step
\* of the abstract slots, or changes neither them nor the sessions.
LEMMA SlotStep ==
  ASSUME IInv, [Next]_vars
  PROVE  [Slot!Next]_(Slot!vars)
<1> USE DEF IInv, TypeOK, durable
<1>a. UNCHANGED <<Occupying, Sessions>> => UNCHANGED Slot!vars
  BY DEF Slot!vars, Occupying
<1>b. UNCHANGED <<row, Sessions>> => UNCHANGED <<Occupying, Sessions>>
  BY DEF Occupying
<1>c. ASSUME NEW S \in SUBSET Occupying, S \cap Sessions = {},
             Occupying' = Occupying \ S, Sessions' = Sessions
      PROVE  Slot!Next
  BY <1>c DEF Slot!Next, Slot!Free, Occupying
<1>1. CASE UNCHANGED vars
  BY <1>1, <1>a, <1>b DEF vars, Sessions
<1>2. ASSUME NEW r \in Run, Request(r) \/ HandlerStep(r) \/ DropHandler(r)
      PROVE  [Slot!Next]_(Slot!vars)
  <2>1. Sessions' = Sessions
    BY <1>2 DEF Request, HandlerStep, Admit, Insert, Refuse, Spawn, DropHandler, Goto, Sessions
  <2>2. CASE Insert(r)
    <3>1. Occupying' = Occupying \cup {r}
      BY <2>2 DEF Insert, Record, Occupying, Active
    <3>2. \A q \in Occupying : HostOf[q] # HostOf[r]
      BY <2>2 DEF Insert, Occupied, Occupying
    <3> QED
      BY <2>1, <3>1, <3>2 DEF Slot!Next, Slot!Take, Occupying
  <2>3. CASE Request(r) \/ Admit(r) \/ Refuse(r) \/ Spawn(r) \/ DropHandler(r)
    BY <2>1, <2>3, <1>a, <1>b DEF Request, Admit, Refuse, Spawn, DropHandler
  <2> QED
    BY <1>2, <2>2, <2>3 DEF HandlerStep
<1>3. ASSUME NEW r \in Run, WorkerStep(r)
      PROVE  [Slot!Next]_(Slot!vars)
  <2>1. CASE MarkRunning(r)
    <3>1. Occupying' = Occupying /\ r \in Occupying
      BY <2>1 DEF MarkRunning, Record, Occupying, Active
    <3>2. r \notin Sessions /\ Sessions' = IF r \in ManualRun THEN Sessions \cup {r} ELSE Sessions
      BY <2>1 DEF MarkRunning, Goto, Sessions
    <3> QED
      BY <3>1, <3>2, <1>a DEF Slot!Next, Slot!Open, Occupying
  <2>2. CASE Resolve(r)
    <3>1. Occupying' = Occupying /\ r \in Occupying
      BY <2>2 DEF Resolve, Occupying, Active, WorkingRowsRun
    <3>2. r \notin Sessions /\ Sessions' = Sessions \cup {r}
      BY <2>2 DEF Resolve, Goto, Sessions
    <3> QED
      BY <3>1, <3>2 DEF Slot!Next, Slot!Open, Occupying
  <2>3. CASE SessionEnds(r)
    <3>1. Occupying' = Occupying /\ r \in Sessions /\ Sessions' = Sessions \ {r}
      BY <2>3 DEF SessionEnds, Goto, Occupying, Sessions
    <3> QED
      BY <3>1 DEF Slot!Next, Slot!Close, Occupying
  <2>4. CASE Interrupt(r) \/ Persist(r)
    <3>1. Sessions' = Sessions /\ r \notin Sessions
      BY <2>4 DEF Interrupt, Persist, Goto, Sessions
    <3>2. CASE row'[r] = row[r]
      <4>1. row' = row
        BY <2>4, <3>2 DEF Interrupt, Persist, Record
      <4> QED
        BY <3>1, <4>1, <1>a, <1>b
    <3>3. CASE row'[r] # row[r]
      <4>1. r \in Occupying /\ Occupying' = Occupying \ {r}
        BY <2>4, <3>3 DEF Interrupt, Persist, Record, WorkingRowsRun, Occupying, Active
      <4>2. {r} \in SUBSET Occupying /\ {r} \cap Sessions = {}
        BY <3>1, <4>1
      <4> QED
        BY <3>1, <4>1, <4>2, <1>c
    <3> QED
      BY <3>2, <3>3
  <2>5. CASE \/ Enqueue(r) \/ Proceed(r) \/ Yield(r) \/ InterruptError(r) \/ NotStarted(r)
             \/ ResolveFails(r) \/ ResolveError(r) \/ PersistError(r) \/ Close(r)
    <3>1. UNCHANGED <<row, Sessions>>
      BY <2>5 DEF Enqueue, Proceed, Yield, InterruptError, NotStarted, ResolveFails, ResolveError,
                  PersistError, Close, Goto, Sessions
    <3> QED
      BY <3>1, <1>a, <1>b
  <2> QED
    BY <1>3, <2>1, <2>2, <2>3, <2>4, <2>5 DEF WorkerStep
<1>4. ASSUME SchedulerStep
      PROVE  [Slot!Next]_(Slot!vars)
  <2>1. ASSUME NEW r \in ScheduledRun, ClaimQueued(r)
        PROVE  [Slot!Next]_(Slot!vars)
    <3>0. r \in Run
      BY DEF Run, MonitorRun
    <3>1. Occupying' = Occupying \cup {r}
      BY <2>1, <3>0 DEF ClaimQueued, Record, Occupying, Active
    <3>2. \A q \in Occupying : HostOf[q] # HostOf[r]
      BY <2>1, <3>0 DEF ClaimQueued, Occupied, Occupying
    <3>3. Sessions' = Sessions
      BY <2>1, <3>0 DEF ClaimQueued, Goto, Sessions, WorkingRowsRun
    <3> QED
      BY <3>0, <3>1, <3>2, <3>3 DEF Slot!Next, Slot!Take, Occupying
  <2>2. ASSUME NEW r \in ScheduledRun, ClaimSkipped(r)
        PROVE  [Slot!Next]_(Slot!vars)
    <3>1. Occupying' = Occupying
      BY <2>2 DEF ClaimSkipped, Record, Occupying, Active
    <3>2. Sessions' = Sessions
      BY <2>2 DEF ClaimSkipped, Sessions
    <3> QED
      BY <3>1, <3>2, <1>a
  <2>3. CASE TickBegin \/ TryPermit \/ ClaimNone \/ TickEnd \/ TickAbort \/ Stop \/ Drained
    BY <2>3, <1>a, <1>b DEF TickBegin, TryPermit, ClaimNone, TickEnd, TickAbort, Stop, Drained,
                            Sessions
  <2> QED
    BY <1>4, <2>1, <2>2, <2>3 DEF SchedulerStep, Claim
<1>5. ASSUME NEW d \in Deleter, RequestDelete(d) \/ DeleteStep(d)
      PROVE  [Slot!Next]_(Slot!vars)
  <2>1. Sessions' = Sessions
    BY <1>5 DEF RequestDelete, DeleteStep, FenceGranted, BarrierGranted, Backup, Cascade, Abandon,
                Sessions
  <2>2. CASE Cascade(d)
    <3>1. Sessions = {}
      BY <2>2 DEF Cascade, PermitsConserved, Barriers, Holders, WorkerHolders, PermitHolding, Sessions
    <3>0. PICK S \in SUBSET Occupying : S = {r \in Occupying : InScope(d, r)}
      OBVIOUS
    <3>2. Occupying' = Occupying \ S
      BY <3>0, <2>2 DEF Cascade, Occupying, Active
    <3> QED
      BY <2>1, <3>1, <3>2, <1>c
  <2>3. CASE RequestDelete(d) \/ FenceGranted(d) \/ BarrierGranted(d) \/ Backup(d) \/ Abandon(d)
    BY <2>1, <2>3, <1>a, <1>b DEF RequestDelete, FenceGranted, BarrierGranted, Backup, Abandon
  <2> QED
    BY <1>5, <2>2, <2>3 DEF DeleteStep
<1>6. ASSUME ProcessStep
      PROVE  [Slot!Next]_(Slot!vars)
  <2>1. CASE Shutdown
    BY <2>1, <1>a, <1>b DEF Shutdown, Sessions
  <2>2. CASE RecoverDiscoveries \/ RecoverMonitors
    <3>1. Sessions = {} /\ Sessions' = Sessions
      BY <2>2 DEF RecoverDiscoveries, RecoverMonitors, NothingRuns, Sessions
    <3>2. CASE RecoverDiscoveries
      <4>0. PICK S \in SUBSET Occupying : S = {r \in Occupying : r \in DiscoveryRun}
        OBVIOUS
      <4>1. Occupying' = Occupying \ S
        BY <4>0, <3>2 DEF RecoverDiscoveries, Occupying, Active
      <4> QED
        BY <3>1, <4>1, <1>c
    <3>3. CASE RecoverMonitors
      <4>0. PICK S \in SUBSET Occupying : S = {r \in Occupying : r \in MonitorRun}
        OBVIOUS
      <4>1. Occupying' = Occupying \ S
        BY <4>0, <3>3 DEF RecoverMonitors, Occupying, Active
      <4> QED
        BY <3>1, <4>1, <1>c
    <3> QED
      BY <2>2, <3>2, <3>3
  <2>3. CASE Exit \/ Crash
    <3>1. Sessions' = {} /\ Occupying' = Occupying
      BY <2>3 DEF Exit, Crash, Die, Sessions, Occupying
    <3> QED
      BY <3>1 DEF Slot!Next, Slot!Crash, Occupying
  <2> QED
    BY <1>6, <2>1, <2>2, <2>3 DEF ProcessStep
<1> QED
  BY <1>1, <1>2, <1>3, <1>4, <1>5, <1>6 DEF Next

\* Whatever admission, shutdown, recovery and deletion do together, a host
\* sees what HostSlot promises.
THEOREM ObservationImplementsHostSlot == Spec => ImplementsHostSlot
<1>1. Init => Slot!Init
  BY DEF Init, Slot!Init, NoRows, Active, Sessions
<1>2. IInv /\ [Next]_vars => [Slot!Next]_(Slot!vars)
  BY SlotStep
<1> QED
  BY <1>1, <1>2, InductiveInvariant, PTL DEF Spec, ImplementsHostSlot, Slot!Spec
=============================================================================
