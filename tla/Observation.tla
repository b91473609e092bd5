---------------------------- MODULE Observation ----------------------------
(***************************************************************************)
(* Admission, execution, shutdown, recovery and deletion of SSH            *)
(* observations: manual monitor runs, scheduled monitor runs and discovery *)
(* runs of the backend process, with the two synchronisation objects every *)
(* one of them goes through (AppState in api.rs):                          *)
(*                                                                         *)
(*   observation_admission  a fair RwLock: requests and scheduler ticks    *)
(*       read it while they insert a run, a deletion writes it;            *)
(*   observation_permits    a fair Semaphore of MaxConcurrency permits:    *)
(*       a worker holds one while it talks to a host, a deletion and the   *)
(*       scheduler's drain take all of them.                               *)
(*                                                                         *)
(* An action is one stretch of code between two awaits that other tasks    *)
(* can see: a SQLite transaction, a lock or permit operation, the end of   *)
(* an SSH session.  A run identifier is used once, as a fresh UUID is.     *)
(*                                                                         *)
(* A definition named X_Y is X with the defect Y; nothing here uses it.    *)
(***************************************************************************)
EXTENDS Naturals, FiniteSets, SequencesExt

CONSTANTS
  Host,             \* managed hosts, all registered and connection-ready
  ManualRun,        \* POST /hosts/{id}/monitor-runs
  ScheduledRun,     \* runs the scheduler claims
  DiscoveryRun,     \* POST /hosts/{id}/discovery-runs
  HostOf,           \* the host of each run
  Deleter,          \* DELETE requests for a host or for the workspace
  Scope,            \* the hosts each of them deletes
  Scheduler,        \* the scheduler task, as a waiter for permits
  MaxConcurrency,   \* NETWORK_ATLAS_MONITOR_MAX_CONCURRENCY
  MaxRestarts,      \* bound: how often the process is started again
  Fault             \* which faults happen: "storage", "disconnect"

Run        == ManualRun \cup ScheduledRun \cup DiscoveryRun
MonitorRun == ManualRun \cup ScheduledRun
RequestRun == ManualRun \cup DiscoveryRun

ASSUME RunAssumption ==
  /\ IsFiniteSet(Run)
  /\ ManualRun \cap ScheduledRun = {}
  /\ DiscoveryRun \cap MonitorRun = {}
  /\ HostOf \in [Run -> Host]
ASSUME DeleterAssumption ==
  /\ Deleter \cap Run = {}
  /\ Scope \in [Deleter -> SUBSET Host]
ASSUME SchedulerAssumption == Scheduler \notin Run \cup Deleter
ASSUME PermitAssumption    == MaxConcurrency \in Nat \ {0}
ASSUME BoundAssumption     == MaxRestarts \in Nat
ASSUME FaultAssumption     == Fault \subseteq {"storage", "disconnect"}

VARIABLES
  row,        \* durable state of each run in monitor_runs / discovery_runs
  hosts,      \* durable: the hosts still registered
  backup,     \* what the verified snapshot of a deletion says of the rows
  task,       \* where the handler or worker of each run is
  permits,    \* available observation permits
  gate,       \* tasks queued for permits, first come first served
  fence,      \* deletions queued for the write side of the admission lock
  del,        \* where each deletion is
  sched,      \* where the scheduler task is
  due,        \* hosts of the due schedules the current tick still has to scan
  life,       \* the process: down, recovering at boot, or up
  shutdown,   \* shutdown_requested
  restarts

durable == <<row, hosts, backup>>
locks   == <<permits, gate, fence>>
process == <<life, shutdown, restarts>>
vars    == <<durable, task, locks, del, sched, due, process>>

-----------------------------------------------------------------------------
(* States and who holds what *)

Active   == {"queued", "running"}     \* a discovery's 'accepted' is queued, too
\* finished: the worker wrote its result, a success or any kind of failure;
\* interrupted: for a discovery, 'discovery_timeout' by shutdown or recovery.
Terminal == {"finished", "skipped", "interrupted"}
RowState == {"absent", "deleted"} \cup Active \cup Terminal

TaskState == {"idle", "checked", "admitted", "inserted", "spawned", "waiting",
              "dropping", "starting", "resolving", "session", "persisting",
              "closing", "gone"}
DelState   == {"idle", "fence", "barrier", "fenced", "backedUp", "done", "failed"}
SchedState == {"down", "idle", "scan", "permit", "overlap", "draining", "stopped"}

\* Tasks that own an observation permit.
PermitHolding == {"starting", "resolving", "session", "persisting", "closing"}
WorkerHolders == {r \in Run : task[r] \in PermitHolding}
Holders       == WorkerHolders \cup (IF sched = "permit" THEN {Scheduler} ELSE {})

\* Deletions that own every permit.
Barriers == {d \in Deleter : del[d] \in {"fenced", "backedUp"}}

\* The read side of the admission lock.
Ticking == sched \in {"scan", "permit", "overlap"}
Readers == {r \in Run : task[r] \in {"admitted", "inserted"}}

\* Handlers the HTTP server's graceful drain waits for.
OpenHandlers ==
  {r \in Run : task[r] \in {"checked", "admitted", "inserted"}}
    \cup {d \in Deleter : del[d] \notin {"idle", "done", "failed"}}

Sessions == {r \in Run : task[r] = "session"}

TypeOK ==
  /\ row \in [Run -> RowState]
  /\ hosts \subseteq Host
  /\ backup \in [Deleter -> [Run -> RowState]]
  /\ task \in [Run -> TaskState]
  /\ permits \in 0..MaxConcurrency
  /\ gate \in Seq(Run \cup Deleter \cup {Scheduler})
  /\ fence \in Seq(Deleter)
  /\ del \in [Deleter -> DelState]
  /\ sched \in SchedState
  /\ due \subseteq Host
  /\ life \in {"down", "recovering", "up"}
  /\ shutdown \in BOOLEAN
  /\ restarts \in Nat

NoRows == [r \in Run |-> "absent"]

Init ==
  /\ row = NoRows
  /\ hosts = Host
  /\ backup = [d \in Deleter |-> NoRows]
  /\ task = [r \in Run |-> "idle"]
  /\ permits = MaxConcurrency
  /\ gate = <<>>
  /\ fence = <<>>
  /\ del = [d \in Deleter |-> "idle"]
  /\ sched = "idle"
  /\ due = {}
  /\ life = "up"
  /\ shutdown = FALSE
  /\ restarts = 0

-----------------------------------------------------------------------------
(* Helpers *)

Up           == life = "up"
Goto(r, s)   == task' = [task EXCEPT ![r] = s]
Record(r, s) == row' = [row EXCEPT ![r] = s]

\* The RwLock is fair: a waiting writer keeps later readers out.
FenceOpen_Ignored == TRUE
FenceOpen         == fence = <<>>

\* The unique indexes and triggers that allow one active run per host.
Occupied(h) == \E r \in Run : HostOf[r] = h /\ row[r] \in Active

AllPermits_Any == permits > 0
AllPermits     == permits = MaxConcurrency

-----------------------------------------------------------------------------
(* A request for a manual monitor run or a discovery *)

\* Past the replay lookup and the shutdown check, before the admission lock.
Request(r) ==
  /\ Up /\ ~shutdown
  /\ r \in RequestRun /\ task[r] = "idle"
  /\ Goto(r, "checked")
  /\ UNCHANGED <<durable, locks, del, sched, due, process>>

Admit(r) ==
  /\ task[r] = "checked"
  /\ FenceOpen
  /\ Goto(r, "admitted")
  /\ UNCHANGED <<durable, locks, del, sched, due, process>>

Insert(r) ==
  /\ task[r] = "admitted"
  /\ HostOf[r] \in hosts
  /\ ~Occupied(HostOf[r])
  /\ Record(r, "queued")
  /\ Goto(r, "inserted")
  /\ UNCHANGED <<hosts, backup, locks, del, sched, due, process>>

\* 404 or 409; any other reason target resolution has is a reason to refuse.
Refuse(r) ==
  /\ task[r] = "admitted"
  /\ Goto(r, "gone")
  /\ UNCHANGED <<durable, locks, del, sched, due, process>>

\* drop(observation_admission), tokio::spawn, 202
Spawn(r) ==
  /\ task[r] = "inserted"
  /\ Goto(r, "spawned")
  /\ UNCHANGED <<durable, locks, del, sched, due, process>>

-----------------------------------------------------------------------------
(* The worker of a run *)

Enqueue(r) ==
  /\ task[r] = "spawned"
  /\ Goto(r, "waiting")
  /\ gate' = Append(gate, r)
  /\ UNCHANGED <<durable, permits, fence, del, sched, due, process>>

Proceed(r) ==
  /\ task[r] = "waiting"
  /\ gate # <<>> /\ Head(gate) = r
  /\ permits > 0
  /\ ~shutdown
  /\ permits' = permits - 1
  /\ gate' = Tail(gate)
  /\ Goto(r, "starting")
  /\ UNCHANGED <<durable, fence, del, sched, due, process>>

\* The permit arrives during shutdown: it is dropped before the row is closed.
Yield(r) ==
  /\ task[r] = "waiting"
  /\ gate # <<>> /\ Head(gate) = r
  /\ permits > 0
  /\ shutdown
  /\ gate' = Tail(gate)
  /\ Goto(r, "dropping")
  /\ UNCHANGED <<durable, permits, fence, del, sched, due, process>>

Interrupt_Running(r) ==
  /\ task[r] = "dropping"
  /\ Goto(r, "gone")
  /\ IF row[r] = "running" THEN Record(r, "interrupted") ELSE UNCHANGED row
  /\ UNCHANGED <<hosts, backup, locks, del, sched, due, process>>

Interrupt(r) ==
  /\ task[r] = "dropping"
  /\ Goto(r, "gone")
  /\ IF row[r] = "queued" THEN Record(r, "interrupted") ELSE UNCHANGED row
  /\ UNCHANGED <<hosts, backup, locks, del, sched, due, process>>

InterruptError(r) ==
  /\ "storage" \in Fault
  /\ task[r] = "dropping"
  /\ Goto(r, "gone")
  /\ UNCHANGED <<durable, locks, del, sched, due, process>>

MarkRunning_Unchecked(r) ==
  /\ task[r] = "starting"
  /\ IF row[r] = "queued" THEN Record(r, "running") ELSE UNCHANGED row
  /\ Goto(r, IF r \in ManualRun THEN "session" ELSE "resolving")
  /\ UNCHANGED <<hosts, backup, locks, del, sched, due, process>>

MarkRunning(r) ==
  /\ task[r] = "starting"
  /\ row[r] = "queued"
  /\ Record(r, "running")
  /\ Goto(r, IF r \in ManualRun THEN "session" ELSE "resolving")
  /\ UNCHANGED <<hosts, backup, locks, del, sched, due, process>>

\* The compare-and-set touched no row, or could not be executed.
NotStarted(r) ==
  /\ task[r] = "starting"
  /\ row[r] # "queued" \/ "storage" \in Fault
  /\ Goto(r, "closing")
  /\ UNCHANGED <<durable, locks, del, sched, due, process>>

Resolve(r) ==
  /\ task[r] = "resolving"
  /\ Goto(r, "session")
  /\ UNCHANGED <<durable, locks, del, sched, due, process>>

ResolveFails(r) ==
  /\ task[r] = "resolving"
  /\ Goto(r, "persisting")
  /\ UNCHANGED <<durable, locks, del, sched, due, process>>

\* A discovery that cannot load its host returns without touching the run.
ResolveError(r) ==
  /\ "storage" \in Fault
  /\ task[r] = "resolving" /\ r \in DiscoveryRun
  /\ Goto(r, "closing")
  /\ UNCHANGED <<durable, locks, del, sched, due, process>>

SessionEnds(r) ==
  /\ task[r] = "session"
  /\ Goto(r, "persisting")
  /\ UNCHANGED <<durable, locks, del, sched, due, process>>

\* Monitor results are written under WHERE state = 'running'; discovery
\* results under the run id alone.
MayFinish(r) ==
  IF r \in MonitorRun THEN row[r] = "running" ELSE row[r] \notin {"absent", "deleted"}

Persist(r) ==
  /\ task[r] = "persisting"
  /\ IF MayFinish(r) THEN Record(r, "finished") ELSE UNCHANGED row
  /\ Goto(r, "closing")
  /\ UNCHANGED <<hosts, backup, locks, del, sched, due, process>>

PersistError(r) ==
  /\ "storage" \in Fault
  /\ task[r] = "persisting"
  /\ Goto(r, "closing")
  /\ UNCHANGED <<durable, locks, del, sched, due, process>>

Close_Leak(r) ==
  /\ task[r] = "closing"
  /\ Goto(r, "gone")
  /\ UNCHANGED <<durable, locks, del, sched, due, process>>

Close(r) ==
  /\ task[r] = "closing"
  /\ permits' = permits + 1
  /\ Goto(r, "gone")
  /\ UNCHANGED <<durable, gate, fence, del, sched, due, process>>

-----------------------------------------------------------------------------
(* The scheduler task *)

\* tick_once takes the read side of the admission lock for the whole scan.
TickBegin ==
  /\ sched = "idle" /\ ~shutdown
  /\ FenceOpen
  /\ sched' = "scan"
  /\ due' \in SUBSET hosts
  /\ UNCHANGED <<durable, task, locks, del, process>>

\* try_acquire_owned never overtakes a queued waiter.
TryPermit ==
  /\ sched = "scan" /\ ~shutdown /\ due # {}
  /\ IF permits > 0 /\ gate = <<>>
     THEN sched' = "permit" /\ permits' = permits - 1
     ELSE sched' = "overlap" /\ UNCHANGED permits
  /\ UNCHANGED <<durable, task, gate, fence, del, due, process>>

\* The permit moves from the tick to the worker of the new run.
ClaimQueued(r) ==
  /\ sched = "permit"
  /\ r \in ScheduledRun /\ row[r] = "absent"
  /\ HostOf[r] \in due \cap hosts
  /\ ~Occupied(HostOf[r])
  /\ Record(r, "queued")
  /\ Goto(r, "starting")
  /\ due' = due \ {HostOf[r]}
  /\ sched' = "scan"
  /\ UNCHANGED <<hosts, backup, locks, del, process>>

Rescan_Leak ==
  /\ sched' = "scan"
  /\ UNCHANGED permits

Rescan_Double ==
  /\ sched' = "scan"
  /\ permits' = permits + 1

\* Back to the scan; a permit the tick still has is dropped.
Rescan ==
  /\ sched' = "scan"
  /\ permits' = IF sched = "permit" THEN permits + 1 ELSE permits

ClaimSkipped(r) ==
  /\ sched \in {"permit", "overlap"}
  /\ r \in ScheduledRun /\ row[r] = "absent"
  /\ HostOf[r] \in due \cap hosts
  /\ Occupied(HostOf[r])
  /\ Record(r, "skipped")
  /\ due' = due \ {HostOf[r]}
  /\ Rescan
  /\ UNCHANGED <<hosts, backup, task, gate, fence, del, process>>

\* The schedule changed since the scan, or its host is idle and no permit is.
ClaimNone ==
  /\ sched \in {"permit", "overlap"}
  /\ \E h \in due : due' = due \ {h}
  /\ Rescan
  /\ UNCHANGED <<durable, task, gate, fence, del, process>>

TickEnd_Full ==
  /\ sched = "scan" /\ due = {}
  /\ sched' = "idle"
  /\ UNCHANGED <<durable, task, locks, del, due, process>>

TickEnd ==
  /\ sched = "scan"
  /\ due = {} \/ shutdown
  /\ sched' = "idle"
  /\ due' = {}
  /\ UNCHANGED <<durable, task, locks, del, process>>

\* An error of one claim ends the tick; the permit is dropped on the way out.
TickAbort ==
  /\ "storage" \in Fault
  /\ Ticking
  /\ sched' = "idle"
  /\ permits' = IF sched = "permit" THEN permits + 1 ELSE permits
  /\ due' = {}
  /\ UNCHANGED <<durable, task, gate, fence, del, process>>

\* The loop breaks and the task queues for every permit.
Stop ==
  /\ sched = "idle" /\ shutdown
  /\ sched' = "draining"
  /\ gate' = Append(gate, Scheduler)
  /\ UNCHANGED <<durable, task, permits, fence, del, due, process>>

Drained ==
  /\ sched = "draining"
  /\ gate # <<>> /\ Head(gate) = Scheduler
  /\ AllPermits
  /\ gate' = Tail(gate)
  /\ sched' = "stopped"
  /\ UNCHANGED <<durable, task, permits, fence, del, due, process>>

-----------------------------------------------------------------------------
(* A deletion: fence, barrier, backup, cascade *)

RequestDelete(d) ==
  /\ Up /\ del[d] = "idle"
  /\ del' = [del EXCEPT ![d] = "fence"]
  /\ fence' = Append(fence, d)
  /\ UNCHANGED <<durable, task, permits, gate, sched, due, process>>

FenceGranted(d) ==
  /\ del[d] = "fence"
  /\ fence # <<>> /\ Head(fence) = d
  /\ Readers = {} /\ ~Ticking
  /\ del' = [del EXCEPT ![d] = "barrier"]
  /\ gate' = Append(gate, d)
  /\ UNCHANGED <<durable, task, permits, fence, sched, due, process>>

BarrierGranted(d) ==
  /\ del[d] = "barrier"
  /\ gate # <<>> /\ Head(gate) = d
  /\ AllPermits
  /\ permits' = 0
  /\ gate' = Tail(gate)
  /\ del' = [del EXCEPT ![d] = "fenced"]
  /\ UNCHANGED <<durable, task, fence, sched, due, process>>

\* VACUUM INTO, verified and recorded.
Backup(d) ==
  /\ del[d] = "fenced"
  /\ backup' = [backup EXCEPT ![d] = row]
  /\ del' = [del EXCEPT ![d] = "backedUp"]
  /\ UNCHANGED <<row, hosts, task, locks, sched, due, process>>

InScope(d, r) == HostOf[r] \in Scope[d]

\* One transaction removes the hosts and their runs, then both guards drop.
Cascade(d) ==
  /\ del[d] = "backedUp"
  /\ Scope[d] \cap hosts # {}
  /\ row' = [r \in Run |-> IF InScope(d, r) /\ row[r] # "absent" THEN "deleted" ELSE row[r]]
  /\ hosts' = hosts \ Scope[d]
  /\ backup' = [backup EXCEPT ![d] = NoRows]
  /\ permits' = MaxConcurrency
  /\ fence' = Tail(fence)
  /\ del' = [del EXCEPT ![d] = "done"]
  /\ UNCHANGED <<task, gate, sched, due, process>>

\* The scope is gone already, storage fails, or the client hangs up and the
\* handler's future is dropped: whatever the request queued for or held is
\* given back and nothing is deleted.
MayAbandon(d) ==
  \/ del[d] = "backedUp" /\ Scope[d] \cap hosts = {}
  \/ del[d] \in {"fenced", "backedUp"} /\ "storage" \in Fault
  \/ "disconnect" \in Fault

Abandon(d) ==
  /\ del[d] \in {"fence", "barrier", "fenced", "backedUp"}
  /\ MayAbandon(d)
  /\ \E i \in 1..Len(fence) : fence[i] = d /\ fence' = RemoveAt(fence, i)
  /\ IF del[d] = "barrier"
     THEN \E i \in 1..Len(gate) : gate[i] = d /\ gate' = RemoveAt(gate, i)
     ELSE UNCHANGED gate
  /\ permits' = IF d \in Barriers THEN MaxConcurrency ELSE permits
  /\ backup' = [backup EXCEPT ![d] = NoRows]
  /\ del' = [del EXCEPT ![d] = "failed"]
  /\ UNCHANGED <<row, hosts, task, sched, due, process>>

-----------------------------------------------------------------------------
(* The process *)

\* The client hangs up: hyper drops the handler at its current await.
DropHandler(r) ==
  /\ "disconnect" \in Fault
  /\ task[r] \in {"checked", "admitted", "inserted"}
  /\ Goto(r, "gone")
  /\ UNCHANGED <<durable, locks, del, sched, due, process>>

Shutdown ==
  /\ Up /\ ~shutdown
  /\ shutdown' = TRUE
  /\ UNCHANGED <<durable, task, locks, del, sched, due, life, restarts>>

\* Everything volatile goes with the process.
Die ==
  /\ life' = "down"
  /\ task' = [r \in Run |-> IF task[r] = "idle" THEN "idle" ELSE "gone"]
  /\ permits' = MaxConcurrency
  /\ gate' = <<>>
  /\ fence' = <<>>
  /\ del' = [d \in Deleter |-> IF del[d] \in {"idle", "done"} THEN del[d] ELSE "failed"]
  /\ backup' = [d \in Deleter |-> NoRows]
  /\ sched' = "down"
  /\ due' = {}
  /\ shutdown' = FALSE
  /\ UNCHANGED <<row, hosts, restarts>>

\* axum::serve returned, the scheduler task was joined, the runtime stops.
Exit ==
  /\ Up /\ shutdown
  /\ OpenHandlers = {}
  /\ sched = "stopped"
  /\ Die

Crash == life # "down" /\ Die

RecoverDiscoveries_All ==
  /\ life = "down" /\ restarts < MaxRestarts
  /\ life' = "recovering"
  /\ restarts' = restarts + 1
  /\ row' = [r \in Run |-> IF r \in DiscoveryRun /\ row[r] \notin {"absent", "deleted"}
                           THEN "interrupted" ELSE row[r]]
  /\ UNCHANGED <<hosts, backup, task, locks, del, sched, due, shutdown>>

RecoverDiscoveries ==
  /\ life = "down" /\ restarts < MaxRestarts
  /\ life' = "recovering"
  /\ restarts' = restarts + 1
  /\ row' = [r \in Run |-> IF r \in DiscoveryRun /\ row[r] \in Active
                           THEN "interrupted" ELSE row[r]]
  /\ UNCHANGED <<hosts, backup, task, locks, del, sched, due, shutdown>>

RecoverMonitors_Running ==
  /\ life = "recovering"
  /\ life' = "up"
  /\ sched' = "idle"
  /\ row' = [r \in Run |-> IF r \in MonitorRun /\ row[r] = "running"
                           THEN "interrupted" ELSE row[r]]
  /\ UNCHANGED <<hosts, backup, task, locks, del, due, shutdown, restarts>>

RecoverMonitors ==
  /\ life = "recovering"
  /\ life' = "up"
  /\ sched' = "idle"
  /\ row' = [r \in Run |-> IF r \in MonitorRun /\ row[r] \in Active
                           THEN "interrupted" ELSE row[r]]
  /\ UNCHANGED <<hosts, backup, task, locks, del, due, shutdown, restarts>>

-----------------------------------------------------------------------------
(* Specification *)

HandlerStep(r) == Admit(r) \/ Insert(r) \/ Refuse(r) \/ Spawn(r)
WorkerStep(r) ==
  \/ Enqueue(r) \/ Proceed(r) \/ Yield(r) \/ Interrupt(r) \/ InterruptError(r)
  \/ MarkRunning(r) \/ NotStarted(r) \/ Resolve(r) \/ ResolveFails(r)
  \/ ResolveError(r) \/ SessionEnds(r) \/ Persist(r) \/ PersistError(r) \/ Close(r)
Claim == (\E r \in ScheduledRun : ClaimQueued(r) \/ ClaimSkipped(r)) \/ ClaimNone
SchedulerStep == TickBegin \/ TryPermit \/ Claim \/ TickEnd \/ TickAbort \/ Stop \/ Drained
DeleteStep(d) ==
  FenceGranted(d) \/ BarrierGranted(d) \/ Backup(d) \/ Cascade(d) \/ Abandon(d)
ProcessStep == Shutdown \/ Exit \/ Crash \/ RecoverDiscoveries \/ RecoverMonitors

Next ==
  \/ \E r \in Run : Request(r) \/ HandlerStep(r) \/ WorkerStep(r) \/ DropHandler(r)
  \/ SchedulerStep
  \/ \E d \in Deleter : RequestDelete(d) \/ DeleteStep(d)
  \/ ProcessStep

Spec == Init /\ [][Next]_vars

\* The runtime polls every task that can make progress, every SSH command has
\* a timeout, and both locks are first come first served.  Nothing obliges a
\* client to send a request, or the operator to stop or restart the process.
Fairness ==
  /\ \A r \in Run : WF_vars(HandlerStep(r) \/ WorkerStep(r))
  /\ WF_vars(SchedulerStep)
  /\ \A d \in Deleter : WF_vars(DeleteStep(d))

LiveSpec == Spec /\ Fairness

-----------------------------------------------------------------------------
(* Safety *)

\* No path through a worker, a tick, a deletion or a crash leaks a permit or
\* returns one twice: what is available and what is held is MaxConcurrency,
\* and one deletion at a time owns them all.
PermitsConserved ==
  /\ \A d, e \in Barriers : d = e
  /\ IF Barriers = {}
     THEN permits + Cardinality(Holders) = MaxConcurrency
     ELSE permits = 0 /\ Holders = {}

\* Two SSH sessions are never open to one host, whichever of the three kinds
\* of run they belong to and whichever of the request handlers and the
\* scheduler admitted them.
OneSessionPerHost ==
  \A r, q \in Sessions : HostOf[r] = HostOf[q] => r = q

\* From the moment a deletion owns the observation permits until it gives
\* them back, no worker of any host is between its claim and its receipt.
QuiescentUnderBarrier == Barriers # {} => WorkerHolders = {}

\* Nothing that the backup of a deletion shows is overtaken before the
\* cascade, in its scope or elsewhere, but for queued runs that a shutdown
\* interrupts.
FrozenSnapshot ==
  \A d \in Deleter : del[d] = "backedUp" =>
    \A r \in Run : \/ row[r] = backup[d][r]
                   \/ shutdown /\ backup[d][r] = "queued" /\ row[r] = "interrupted"

\* Comment in delete_scope: holding both fences through the cascade leaves no
\* write window between the verified snapshot and deletion.
NoWriteWindow ==
  \A d \in Deleter : del[d] = "backedUp" =>
    \A r \in Run : InScope(d, r) => row[r] = backup[d][r]

\* The scheduler task ends only when every accepted observation has finished,
\* and no worker talks to a host after that.
DrainedWhenStopped == sched = "stopped" => WorkerHolders = {}

\* A finished run is never written again, only deleted with its host:
\* discovery workers write their result without comparing the state first.
TerminalStable ==
  [][\A r \in Run : row[r] \in Terminal => row'[r] \in {row[r], "deleted"}]_row

\* A run gives up its host only after its session has ended, however it ends
\* and whoever else (recovery, shutdown, a deletion) writes its row.
Slot == INSTANCE HostSlot WITH slot <- {r \in Run : row[r] \in Active}, open <- Sessions
ImplementsHostSlot == Slot!Spec

-----------------------------------------------------------------------------
(* What makes the safety properties inductive *)

\* A stopped or recovering process runs no task.
NothingRuns ==
  life # "up" =>
    /\ sched = "down"
    /\ \A r \in Run : task[r] \in {"idle", "gone"}
    /\ \A d \in Deleter : del[d] \in {"idle", "done", "failed"}

\* A deletion past the fence heads its queue and has the lock to itself.
FenceHeld ==
  \A d \in Deleter : del[d] \in {"barrier", "fenced", "backedUp"} =>
    /\ fence # <<>> /\ Head(fence) = d
    /\ Readers = {} /\ ~Ticking

\* A request has no row before Insert, a worker always has one.
RowsFollowTasks ==
  \A r \in Run :
    /\ task[r] \in {"checked", "admitted"} => r \in RequestRun
    /\ task[r] \in {"idle", "checked", "admitted"} /\ r \in RequestRun => row[r] = "absent"
    /\ task[r] \in PermitHolding \cup {"inserted", "spawned", "waiting", "dropping"}
         => row[r] # "absent"

\* Between its claim and its receipt a run is 'running', whoever else writes.
WorkingRowsRun ==
  \A r \in Run : task[r] \in {"resolving", "session", "persisting"} => row[r] = "running"

OneActiveRun ==
  \A r, q \in Run :
    row[r] \in Active /\ row[q] \in Active /\ HostOf[r] = HostOf[q] => r = q

DrainFollowsShutdown ==
  /\ sched \in {"draining", "stopped"} => shutdown
  /\ \A r \in Run : task[r] = "dropping" => shutdown

IInv ==
  /\ TypeOK
  /\ PermitsConserved
  /\ FenceHeld
  /\ NothingRuns
  /\ RowsFollowTasks
  /\ WorkingRowsRun
  /\ OneActiveRun
  /\ DrainFollowsShutdown
  /\ DrainedWhenStopped
  /\ FrozenSnapshot

-----------------------------------------------------------------------------
(* Without storage faults and disconnects *)

Working == {"inserted", "spawned", "waiting", "dropping"} \cup PermitHolding

\* While the process is up, each active run has a worker that will finish it:
\* nothing but a fault makes a run wait for the next startup recovery.
ActiveRunOwned ==
  Up => \A r \in Run : row[r] \in Active => task[r] \in Working

\* docs/14, H3a: workers that were admitted finish their terminal transaction
\* before the backup, so it shows queued runs at most.
BackupHasNoRunningRow ==
  \A d \in Deleter : del[d] = "backedUp" => \A r \in Run : backup[d][r] # "running"

\* An accepted run ends or is deleted, unless the process stops first.
RunsEnd ==
  \A r \in Run : (Up /\ row[r] \in Active) ~> (~Up \/ row[r] \notin Active)

\* A deletion drains whatever was admitted before it and completes.
DeletionEnds ==
  \A d \in Deleter : del[d] = "fence" ~> del[d] \in {"done", "failed"}

\* A shutdown that is not cut short drains the scheduler.
DrainEnds == shutdown ~> (~Up \/ sched = "stopped")
=============================================================================
