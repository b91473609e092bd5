----------------------- MODULE DeploymentCatalogProofs -----------------------
(***************************************************************************)
(* Proofs about DeploymentCatalog for any deployments, links and targets:  *)
(* a failed provider makes nothing stale, a target that its owner has not  *)
(* set says what is known of its deployment, and the evidence of the       *)
(* newest runs is kept.                                                    *)
(***************************************************************************)
EXTENDS DeploymentCatalog, FiniteSetTheorems, SequenceTheorems, TLAPS

-----------------------------------------------------------------------------
(* The session                                                               *)

CommandName == {"linux_identity", "docker_version", "compose_ls", "containers",
                "resources", "documents"}

\* A session is at one of its commands, and what it has failed at is one.
SessionInv ==
  /\ DOMAIN session = {"pc", "request", "step", "listed", "links", "roots", "docker", "systemd"}
  /\ session.step \in 3..6
  /\ session.docker.command \in CommandName \cup {"none"}

LEMMA CommandsAreSix ==
  /\ Len(Commands) = 6
  /\ \A i \in 1..6 : Commands[i] \in CommandName
BY DEF Commands, CommandName

\* The listing of compose projects comes after the first two commands.
LEMMA ComposeIsThird ==
  Position("compose_ls") = 3 /\ Position("linux_identity") = 1 /\ Position("docker_version") = 2
<1>1. ASSUME NEW k \in 1..6
      PROVE  Position(Commands[k]) = k
  <2>1. \A i, j \in 1..6 : Commands[i] = Commands[j] => i = j
    BY DEF Commands
  <2>2. \A i \in 1..6 : Commands[i] = Commands[k] <=> i = k
    BY <2>1
  <2> QED
    BY <2>2, CommandsAreSix DEF Position
<1> QED
  BY <1>1 DEF Commands

LEMMA SessionInit == Init => SessionInv
BY DEF Init, Idle, NoFailure, SessionInv, Listings

LEMMA SessionNext ==
  ASSUME SessionInv, [Next]_vars
  PROVE  SessionInv'
<1>1. ASSUME Begin PROVE SessionInv'
  BY <1>1 DEF Begin, Idle, NoFailure, SessionInv, Listings
<1>2. ASSUME DockerStep PROVE SessionInv'
  <2>1. /\ DOMAIN session' = DOMAIN session /\ session'.docker = session.docker
        /\ session'.step \in {3, session.step + 1}
        /\ session'.step = session.step + 1 => session.step # 6
    BY <1>2, CommandsAreSix DEF DockerStep, SessionInv, Listings
  <2> QED
    BY <2>1 DEF SessionInv
<1>3. ASSUME DockerFails PROVE SessionInv'
  <2>1. PICK command \in Attempted, exit \in BOOLEAN, next \in {"persist", AfterDocker} :
          session' = [session EXCEPT
            !.docker = [command |-> command, exit |-> exit],
            !.listed = <<>>, !.links = {}, !.roots = FALSE, !.step = Listings, !.pc = next]
    BY <1>3 DEF DockerFails, Exits
  <2>2. command \in CommandName
    BY CommandsAreSix DEF Attempted, Command, Listings, SessionInv
  <2>3. /\ DOMAIN session' = DOMAIN session
        /\ session'.docker = [command |-> command, exit |-> exit] /\ session'.step = 3
    BY <2>1 DEF SessionInv, Listings
  <2> QED
    BY <2>2, <2>3 DEF SessionInv
<1>4. ASSUME RunSystemd PROVE SessionInv'
  <2>1. /\ DOMAIN session' = DOMAIN session /\ session'.docker = session.docker
        /\ session'.step = session.step
    BY <1>4 DEF RunSystemd, SessionInv
  <2> QED
    BY <2>1 DEF SessionInv
<1>5. ASSUME PersistSuccess \/ PersistFailure \/ Restart PROVE SessionInv'
  <2>1. session' = Idle
    BY <1>5 DEF PersistSuccess, PersistFailure, Restart
  <2> QED
    BY <2>1 DEF Idle, NoFailure, SessionInv, Listings
<1>6. CASE \/ Change \/ UNCHANGED vars
           \/ \E i \in DOMAIN pruner : PruneSelect(i) \/ PruneUpdate(i) \/ PruneDelete(i)
           \/ \E t \in Target : CreateTarget(t) \/ UpdateTarget(t)
  <2>1. session' = session
    BY <1>6 DEF Change, PruneSelect, PruneUpdate, PruneDelete, CreateTarget, UpdateTarget, vars
  <2> QED
    BY <2>1 DEF SessionInv
<1> QED
  BY <1>1, <1>2, <1>3, <1>4, <1>5, <1>6 DEF Next

-----------------------------------------------------------------------------
(* What a session proves                                                     *)

\* A provider is ready only if the session has proved it.
LEMMA ReadyIsProven ==
  ASSUME SessionInv
  PROVE  Ready \cap Unproven = {}
<1>1. Ready \subseteq Covered /\ ("systemd" \in Ready => session.systemd = "ok")
  BY DEF Ready, ReadyOfDocker, ReadyDespite
<1>2. session.docker.command # "none" => DockerFailed
  BY DEF DockerFailed, NoFailure
<1>3. ASSUME NEW p \in Ready, p \in {"docker", "compose"}, DockerFailed
      PROVE  /\ p # FailureProviderKind(session.docker)
             /\ Exited(session.docker, IF p = "docker" THEN "docker_version" ELSE "compose_ls")
  BY <1>3 DEF Ready, ReadyOfDocker, ReadyDespite
<1>4. CASE session.docker.command \in {"linux_identity", "docker_version"}
  <2>1. ~Exited(session.docker, "compose_ls") /\ FailureProviderKind(session.docker) = "docker"
    BY <1>4, ComposeIsThird DEF Exited, FailureProviderKind
  <2>2. "docker" \notin Ready /\ "compose" \notin Ready
    BY <1>2, <1>3, <1>4, <2>1
  <2> QED
    BY <1>1, <1>4, <2>2 DEF Unproven
<1>5. CASE session.docker.command \in {"compose_ls", "containers", "resources"}
  <2>1. FailureProviderKind(session.docker) =
          IF session.docker.command = "compose_ls" THEN "compose" ELSE "docker"
    BY <1>5 DEF FailureProviderKind
  <2>2. FailureProviderKind(session.docker) \notin Ready
    BY <1>2, <1>3, <1>5, <2>1
  <2> QED
    BY <1>1, <1>5, <2>1, <2>2 DEF Unproven
<1>6. CASE session.docker.command \in {"none", "documents"}
  BY <1>1, <1>6 DEF Unproven
<1> QED
  BY <1>4, <1>5, <1>6 DEF SessionInv, CommandName

-----------------------------------------------------------------------------
(* The catalog and the targets                                               *)

\* What is fresh is not stale, and a target that is not there has no history.
CatalogInv ==
  /\ catalog \in [Deployment -> [state : {"none", "observed", "unassigned", "stale"},
                                 fresh : {"none", "fresh", "stale", "unavailable"}]]
  /\ target \in [Target -> [state : {"none", "confirmed", "stale", "archived"},
                            by : {"none", "discovery", "owner"}]]
  /\ \A d \in Deployment : catalog[d].fresh = "fresh" => catalog[d].state # "stale"
  /\ \A t \in Target : target[t].state = "none" => target[t].by = "none"

\* What the transaction of a run makes of a deployment.
LEMMA CatalogAfterRun ==
  ASSUME CatalogInv, NEW d \in Deployment
  PROVE  /\ CatalogAfter[d] \in [state : {"none", "observed", "unassigned", "stale"},
                                 fresh : {"none", "fresh", "stale", "unavailable"}]
         /\ d \in Observed => CatalogAfter[d].fresh = "fresh" /\ CatalogAfter[d].state # "stale"
         /\ d \in Missing => /\ d \notin Observed /\ KindOf[d] \in Ready
                             /\ CatalogAfter[d].fresh = "stale" /\ CatalogAfter[d].state = "stale"
         /\ d \notin Observed \cup Missing =>
              /\ CatalogAfter[d].state = catalog[d].state
              /\ CatalogAfter[d].fresh \in {catalog[d].fresh, "unavailable"}
<1>1. catalog[d] \in [state : {"none", "observed", "unassigned", "stale"},
                      fresh : {"none", "fresh", "stale", "unavailable"}]
  BY DEF CatalogInv
<1>2. Missing \cap Observed = {} /\ (d \in Missing => KindOf[d] \in Ready)
  BY DEF Missing
<1>3. Unknown \cap Observed = {} /\ (d \in Unknown => d \notin Missing)
  BY DEF Unknown, Missing
<1>4. CASE d \in Observed
  BY <1>1, <1>2, <1>3, <1>4 DEF CatalogAfter
<1>5. CASE d \in Missing
  BY <1>2, <1>3, <1>5 DEF CatalogAfter
<1>6. CASE d \in Unknown
  <2>1. CatalogAfter[d] = [catalog[d] EXCEPT !.fresh = "unavailable"]
    BY <1>3, <1>6 DEF CatalogAfter
  <2> QED
    BY <1>1, <1>3, <1>6, <2>1
<1>7. CASE d \notin Observed \cup Missing \cup Unknown
  <2>1. CatalogAfter[d] = catalog[d]
    BY <1>7 DEF CatalogAfter
  <2> QED
    BY <1>1, <1>7, <2>1
<1> QED
  BY <1>4, <1>5, <1>6, <1>7

LEMMA CatalogNext ==
  ASSUME CatalogInv, TargetsFollowDiscovery, [Next]_vars
  PROVE  CatalogInv' /\ TargetsFollowDiscovery'
<1>t. \A t \in Target : TargetOf[t] \in Deployment
  BY TargetsAssumption
<1>1. ASSUME PersistSuccess PROVE CatalogInv' /\ TargetsFollowDiscovery'
  <2>1. /\ catalog' = CatalogAfter
        /\ target' = [t \in Target |-> TargetAfter(t)]
    BY <1>1 DEF PersistSuccess
  <2>2. \A d \in Deployment :
          /\ catalog'[d] \in [state : {"none", "observed", "unassigned", "stale"},
                              fresh : {"none", "fresh", "stale", "unavailable"}]
          /\ catalog'[d].fresh = "fresh" => catalog'[d].state # "stale"
    BY <2>1, CatalogAfterRun DEF CatalogInv
  <2>3. DOMAIN catalog' = Deployment /\ catalog' = [d \in Deployment |-> catalog'[d]]
    BY <2>1 DEF CatalogAfter
  <2>4. ASSUME NEW t \in Target
        PROVE  /\ target'[t] \in [state : {"none", "confirmed", "stale", "archived"},
                                  by : {"none", "discovery", "owner"}]
               /\ target'[t].state = "none" => target'[t].by = "none"
    BY <2>1 DEF TargetAfter, CatalogInv
  <2>5. ASSUME NEW t \in Target, target'[t].by = "discovery", target'[t].state # "archived"
        PROVE  /\ target'[t].state = "confirmed" => catalog'[TargetOf[t]].state # "stale"
               /\ catalog'[TargetOf[t]].fresh = "fresh" => target'[t].state = "confirmed"
               /\ catalog'[TargetOf[t]].fresh = "stale" => target'[t].state = "stale"
    <3> DEFINE d == TargetOf[t]
    <3>1. d \in Deployment /\ target[t].state # "none" /\ target[t].state # "archived"
      BY <1>t, <2>1, <2>5 DEF TargetAfter, CatalogInv
    <3>2. CASE d \in Observed
      BY <2>1, <3>1, <3>2, CatalogAfterRun DEF TargetAfter
    <3>3. CASE d \in Missing
      BY <2>1, <3>1, <3>3, CatalogAfterRun DEF TargetAfter
    <3>4. CASE d \notin Observed \cup Missing
      <4>1. target'[t] = target[t]
        BY <2>1, <3>1, <3>4 DEF TargetAfter
      <4> QED
        BY <2>1, <2>5, <3>1, <3>4, <4>1, CatalogAfterRun DEF TargetsFollowDiscovery
    <3> QED
      BY <3>2, <3>3, <3>4
  <2>6. target' \in [Target -> [state : {"none", "confirmed", "stale", "archived"},
                                by : {"none", "discovery", "owner"}]]
    BY <2>1, <2>4
  <2> QED
    BY <2>2, <2>3, <2>4, <2>5, <2>6 DEF CatalogInv, TargetsFollowDiscovery
<1>2. ASSUME NEW t \in Target, CreateTarget(t) PROVE CatalogInv' /\ TargetsFollowDiscovery'
  <2> DEFINE new == [state |-> NewTargetState(TargetOf[t]), by |-> "discovery"]
  <2>1. catalog' = catalog /\ target' = [target EXCEPT ![t] = new]
    BY <1>2 DEF CreateTarget
  <2>2. new.state \in {"confirmed", "stale"} /\ new.by = "discovery"
    BY DEF NewTargetState
  <2> QED
    BY <1>t, <2>1, <2>2 DEF CatalogInv, TargetsFollowDiscovery, NewTargetState
<1>3. ASSUME NEW t \in Target, UpdateTarget(t) PROVE CatalogInv' /\ TargetsFollowDiscovery'
  <2>1. PICK state \in {"confirmed", "stale", "archived"} :
          /\ catalog' = catalog
          /\ target' = [target EXCEPT ![t] = [state |-> state, by |-> "owner"]]
    BY <1>3 DEF UpdateTarget
  <2> QED
    BY <2>1 DEF CatalogInv, TargetsFollowDiscovery
<1>4. CASE \/ Change \/ Begin \/ DockerStep \/ DockerFails \/ RunSystemd \/ PersistFailure
           \/ \E i \in DOMAIN pruner : PruneSelect(i) \/ PruneUpdate(i) \/ PruneDelete(i)
           \/ Restart \/ UNCHANGED vars
  <2>1. UNCHANGED <<catalog, target>>
    BY <1>4 DEF Change, Begin, DockerStep, DockerFails, RunSystemd, PersistFailure, PruneSelect,
                PruneUpdate, PruneDelete, Restart, vars
  <2> QED
    BY <2>1 DEF CatalogInv, TargetsFollowDiscovery
<1> QED
  BY <1>1, <1>2, <1>3, <1>4 DEF Next

-----------------------------------------------------------------------------
(* The evidence                                                              *)

\* A pruner has old runs to do; the one it is at is summarised before its
\* items go.
PrunersInv ==
  \A i \in DOMAIN pruner :
    /\ pruner[i].todo \subseteq Older
    /\ pruner[i].pc = "delete" =>
         \A k \in pruner[i].todo :
           (\A j \in pruner[i].todo : j <= k) => run[k].retention = "summary"

\* The run of a session is the last one.
EvidenceInv ==
  /\ run \in Seq(Row)
  /\ session.pc # "idle" => run # <<>> /\ run[Len(run)].state = "running"
  /\ PrunersInv
  /\ EvidenceKept

\* Runs are added and end, and lose their evidence when they are old.
Ages ==
  /\ run \in Seq(Row) /\ run' \in Seq(Row) /\ Len(run) <= Len(run')
  /\ \A i \in DOMAIN run' :
       \/ i \in DOMAIN run /\ run'[i] = run[i]
       \/ /\ i \in DOMAIN run => run[i].state = "running"
          /\ run'[i].state # "succeeded" /\ run'[i].retention # "complete"
       \/ /\ i \in DOMAIN run /\ run[i].state = "running"
          /\ run'[i].retention = "complete" /\ run'[i].json /\ run'[i].items
       \/ /\ i \in Older
          /\ run'[i].state = "succeeded" /\ run'[i].retention = "summary"

LEMMA OldStaysOld ==
  ASSUME Ages
  PROVE  /\ Older \subseteq Older'
         /\ \A k \in Older : run[k].retention = "summary" => run'[k].retention = "summary"
         /\ EvidenceKept => EvidenceKept'
<1> USE DEF Ages
<1>1. /\ DOMAIN run = 1..Len(run) /\ DOMAIN run' = 1..Len(run')
      /\ Len(run) \in Nat /\ Len(run') \in Nat
  OBVIOUS
<1>2. \A i \in DOMAIN run : i \in DOMAIN run' /\ (run[i].state = "succeeded" => run'[i].state = "succeeded")
  BY <1>1 DEF Older
<1>3. \A i \in DOMAIN run : Cardinality(Newer(i)) <= Cardinality(Newer(i)')
                              /\ Cardinality(Newer(i)) \in Nat /\ Cardinality(Newer(i)') \in Nat
  <2> TAKE i \in DOMAIN run
  <2>1. PICK old : old = Newer(i)
    OBVIOUS
  <2>2. PICK new : new = Newer(i)'
    OBVIOUS
  <2>3. old \in SUBSET new /\ new \in SUBSET (1..Len(run'))
    BY <1>1, <1>2, <2>1, <2>2 DEF Newer
  <2>4. IsFiniteSet(1..Len(run'))
    BY <1>1, FS_Interval
  <2>5. IsFiniteSet(new)
    BY <2>3, <2>4, FS_Subset
  <2>6. IsFiniteSet(old) /\ Cardinality(old) <= Cardinality(new)
    BY <2>3, <2>5, FS_Subset
  <2>7. Cardinality(old) \in Nat /\ Cardinality(new) \in Nat
    BY <2>5, <2>6, FS_CardinalityType
  <2> QED
    BY <2>1, <2>2, <2>6, <2>7
<1>4. Older \subseteq Older'
  BY <1>2, <1>3, RetainedAssumption DEF Older
<1>5. \A k \in Older : run[k].retention = "summary" => run'[k].retention = "summary"
  BY <1>1, <1>2 DEF Older
<1>6. ASSUME EvidenceKept, NEW i \in DOMAIN run'
      PROVE  /\ run'[i].state = "succeeded" /\ Cardinality(Newer(i)') < Retained
                  => run'[i].retention = "complete"
             /\ run'[i].retention = "complete" => run'[i].json /\ run'[i].items
  <2>1. CASE i \in DOMAIN run /\ run'[i] = run[i]
    BY <1>3, <1>6, <2>1, RetainedAssumption DEF EvidenceKept
  <2>2. CASE run'[i].state # "succeeded" /\ run'[i].retention # "complete"
    BY <2>2
  <2>3. CASE run'[i].retention = "complete" /\ run'[i].json /\ run'[i].items
    BY <2>3
  <2>4. CASE i \in Older /\ run'[i].state = "succeeded" /\ run'[i].retention = "summary"
    <3>1. Cardinality(Newer(i)') >= Retained
      BY <1>3, <2>4, RetainedAssumption DEF Older
    <3>2. Cardinality(Newer(i)') \in Nat
      BY <1>3, <2>4 DEF Older
    <3> QED
      BY <2>4, <3>1, <3>2, RetainedAssumption
  <2> QED
    BY <2>1, <2>2, <2>3, <2>4
<1> QED
  BY <1>4, <1>5, <1>6 DEF EvidenceKept

\* A pruner that is where it was stays right, and so does one that begins.
LEMMA PrunersStay ==
  ASSUME PrunersInv, Ages,
         NEW i \in DOMAIN pruner',
         pruner'[i].todo = {} \/ (i \in DOMAIN pruner /\ pruner'[i] = pruner[i])
  PROVE  /\ pruner'[i].todo \subseteq Older'
         /\ pruner'[i].pc = "delete" =>
              \A k \in pruner'[i].todo :
                (\A j \in pruner'[i].todo : j <= k) => run'[k].retention = "summary"
BY OldStaysOld DEF PrunersInv

LEMMA OneRunAges ==
  ASSUME run \in Seq(Row), NEW k \in DOMAIN run, NEW row \in Row, run' = [run EXCEPT ![k] = row],
         \/ run[k].state = "running" /\ row.state # "succeeded" /\ row.retention # "complete"
         \/ run[k].state = "running" /\ row.retention = "complete" /\ row.json /\ row.items
         \/ k \in Older /\ row.state = "succeeded" /\ row.retention = "summary"
  PROVE  Ages /\ run' \in Seq(Row) /\ Len(run') = Len(run) /\ run'[k] = row
         /\ \A i \in DOMAIN run : i # k => run'[i] = run[i]
<1>1. run' \in Seq(Row) /\ Len(run') = Len(run) /\ DOMAIN run' = DOMAIN run /\ run'[k] = row
      /\ \A i \in DOMAIN run : i # k => run'[i] = run[i]
  OBVIOUS
<1>2. Len(run) \in Nat
  OBVIOUS
<1>3. \A i \in DOMAIN run' :
        \/ i \in DOMAIN run /\ run'[i] = run[i]
        \/ /\ i \in DOMAIN run => run[i].state = "running"
           /\ run'[i].state # "succeeded" /\ run'[i].retention # "complete"
        \/ /\ i \in DOMAIN run /\ run[i].state = "running"
           /\ run'[i].retention = "complete" /\ run'[i].json /\ run'[i].items
        \/ /\ i \in Older
           /\ run'[i].state = "succeeded" /\ run'[i].retention = "summary"
  <2> TAKE i \in DOMAIN run'
  <2>1. CASE i = k
    BY <1>1, <2>1
  <2>2. CASE i # k
    BY <1>1, <2>2
  <2> QED
    BY <2>1, <2>2
<1> QED
  BY <1>1, <1>2, <1>3 DEF Ages

LEMMA EvidenceInit == Init => EvidenceInv
<1> SUFFICES ASSUME Init PROVE EvidenceInv
  OBVIOUS
<1>1. run = <<>> /\ pruner = <<>> /\ session.pc = "idle"
  BY DEF Init, Idle
<1>2. DOMAIN run = {} /\ DOMAIN pruner = {}
  BY <1>1
<1> QED
  BY <1>1, <1>2 DEF EvidenceInv, PrunersInv, EvidenceKept

LEMMA EvidenceNext ==
  ASSUME SessionInv, EvidenceInv, [Next]_vars
  PROVE  EvidenceInv'
<1>0. /\ run \in Seq(Row) /\ Len(run) \in Nat /\ DOMAIN run = 1..Len(run)
      /\ PrunersInv /\ EvidenceKept
      /\ session.pc # "idle" => run # <<>> /\ run[Len(run)].state = "running"
  BY DEF EvidenceInv
<1>1. ASSUME Ages, EvidenceKept, run' \in Seq(Row),
             session'.pc # "idle" => run' # <<>> /\ run'[Len(run')].state = "running",
             PrunersInv'
      PROVE  EvidenceInv'
  BY <1>1, OldStaysOld DEF EvidenceInv
<1>2. ASSUME Begin PROVE EvidenceInv'
  <2> DEFINE row == [state |-> "running", retention |-> "none", json |-> FALSE, items |-> FALSE]
  <2>1. run' = Append(run, row) /\ row \in Row
    BY <1>2 DEF Begin, Row
  <2>2. row.state = "running" /\ row.retention = "none"
    OBVIOUS
  <2> HIDE DEF row
  <2>3. /\ run' \in Seq(Row) /\ Len(run') = Len(run) + 1 /\ run'[Len(run')] = row
        /\ \A i \in DOMAIN run : run'[i] = run[i]
        /\ DOMAIN run' = 1..(Len(run) + 1)
    BY <1>0, <2>1
  <2>4. Ages
    <3>1. \A i \in DOMAIN run' : i \in DOMAIN run \/ (i = Len(run) + 1 /\ i \notin DOMAIN run)
      BY <1>0, <2>3
    <3>2. Len(run) <= Len(run')
      BY <1>0, <2>3
    <3>3. \A i \in DOMAIN run' :
             \/ i \in DOMAIN run /\ run'[i] = run[i]
             \/ /\ i \notin DOMAIN run
                /\ run'[i].state # "succeeded" /\ run'[i].retention # "complete"
      <4> TAKE i \in DOMAIN run'
      <4>1. CASE i \in DOMAIN run
        BY <2>3, <4>1
      <4>2. CASE i = Len(run) + 1 /\ i \notin DOMAIN run
        <5>1. run'[i] = row
          BY <2>3, <4>2
        <5> QED
          BY <2>2, <4>2, <5>1
      <4> QED
        BY <3>1, <4>1, <4>2
    <3> QED
      BY <1>0, <2>3, <3>2, <3>3 DEF Ages
  <2>5. pruner' = pruner
    BY <1>2 DEF Begin
  <2>6. PrunersInv'
    BY <1>0, <2>4, <2>5, PrunersStay DEF PrunersInv
  <2>7. run' # <<>> /\ run'[Len(run')].state = "running"
    BY <1>0, <2>2, <2>3
  <2> QED
    BY <1>0, <1>1, <2>3, <2>4, <2>6, <2>7
<1>3. ASSUME run' = run, pruner' = pruner, session'.pc # "idle" => session.pc # "idle"
      PROVE  EvidenceInv'
  <2>1. Ages
    BY <1>0, <1>3 DEF Ages
  <2>2. PrunersInv'
    BY <1>0, <1>3, <2>1, PrunersStay DEF PrunersInv
  <2> QED
    BY <1>0, <1>1, <1>3, <2>1, <2>2
<1>4. CASE DockerStep \/ DockerFails \/ RunSystemd
  <2>1. run' = run /\ pruner' = pruner /\ session.pc \in {"docker", "systemd"}
    BY <1>4 DEF DockerStep, DockerFails, RunSystemd
  <2> QED
    BY <1>3, <2>1
<1>5. CASE Change \/ (\E t \in Target : CreateTarget(t) \/ UpdateTarget(t)) \/ UNCHANGED vars
  <2>1. run' = run /\ pruner' = pruner /\ session' = session
    BY <1>5 DEF Change, CreateTarget, UpdateTarget, vars
  <2> QED
    BY <1>3, <2>1
<1>6. ASSUME PersistSuccess \/ PersistFailure PROVE EvidenceInv'
  <2> DEFINE n    == Len(run)
             done == [state |-> "succeeded", retention |-> "complete", json |-> TRUE, items |-> TRUE]
             row  == IF PersistSuccess THEN done ELSE Unsuccessful(run[n])
  <2>1. n \in DOMAIN run /\ run[n].state = "running" /\ run[n] \in Row
    BY <1>0, <1>6 DEF PersistSuccess, PersistFailure
  <2>2. run' = [run EXCEPT ![n] = row] /\ session' = Idle
    BY <1>6 DEF PersistSuccess, PersistFailure
  <2>3. row \in Row
    BY <2>1 DEF Row, Unsuccessful
  <2>4. \/ row.state # "succeeded" /\ row.retention # "complete"
        \/ row.retention = "complete" /\ row.json /\ row.items
    BY DEF Unsuccessful
  <2> HIDE DEF row, n
  <2>5. Ages /\ run' \in Seq(Row)
    BY <1>0, <2>1, <2>2, <2>3, <2>4, OneRunAges
  <2>6. \A i \in DOMAIN pruner' :
           pruner'[i].todo = {} \/ (i \in DOMAIN pruner /\ pruner'[i] = pruner[i])
    BY <1>6 DEF PersistSuccess, PersistFailure
  <2>7. PrunersInv'
    BY <1>0, <2>5, <2>6, PrunersStay DEF PrunersInv
  <2>8. session'.pc = "idle"
    BY <2>2 DEF Idle
  <2> QED
    BY <1>0, <1>1, <2>5, <2>7, <2>8
<1>7. ASSUME NEW i \in DOMAIN pruner, PruneSelect(i) PROVE EvidenceInv'
  <2>1. run' = run /\ session' = session
    BY <1>7 DEF PruneSelect
  <2>2. Ages
    BY <1>0, <2>1 DEF Ages
  <2>3. ASSUME NEW j \in DOMAIN pruner'
        PROVE  \/ pruner'[j].pc = "update" /\ pruner'[j].todo = Older
               \/ j \in DOMAIN pruner /\ pruner'[j] = pruner[j]
    BY <1>7, <2>3 DEF PruneSelect, Drop
  <2>4. PrunersInv'
    <3> SUFFICES ASSUME NEW j \in DOMAIN pruner'
                 PROVE  /\ pruner'[j].todo \subseteq Older'
                        /\ pruner'[j].pc = "delete" =>
                             \A k \in pruner'[j].todo :
                               (\A l \in pruner'[j].todo : l <= k) => run'[k].retention = "summary"
      BY DEF PrunersInv
    <3>1. CASE pruner'[j].pc = "update" /\ pruner'[j].todo = Older
      BY <2>2, <3>1, OldStaysOld
    <3>2. CASE j \in DOMAIN pruner /\ pruner'[j] = pruner[j]
      BY <1>0, <2>2, <3>2, PrunersStay
    <3> QED
      BY <2>3, <3>1, <3>2
  <2> QED
    BY <1>0, <1>1, <2>1, <2>2, <2>4
\* An update and a delete take the newest run there is to do.
<1>8. ASSUME NEW i \in DOMAIN pruner, PruneUpdate(i) PROVE EvidenceInv'
  <2>1. PICK k \in pruner[i].todo :
          /\ \A j \in pruner[i].todo : j <= k
          /\ run' = [run EXCEPT ![k] = Summary(run[k])]
    BY <1>8 DEF PruneUpdate
  <2>2. PICK row : row = Summary(run[k])
    OBVIOUS
  <2>3. k \in Older /\ k \in DOMAIN run /\ run[k] \in Row /\ run[k].state = "succeeded"
    BY <1>0, <2>1 DEF PrunersInv, Older
  <2>4. row \in Row /\ row.state = "succeeded" /\ row.retention = "summary"
    BY <2>2, <2>3 DEF Summary, Row
  <2>5. /\ Ages /\ run' \in Seq(Row) /\ Len(run') = Len(run) /\ run'[k] = row
        /\ \A j \in DOMAIN run : j # k => run'[j] = run[j]
    BY <1>0, <2>1, <2>2, <2>3, <2>4, OneRunAges
  <2>6. /\ pruner' = [pruner EXCEPT ![i] = [pc |-> "delete", todo |-> pruner[i].todo]]
        /\ session' = session
    BY <1>8 DEF PruneUpdate
  <2>7. PrunersInv'
    <3> SUFFICES ASSUME NEW j \in DOMAIN pruner'
                 PROVE  /\ pruner'[j].todo \subseteq Older'
                        /\ pruner'[j].pc = "delete" =>
                             \A m \in pruner'[j].todo :
                               (\A l \in pruner'[j].todo : l <= m) => run'[m].retention = "summary"
      BY DEF PrunersInv
    <3>1. CASE j = i
      <4>1. pruner'[j].todo = pruner[i].todo
        BY <2>6, <3>1
      <4>2. pruner'[j].todo \subseteq Older'
        BY <1>0, <2>5, <4>1, OldStaysOld DEF PrunersInv
      <4>3. ASSUME NEW m \in pruner[i].todo, \A l \in pruner[i].todo : l <= m PROVE m = k
        <5>1. m \in Nat /\ k \in Nat /\ m <= k /\ k <= m
          BY <1>0, <2>1, <2>3, <4>3 DEF PrunersInv, Older
        <5> QED
          BY <5>1
      <4> QED
        BY <2>4, <2>5, <4>1, <4>2, <4>3
    <3>2. CASE j # i
      <4>1. j \in DOMAIN pruner /\ pruner'[j] = pruner[j]
        BY <2>6, <3>2
      <4> QED
        BY <1>0, <2>5, <4>1, PrunersStay
    <3> QED
      BY <3>1, <3>2
  <2>8. run'[Len(run')].state = run[Len(run)].state /\ (run # <<>> => run' # <<>>)
    <3>1. CASE run = <<>>
      BY <1>0, <2>3, <3>1
    <3>2. CASE run # <<>>
      BY <1>0, <2>3, <2>4, <2>5, <3>2
    <3> QED
      BY <3>1, <3>2
  <2> QED
    BY <1>0, <1>1, <2>5, <2>6, <2>7, <2>8
<1>9. ASSUME NEW i \in DOMAIN pruner, PruneDelete(i) PROVE EvidenceInv'
  <2>1. PICK k \in pruner[i].todo :
          /\ \A j \in pruner[i].todo \ {k} : j <= k
          /\ run' = [run EXCEPT ![k] = [run[k] EXCEPT !.items = FALSE]]
          /\ pruner' = IF pruner[i].todo \ {k} = {} THEN Drop(i)
                       ELSE [pruner EXCEPT ![i] = [pc |-> "update", todo |-> pruner[i].todo \ {k}]]
    BY <1>9 DEF PruneDelete
  <2>2. PICK row : row = [run[k] EXCEPT !.items = FALSE]
    OBVIOUS
  <2>3. /\ k \in Older /\ k \in DOMAIN run /\ run[k] \in Row /\ run[k].state = "succeeded"
        /\ k <= k
    BY <1>0, <2>1 DEF PrunersInv, Older
  <2>4. run[k].retention = "summary"
    BY <1>0, <1>9, <2>1, <2>3 DEF PrunersInv, PruneDelete
  <2>5. row \in Row /\ row.state = "succeeded" /\ row.retention = "summary"
    BY <2>2, <2>3, <2>4 DEF Row
  <2>6. /\ Ages /\ run' \in Seq(Row) /\ Len(run') = Len(run) /\ run'[k] = row
        /\ \A j \in DOMAIN run : j # k => run'[j] = run[j]
    BY <1>0, <2>1, <2>2, <2>3, <2>5, OneRunAges
  <2>7. ASSUME NEW j \in DOMAIN pruner'
        PROVE  \/ pruner'[j].pc = "update" /\ pruner'[j].todo \subseteq pruner[i].todo
               \/ j \in DOMAIN pruner /\ pruner'[j] = pruner[j]
    BY <2>1, <2>7 DEF Drop
  <2>8. PrunersInv'
    <3> SUFFICES ASSUME NEW j \in DOMAIN pruner'
                 PROVE  /\ pruner'[j].todo \subseteq Older'
                        /\ pruner'[j].pc = "delete" =>
                             \A m \in pruner'[j].todo :
                               (\A l \in pruner'[j].todo : l <= m) => run'[m].retention = "summary"
      BY DEF PrunersInv
    <3>1. CASE pruner'[j].pc = "update" /\ pruner'[j].todo \subseteq pruner[i].todo
      <4>1. Older \subseteq Older'
        BY <2>6, OldStaysOld
      <4> QED
        BY <1>0, <3>1, <4>1 DEF PrunersInv
    <3>2. CASE j \in DOMAIN pruner /\ pruner'[j] = pruner[j]
      BY <1>0, <2>6, <3>2, PrunersStay
    <3> QED
      BY <2>7, <3>1, <3>2
  <2>9. run'[Len(run')].state = run[Len(run)].state /\ (run # <<>> => run' # <<>>)
    <3>1. CASE run = <<>>
      BY <1>0, <2>3, <3>1
    <3>2. CASE run # <<>>
      BY <1>0, <2>3, <2>5, <2>6, <3>2
    <3> QED
      BY <3>1, <3>2
  <2>10. session' = session
    BY <1>9 DEF PruneDelete
  <2> QED
    BY <1>0, <1>1, <2>6, <2>8, <2>9, <2>10
<1>10. ASSUME Restart PROVE EvidenceInv'
  <2>1. /\ run' = [j \in DOMAIN run |-> IF run[j].state = "running" THEN Unsuccessful(run[j])
                                        ELSE run[j]]
        /\ session' = Idle /\ pruner' = <<>>
    BY <1>10 DEF Restart
  <2>2. ASSUME NEW j \in DOMAIN run PROVE run'[j] \in Row
    <3>1. run[j] \in Row
      BY <1>0
    <3>2. Unsuccessful(run[j]) \in Row
      BY <3>1 DEF Unsuccessful, Row
    <3> QED
      BY <2>1, <3>1, <3>2
  <2>3. run' \in Seq(Row) /\ Len(run') = Len(run)
    <3>1. DOMAIN run' = 1..Len(run) /\ run' = [j \in 1..Len(run) |-> run'[j]]
      BY <1>0, <2>1
    <3>2. run' \in [1..Len(run) -> Row]
      BY <1>0, <2>2, <3>1
    <3> QED
      BY <1>0, <3>2
  <2>4. Ages
    <3>1. \A j \in DOMAIN run' :
             \/ j \in DOMAIN run /\ run'[j] = run[j]
             \/ /\ j \in DOMAIN run => run[j].state = "running"
                /\ run'[j].state # "succeeded" /\ run'[j].retention # "complete"
      <4> TAKE j \in DOMAIN run'
      <4>1. j \in DOMAIN run
        BY <2>1
      <4>2. CASE run[j].state = "running"
        <5>1. run'[j] = Unsuccessful(run[j])
          BY <2>1, <4>1, <4>2
        <5> QED
          BY <4>2, <5>1 DEF Unsuccessful
      <4>3. CASE run[j].state # "running"
        BY <2>1, <4>1, <4>3
      <4> QED
        BY <4>1, <4>2, <4>3
    <3> QED
      BY <1>0, <2>3, <3>1 DEF Ages
  <2>5. PrunersInv'
    BY <2>1 DEF PrunersInv
  <2>6. session'.pc = "idle"
    BY <2>1 DEF Idle
  <2> QED
    BY <1>0, <1>1, <2>3, <2>4, <2>5, <2>6
<1> QED
  BY <1>2, <1>4, <1>5, <1>6, <1>7, <1>8, <1>9, <1>10 DEF Next

-----------------------------------------------------------------------------
(* The types                                                                 *)

LEMMA TypesNext ==
  ASSUME TypeOK, CatalogInv', EvidenceInv', [Next]_vars
  PROVE  TypeOK'
<1>1. /\ run' \in Seq(Row)
      /\ catalog' \in [Deployment -> [state : {"none", "observed", "unassigned", "stale"},
                                      fresh : {"none", "fresh", "stale", "unavailable"}]]
      /\ target' \in [Target -> [state : {"none", "confirmed", "stale", "archived"},
                                 by : {"none", "discovery", "owner"}]]
  BY DEF CatalogInv, EvidenceInv
<1>2. world' \subseteq Deployment \cup Link
  <2>1. CASE Change
    BY <2>1 DEF Change, TypeOK
  <2>2. CASE ~Change
    <3>1. world' = world
      BY <2>2 DEF Next, Begin, DockerStep, DockerFails, RunSystemd, PersistSuccess, PersistFailure,
                  PruneSelect, PruneUpdate, PruneDelete, CreateTarget, UpdateTarget, Restart, vars
    <3> QED
      BY <3>1 DEF TypeOK
  <2> QED
    BY <2>1, <2>2
<1>3. link' \in [Link -> {"none", "observed", "stale"}]
  <2>1. CASE PersistSuccess
    BY <2>1 DEF PersistSuccess, LinkAfter, TypeOK
  <2>2. CASE ~PersistSuccess
    <3>1. link' = link
      BY <2>2 DEF Next, Change, Begin, DockerStep, DockerFails, RunSystemd, PersistFailure,
                  PruneSelect, PruneUpdate, PruneDelete, CreateTarget, UpdateTarget, Restart, vars
    <3> QED
      BY <3>1 DEF TypeOK
  <2> QED
    BY <2>1, <2>2
<1>4. session'.pc \in {"idle", "docker", "systemd", "persist"} /\ session'.request \in Request
  <2>0. Idle.pc = "idle" /\ Idle.request \in Request
    BY DEF Idle, Request
  <2>1. CASE Begin
    BY <2>1 DEF Begin, Idle, WantsDocker
  <2>2. CASE DockerStep
    BY <2>2 DEF DockerStep, AfterDocker, TypeOK
  <2>3. CASE DockerFails
    BY <2>3 DEF DockerFails, AfterDocker, TypeOK
  <2>4. CASE RunSystemd
    BY <2>4 DEF RunSystemd, TypeOK
  <2>5. CASE PersistSuccess \/ PersistFailure \/ Restart
    BY <2>0, <2>5 DEF PersistSuccess, PersistFailure, Restart
  <2>6. CASE \/ Change \/ UNCHANGED vars
             \/ \E i \in DOMAIN pruner : PruneSelect(i) \/ PruneUpdate(i) \/ PruneDelete(i)
             \/ \E t \in Target : CreateTarget(t) \/ UpdateTarget(t)
    <3>1. session' = session
      BY <2>6 DEF Change, PruneSelect, PruneUpdate, PruneDelete, CreateTarget, UpdateTarget, vars
    <3> QED
      BY <3>1 DEF TypeOK
  <2> QED
    BY <2>1, <2>2, <2>3, <2>4, <2>5, <2>6 DEF Next
<1> QED
  BY <1>1, <1>2, <1>3, <1>4 DEF TypeOK

-----------------------------------------------------------------------------
(* The theorems                                                              *)

IInv == TypeOK /\ SessionInv /\ CatalogInv /\ TargetsFollowDiscovery /\ EvidenceInv

\* Sessions are at one of their commands, targets agree with the catalog, and
\* what is being pruned is old.
THEOREM DiscoveryInvariant == Spec => []IInv
<1>1. Init => IInv
  <2>1. Init => CatalogInv /\ TargetsFollowDiscovery
    BY DEF Init, CatalogInv, TargetsFollowDiscovery, Absent, Unbound
  <2>2. Init => TypeOK
    BY DEF Init, TypeOK, Idle, Request, Absent, Unbound
  <2> QED
    BY <2>1, <2>2, SessionInit, EvidenceInit DEF IInv
<1>2. IInv /\ [Next]_vars => IInv'
  BY SessionNext, CatalogNext, EvidenceNext, TypesNext DEF IInv
<1> QED
  BY <1>1, <1>2, PTL DEF Spec

\* A target its owner has not set since says what is known of its deployment,
\* whatever providers fail (persist_observed_deployment,
\* persist_missing_observation, create_project_target).
THEOREM TargetsInvariant == Spec => []TargetsFollowDiscovery
<1>1. IInv => TargetsFollowDiscovery
  BY DEF IInv
<1> QED
  BY <1>1, DiscoveryInvariant, PTL

\* A provider that was not asked for, or whose own commands did not all
\* succeed, makes no deployment and no link stale (coverage_for_failure).
THEOREM FailuresProveNothing == Spec => FailedProviderProvesNothing
<1>1. IInv /\ [Next]_vars => [FailureProvesNothing]_vars
  <2> SUFFICES ASSUME IInv, [Next]_vars, ~UNCHANGED vars
               PROVE  GoneStale \cap Unproven = {}
    BY DEF FailureProvesNothing
  <2>1. CASE PersistSuccess
    <3>1. catalog' = CatalogAfter /\ link' = [l \in Link |-> LinkAfter(l)]
      BY <2>1 DEF PersistSuccess
    <3>2. ASSUME NEW d \in Deployment, catalog[d].state # "stale", catalog'[d].state = "stale"
          PROVE  KindOf[d] \in Ready
      BY <3>1, <3>2, CatalogAfterRun DEF IInv
    <3>3. ASSUME NEW l \in Link, link[l] # "stale", link'[l] = "stale"
          PROVE  LinkBy[l] \in Ready
      BY <3>1, <3>3 DEF LinkAfter
    <3>4. GoneStale \subseteq Ready
      BY <3>2, <3>3 DEF GoneStale
    <3> QED
      BY <3>4, ReadyIsProven DEF IInv
  <2>2. CASE ~PersistSuccess
    <3>1. UNCHANGED <<catalog, link>>
      BY <2>2 DEF Next, Change, Begin, DockerStep, DockerFails, RunSystemd, PersistFailure,
                  PruneSelect, PruneUpdate, PruneDelete, CreateTarget, UpdateTarget, Restart
    <3>2. GoneStale = {}
      BY <3>1 DEF GoneStale
    <3> QED
      BY <3>2
  <2> QED
    BY <2>1, <2>2
<1> QED
  BY <1>1, DiscoveryInvariant, PTL DEF Spec, FailedProviderProvesNothing

\* The state of the discovery of a host is of its types, through every
\* interleaving of sessions, pruners, edits and restarts.
THEOREM DiscoveryTypes == Spec => []TypeOK
<1>1. IInv => TypeOK
  BY DEF IInv
<1> QED
  BY <1>1, DiscoveryInvariant, PTL

\* The newest successful runs keep their evidence whole, whichever tasks prune
\* or are cut off, and evidence that is said to be complete is there
\* (prune_complete_runs).
THEOREM EvidenceInvariant == Spec => []EvidenceKept
<1>1. IInv => EvidenceKept
  BY DEF IInv, EvidenceInv
<1> QED
  BY <1>1, DiscoveryInvariant, PTL

=============================================================================
