-------------------------- MODULE DeploymentCatalog --------------------------
(***************************************************************************)
(* What a discovery makes of a host's deployments: the session with its    *)
(* steps and failures, the coverage of each provider that is derived from  *)
(* them, the transaction that brings the catalog, the project targets and  *)
(* the resource links up to date, and the retention of evidence            *)
(* (discovery.rs, m1.rs, catalog.rs, api/catalog_api.rs).  One host.       *)
(***************************************************************************)
EXTENDS Integers, Sequences, FiniteSets, SequencesExt

CONSTANTS
  Deployment,      \* what may run on the host: a compose project, a unit, a container
  KindOf,          \* the provider that lists a deployment
  Link,            \* a resource that a deployment uses
  LinkOn,          \* the deployment of a link
  LinkBy,          \* the provider whose readiness a link depends on
  Target,          \* bindings of deployments to projects
  TargetOf,        \* the deployment of a target
  Retained,        \* successful runs that keep their evidence: 3
  MaxRuns,         \* discoveries
  MaxChanges,      \* changes on the host
  MaxWrites,       \* changes of a target by its owner
  MaxRestarts      \* restarts of the process

Provider == {"docker", "compose", "systemd"}

ASSUME KindsAssumption == KindOf \in [Deployment -> Provider]
ASSUME LinksAssumption ==
  LinkOn \in [Link -> Deployment] /\ LinkBy \in [Link -> {"docker", "compose"}]
ASSUME TargetsAssumption == TargetOf \in [Target -> Deployment]
ASSUME RetainedAssumption == Retained \in Nat \ {0}

(* Docker and compose are asked for together; an empty list is a request of
   the first protocol. *)
Request == {{}, {"docker", "compose"}, {"systemd"}, Provider}

(* The commands of a docker session; images, networks and volumes are one.  The
   first two list nothing, so that a session is first seen at compose_ls. *)
Commands == <<"linux_identity", "docker_version", "compose_ls", "containers",
              "resources", "documents">>
Listings == 3
Position(command) == CHOOSE i \in 1..Len(Commands) : Commands[i] = command

NoFailure == [command |-> "none", exit |-> FALSE]
Idle == [pc |-> "idle", request |-> {}, step |-> Listings, listed |-> <<>>, links |-> {},
         roots |-> FALSE, docker |-> NoFailure, systemd |-> "none"]

VARIABLES
  world,      \* the deployments and links that exist on the host
  session,    \* the discovery in flight
  run,        \* discovery_runs, with its evidence_items
  pruner,     \* tasks in prune_complete_runs, by the run that began them
  catalog,    \* deployments
  target,     \* project_targets
  link,       \* deployment_resource_links: "none", "observed" or "stale"
  bound       \* the counters behind the bounds

vars == <<world, session, run, pruner, catalog, target, link, bound>>

Absent == [state |-> "none", fresh |-> "none"]
Unbound == [state |-> "none", by |-> "none"]

Row == [state : {"running", "failed", "succeeded"}, retention : {"none", "complete", "summary"},
        json : BOOLEAN, items : BOOLEAN]

TypeOK ==
  /\ world \subseteq Deployment \cup Link
  /\ session.pc \in {"idle", "docker", "systemd", "persist"}
  /\ session.request \in Request
  /\ run \in Seq(Row)
  /\ catalog \in [Deployment -> [state : {"none", "observed", "unassigned", "stale"},
                                 fresh : {"none", "fresh", "stale", "unavailable"}]]
  /\ target \in [Target -> [state : {"none", "confirmed", "stale", "archived"},
                            by : {"none", "discovery", "owner"}]]
  /\ link \in [Link -> {"none", "observed", "stale"}]

Init ==
  /\ world = Deployment \cup Link
  /\ session = Idle
  /\ run = <<>>
  /\ pruner = <<>>
  /\ catalog = [d \in Deployment |-> Absent]
  /\ target = [t \in Target |-> Unbound]
  /\ link = [l \in Link |-> "none"]
  /\ bound = [changes |-> 0, writes |-> 0, restarts |-> 0]

(***************************************************************************)
(* The session.                                                            *)
(***************************************************************************)
Of(kind) == {d \in Deployment : KindOf[d] = kind}

(* A deployment or a resource comes or goes on the host. *)
Change ==
  /\ bound.changes < MaxChanges
  /\ \E x \in Deployment \cup Link :
       world' = IF x \in world THEN world \ {x} ELSE world \cup {x}
  /\ bound' = [bound EXCEPT !.changes = @ + 1]
  /\ UNCHANGED <<session, run, pruner, catalog, target, link>>

WantsDocker(request) == request = {} \/ "docker" \in request

(* A host has one active run; the task starts with the docker session or
   with the systemd session. *)
Begin ==
  /\ session.pc = "idle"
  /\ Len(run) < MaxRuns
  /\ \E request \in Request :
       session' = [Idle EXCEPT !.request = request,
                               !.pc = IF WantsDocker(request) THEN "docker" ELSE "systemd"]
  /\ run' = Append(run, [state |-> "running", retention |-> "none",
                         json |-> FALSE, items |-> FALSE])
  /\ UNCHANGED <<world, pruner, catalog, target, link, bound>>

Command == Commands[session.step]

AfterDocker == IF "systemd" \in session.request THEN "systemd" ELSE "persist"

(* What a command that succeeded adds to the evidence. *)
Listing(command) ==
  CASE command = "compose_ls" -> ("compose" :> (world \cap Of("compose")))
    [] command = "containers" -> ("docker" :> (world \cap Of("docker")))
    [] OTHER -> <<>>
Matched(command) ==
  {l \in world \cap Link :
     /\ command = IF LinkBy[l] = "docker" THEN "resources" ELSE "documents"
     /\ \E p \in DOMAIN session.listed : LinkOn[l] \in session.listed[p]}

DockerStep ==
  /\ session.pc = "docker"
  /\ LET last == session.step = Len(Commands)
     IN session' = [session EXCEPT
          !.listed = Listing(Command) @@ @,
          !.links = @ \cup Matched(Command),
          !.roots = IF Command = "containers" THEN world \cap Of("compose") # {} ELSE @,
          !.step = IF last THEN Listings ELSE @ + 1,
          !.pc = IF last THEN AfterDocker ELSE @]
  /\ UNCHANGED <<world, run, pruner, catalog, target, link, bound>>

(* A command fails, or its output cannot be parsed or is too long although the
   audit records exit code 0 (which is asked of two commands only).  All evidence
   of the session is dropped.  Documents are only looked for under the roots of
   compose containers. *)
Attempted ==
  IF session.step = Listings THEN {Commands[i] : i \in 1..Listings} ELSE {Command}
Exits(command) == IF command \in {"docker_version", "compose_ls"} THEN BOOLEAN ELSE {FALSE}

DockerFails ==
  /\ session.pc = "docker"
  /\ Command = "documents" => session.roots
  /\ \E command \in Attempted : \E exit \in Exits(command) :
       session' = [session EXCEPT
          !.docker = [command |-> command, exit |-> exit],
          !.listed = <<>>, !.links = {}, !.roots = FALSE, !.step = Listings,
          !.pc = IF command = "linux_identity" \/ session.request = {}
                   THEN "persist" ELSE AfterDocker]
  /\ UNCHANGED <<world, run, pruner, catalog, target, link, bound>>

(* The baseline of the systemd session ends the run with an error unless docker
   was discovered; a failure of the unit listing is a status of its own. *)
RunSystemd ==
  /\ session.pc = "systemd"
  /\ \E result \in {"ok", "failed", "error"} :
       session' = [session EXCEPT
          !.systemd = result,
          !.listed = IF result = "ok" THEN ("systemd" :> (world \cap Of("systemd"))) @@ @
                                      ELSE @,
          !.pc = "persist"]
  /\ UNCHANGED <<world, run, pruner, catalog, target, link, bound>>

(***************************************************************************)
(* The outcome of each provider.                                           *)
(***************************************************************************)
DockerFailed == session.docker # NoFailure

FailureProviderKind_ByCode(failure) ==      \* an unreadable compose_ls blames docker
  CASE failure.command = "compose_ls" /\ ~failure.exit -> "compose"
    [] failure.command = "documents" -> "documents"
    [] OTHER -> "docker"

FailureProviderKind(failure) ==
  CASE failure.command = "compose_ls" -> "compose"
    [] failure.command = "documents" -> "documents"
    [] OTHER -> "docker"

(* The audits hold a command with exit code 0. *)
Exited(failure, command) ==
  \/ Position(command) < Position(failure.command)
  \/ command = failure.command /\ failure.exit

(* The providers a failed docker session calls ready. *)
ReadyDespite(failure) ==
  {p \in {"docker", "compose"} :
     /\ p # FailureProviderKind(failure)
     /\ Exited(failure, IF p = "docker" THEN "docker_version" ELSE "compose_ls")}

ReadyOfDocker ==
  IF DockerFailed THEN ReadyDespite(session.docker) ELSE {"docker", "compose"}

(* The providers the evidence has a result for, and those it calls ready; a
   request of the first protocol has no results, and none for systemd. *)
Covered == IF session.request = {} THEN {"docker", "compose"} ELSE session.request
Ready ==
  Covered \cap (ReadyOfDocker \cup (IF session.systemd = "ok" THEN {"systemd"} ELSE {}))

Failed ==
  \/ DockerFailed /\ (session.request = {} \/ session.docker.command = "linux_identity")
  \/ session.systemd = "error" /\ (DockerFailed \/ session.request = {"systemd"})

(***************************************************************************)
(* The transaction that ends a run.                                        *)
(***************************************************************************)
Observed == UNION {session.listed[p] : p \in DOMAIN session.listed}
Known == {d \in Deployment : catalog[d] # Absent}
Missing == {d \in Known \ Observed : KindOf[d] \in Ready}
Unknown == {d \in Known \ Observed : KindOf[d] \in Covered \ Ready}

CatalogAfter ==
  [d \in Deployment |->
     CASE d \in Observed ->
            [state |-> IF catalog[d].state = "none" THEN "observed"
                       ELSE IF catalog[d].state = "stale" THEN "unassigned"
                       ELSE catalog[d].state, fresh |-> "fresh"]
       [] d \in Missing -> [state |-> "stale", fresh |-> "stale"]
       [] d \in Unknown -> [catalog[d] EXCEPT !.fresh = "unavailable"]
       [] OTHER -> catalog[d]]

TargetAfter(t) ==
  LET d == TargetOf[t]
  IN IF target[t].state \in {"none", "archived"} THEN target[t]
     ELSE IF d \in Missing THEN [state |-> "stale", by |-> "discovery"]
     ELSE IF d \in Observed THEN [state |-> "confirmed", by |-> "discovery"]
     ELSE target[t]

LinkAfter(l) ==
  IF l \in session.links THEN "observed"
  ELSE IF link[l] = "observed" /\ LinkBy[l] \in Ready THEN "stale"
  ELSE link[l]

PersistSuccess ==
  /\ session.pc = "persist" /\ ~Failed
  /\ run' = [run EXCEPT ![Len(run)] = [state |-> "succeeded", retention |-> "complete",
                                       json |-> TRUE, items |-> TRUE]]
  /\ catalog' = CatalogAfter
  /\ target' = [t \in Target |-> TargetAfter(t)]
  /\ link' = [l \in Link |-> LinkAfter(l)]
  /\ pruner' = [i \in DOMAIN pruner \cup {Len(run)} |->
                  IF i = Len(run) THEN [pc |-> "select", todo |-> {}] ELSE pruner[i]]
  /\ session' = Idle
  /\ UNCHANGED <<world, bound>>

Unsuccessful(row) ==
  [state |-> "failed", retention |-> "summary", json |-> row.json, items |-> row.items]

PersistFailure ==
  /\ session.pc = "persist" /\ Failed
  /\ run' = [run EXCEPT ![Len(run)] = Unsuccessful(@)]
  /\ session' = Idle
  /\ UNCHANGED <<world, pruner, catalog, target, link, bound>>

(***************************************************************************)
(* prune_complete_runs: a query and two statements for each older run.     *)
(* Another discovery of the host may run meanwhile.                        *)
(***************************************************************************)
Drop(i) == [k \in DOMAIN pruner \ {i} |-> pruner[k]]

Newer(i) == {k \in DOMAIN run : k > i /\ run[k].state = "succeeded"}

Older_AllStates ==      \* failed runs count among the newest
  {i \in DOMAIN run : run[i].json /\ Cardinality({k \in DOMAIN run : k > i}) >= Retained}

Older == {i \in DOMAIN run : run[i].state = "succeeded" /\ Cardinality(Newer(i)) >= Retained}

PruneSelect(i) ==
  /\ pruner[i].pc = "select"
  /\ pruner' = IF Older = {} THEN Drop(i)
               ELSE [pruner EXCEPT ![i] = [pc |-> "update", todo |-> Older]]
  /\ UNCHANGED <<world, session, run, catalog, target, link, bound>>

Summary(row) ==
  [state |-> row.state, retention |-> "summary", json |-> FALSE, items |-> row.items]

PruneUpdate(i) ==
  /\ pruner[i].pc = "update"
  /\ \E k \in pruner[i].todo :
       /\ \A j \in pruner[i].todo : j <= k
       /\ run' = [run EXCEPT ![k] = Summary(@)]
  /\ pruner' = [pruner EXCEPT ![i] = [pc |-> "delete", todo |-> @.todo]]
  /\ UNCHANGED <<world, session, catalog, target, link, bound>>

PruneDelete(i) ==
  /\ pruner[i].pc = "delete"
  /\ \E k \in pruner[i].todo :
       LET rest == pruner[i].todo \ {k}
       IN /\ \A j \in rest : j <= k
          /\ run' = [run EXCEPT ![k] = [@ EXCEPT !.items = FALSE]]
          /\ pruner' = IF rest = {} THEN Drop(i)
                       ELSE [pruner EXCEPT ![i] = [pc |-> "update", todo |-> rest]]
  /\ UNCHANGED <<world, session, catalog, target, link, bound>>

(***************************************************************************)
(* The owner, and the restart.                                             *)
(***************************************************************************)
NewTargetState_KnownStale(d) ==      \* a deployment whose provider is down counts as there
  IF catalog[d].fresh = "stale" THEN "stale" ELSE "confirmed"

NewTargetState(d) == IF catalog[d].fresh = "fresh" THEN "confirmed" ELSE "stale"

CreateTarget(t) ==
  /\ bound.writes < MaxWrites
  /\ target[t] = Unbound
  /\ TargetOf[t] \in Known
  /\ target' = [target EXCEPT ![t] = [state |-> NewTargetState(TargetOf[t]), by |-> "discovery"]]
  /\ bound' = [bound EXCEPT !.writes = @ + 1]
  /\ UNCHANGED <<world, session, run, pruner, catalog, link>>

(* update_project_target takes any state, that of an archived target too. *)
UpdateTarget(t) ==
  /\ bound.writes < MaxWrites
  /\ target[t] # Unbound
  /\ \E state \in {"confirmed", "stale", "archived"} :
       target' = [target EXCEPT ![t] = [state |-> state, by |-> "owner"]]
  /\ bound' = [bound EXCEPT !.writes = @ + 1]
  /\ UNCHANGED <<world, session, run, pruner, catalog, link>>

Restart ==
  /\ bound.restarts < MaxRestarts
  /\ session' = Idle
  /\ pruner' = <<>>
  /\ run' = [i \in DOMAIN run |->
               IF run[i].state = "running" THEN Unsuccessful(run[i]) ELSE run[i]]
  /\ bound' = [bound EXCEPT !.restarts = @ + 1]
  /\ UNCHANGED <<world, catalog, target, link>>

Next ==
  \/ Change
  \/ Begin \/ DockerStep \/ DockerFails \/ RunSystemd
  \/ PersistSuccess \/ PersistFailure
  \/ \E i \in DOMAIN pruner : PruneSelect(i) \/ PruneUpdate(i) \/ PruneDelete(i)
  \/ \E t \in Target : CreateTarget(t) \/ UpdateTarget(t)
  \/ Restart

Spec == Init /\ [][Next]_vars

(***************************************************************************)
(* Properties.                                                             *)
(***************************************************************************)
(* A target the owner has not set since says what is known of its deployment:
   it is confirmed only while the last conclusive observation has seen the
   deployment, and agrees with every fresh or stale one
   (persist_observed_deployment, persist_missing_observation and
   create_project_target write it; an unknown observation does not). *)
TargetsFollowDiscovery ==
  \A t \in Target :
    LET seen == catalog[TargetOf[t]]
    IN target[t].by = "discovery" /\ target[t].state # "archived" =>
         /\ target[t].state = "confirmed" => seen.state # "stale"
         /\ seen.fresh = "fresh" => target[t].state = "confirmed"
         /\ seen.fresh = "stale" => target[t].state = "stale"

(* The newest successful runs keep their evidence whole, whichever tasks prune
   or are cut off; evidence that is said to be complete is there
   (prune_complete_runs). *)
EvidenceKept ==
  \A i \in DOMAIN run :
    /\ run[i].state = "succeeded" /\ Cardinality(Newer(i)) < Retained
         => run[i].retention = "complete"
    /\ run[i].retention = "complete" => run[i].json /\ run[i].items

(* The providers that were not asked for, or whose own commands were not run or
   did not all succeed. *)
Unproven ==
  (Provider \ Covered)
  \cup (IF session.systemd = "ok" THEN {} ELSE {"systemd"})
  \cup (CASE session.docker.command = "compose_ls" -> {"compose"}
          [] session.docker.command \in {"containers", "resources"} -> {"docker"}
          [] session.docker.command \in {"none", "documents"} -> {}
          [] OTHER -> {"docker", "compose"})
GoneStale ==
  {KindOf[d] : d \in {e \in Deployment : catalog[e].state # "stale" /\ catalog'[e].state = "stale"}}
  \cup {LinkBy[l] : l \in {m \in Link : link[m] # "stale" /\ link'[m] = "stale"}}
FailureProvesNothing == GoneStale \cap Unproven = {}

(* A provider whose own command failed, could not be parsed or was not run
   makes nothing stale, whatever the exit code its audit has recorded
   (coverage_for_failure, failure_provider_kind). *)
FailedProviderProvesNothing == [][FailureProvesNothing]_vars

(* A ready provider can prove a deployment missing, since it has listed what
   is there (the comment on persist_discovery_success_in). *)
MissingIsProven ==
  [][\A d \in Deployment :
       catalog[d].state # "stale" /\ catalog'[d].state = "stale"
         => KindOf[d] \in DOMAIN session.listed]_vars

=============================================================================
