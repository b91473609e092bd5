\* A compose project with a network and a target, a container and a unit.
CONSTANTS
  compose = compose
  container = container
  unit = unit
  network = network
  target_c = target_c
  Deployment = {compose, container, unit}
  KindOf <- Kinds
  Link = {network}
  LinkOn <- Users
  LinkBy <- Providers
  Target = {target_c}
  TargetOf <- Bindings
  Retained = 1
  MaxRuns = 3
  MaxChanges = 1
  MaxWrites = 2
  MaxRestarts = 1
SPECIFICATION Spec
INVARIANTS
  TargetsFollowDiscovery
  EvidenceKept
PROPERTIES
  FailedProviderProvesNothing
CHECK_DEADLOCK FALSE
