\* Two handlers and three sends; or five events, of which two are retained and one is sent at a time.
CONSTANTS
  project = project
  business = business
  association = association
  archive = archive
  create = create
  link = link
  unlink = unlink
  bind = bind
  agent = agent
  a1 = a1
  a2 = a2
  Project = {project}
  Business = {business}
  Association = {association}
  Agent = {agent}
  BoundTo <- Agents
  ProjectOf <- Projects
  BusinessOf <- Businesses
  Absent = {project}
  Request = {archive, link, unlink, create, bind}
  Kind <- Kinds
  On <- Subjects
  Attempt = {a1, a2}
  EventRetention = 2
  EventBatch = 1
  MaxSends = 3
  MaxDrops = 1
  MaxMoves = 1
  MaxEvents = 5
SPECIFICATION LiveSpec
ACTION_CONSTRAINT Apart
INVARIANTS
  CaughtUpIsCurrent
PROPERTIES
  ImplementsMutationLog
  StreamCatchesUp
CHECK_DEADLOCK FALSE
