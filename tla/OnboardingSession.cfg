\* Two drafts; five requests of the owner, begun at any time.
CONSTANTS
  d1 = d1
  d2 = d2
  p1 = p1
  i1 = i1
  c1 = c1
  c2 = c2
  s1 = s1
  a1 = a1
  x1 = x1
  m1 = m1
  m2 = m2
  u1 = u1
  u2 = u2
  Draft = {d1, d2}
  Patch = {p1}
  Layout = {}
  Ignore = {i1}
  Confirm = {c1, c2}
  Proposal = {a1}
  ProjectPatch = {p1}
  Removal = {a1}
  Create = {s1}
  SuggestedIn <- Suggestions
  Question = {x1}
  AskedIn <- Questions
  Message = {m1, m2}
  Put = {u1, u2}
  MaxRequests = 5
SPECIFICATION Spec
INVARIANTS
  EtagNamesOneContent
  VersionsWereShown
  SessionFitsItsRevision
PROPERTIES
  EditsSurvive
  OwnerSawTheDraft
SYMMETRY Interchangeable
CHECK_DEADLOCK FALSE
