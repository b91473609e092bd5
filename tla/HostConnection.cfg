SPECIFICATION Spec
CONSTANTS
  a1 = a1
  a2 = a2
  k1 = k1
  k2 = k2
  p1 = p1
  p2 = p2
  None = None
  c1 = c1
  c2 = c2
  Cred = {c1, c2}
  Given = c1
  Addr = {a1, a2}
  Key = {k1, k2}
  Worker = {p1, p2}
  KeyAt <- Keys
  Home = a1
  Password = {c2}
  MaxRequests = 5
  MaxRotations = 1
  MaxRestarts = 1
INVARIANTS TrustIsConfirmed RunningHasRun SerialIsTrustworthy SecretsAccounted
SYMMETRY Workers
CHECK_DEADLOCK FALSE
