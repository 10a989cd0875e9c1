CONSTANTS
  Palace = Palace
  Oracle = Oracle
  r1 = r1
  r2 = r2
  a1 = a1
  b1 = b1
  m1 = m1
  Rooms = {r1, r2}
  Avatars = {a1}
  Mythoi = {m1, m2}
  Contents = {b1, b2}
  Actions = {x1}
  Schema = {nodes, rels}
  MaxClock = 1
  Host = Host
  Clicks = {k1}
  Verbs = {}
  None = None
  Seeds <- Later
  MaxOps = 2
  MaxFaults = 0
SPECIFICATION Spec
CHECK_DEADLOCK FALSE
INVARIANTS
  AqueductsIdempotent
