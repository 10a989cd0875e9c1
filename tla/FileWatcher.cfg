CONSTANTS
  Handlers = {h1, h2}
  a1 = a1
  a2 = a2
  p1 = p1
  p2 = p2
  r1 = r1
  r2 = r2
  t1 = t1
  Avatars = {a1, a2}
  Palaces = {p1, p2}
  Contents = {c1, c2}
  Gone = Gone
  Origin = c1
  Default = Default
  Roots = {r1, r2}
  Traversals = {t1}
  PalaceOf <- TwoPalaces
  AdminOnly = {a1}
  MaxEdits = 2
  MaxFaults = 1
SPECIFICATION FairSpec
CHECK_DEADLOCK FALSE
INVARIANTS
  TypeOK
  WritersExcluded
  OracleHistoryLinear
  MetadataBacked
  RestAgrees
  RestJoined
PROPERTIES
  HandlersFinish
