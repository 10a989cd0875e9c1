CONSTANTS
  Palace = Palace
  Oracle = Oracle
  r1 = r1
  r2 = r2
  a1 = a1
  b1 = b1
  m1 = m1
  Rooms = {r1, r2}
  Avatars = {a1}
  Mythoi = {m1, m2}
  Contents = {b1, b2}
  Actions = {x1}
  Schema = {nodes, rels}
  MaxClock = 1
  Host = Host
  Clicks = {k1, k2}
  Verbs = {"ensurePalace", "createAgent", "addRoom", "inscribeAvatar", "setMythosHead", "appendMythos", "recordAction", "upsertEmbedding", "deleteEmbedding", "markOrphaned", "reembed", "updateInscription", "insertTriple", "deleteTriple", "updateTriple", "getOrCreateAqueduct", "mirrorAction"}
  None = None
  Seeds <- FirstOrLater
  MaxOps = 2
  MaxFaults = 1
SPECIFICATION Spec
SYMMETRY ClickSymmetry
CHECK_DEADLOCK FALSE
INVARIANTS
  TypeOK
  AckedKept
  ArcAfterPersist
  HeadUnique
  TraversalsCounted
