CONSTANTS
  Commands = {c1, c2, c3}
  Mint = Mint
  None = None
  Verbs = {"add-room", "inscribe", "inscribe-via", "rename-mythos"}
  MaxAlive = 2
  MaxFaults = 1
SPECIFICATION Spec
SYMMETRY CommandSymmetry
CHECK_DEADLOCK FALSE
INVARIANTS
  CasClosed
  BundleResolves
  MirroredFirst
  VerifyAccepts
