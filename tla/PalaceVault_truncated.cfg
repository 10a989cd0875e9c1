CONSTANTS
  Commands = {c1, c2}
  Mint = Mint
  None = None
  Verbs = {"add-room"}
  MaxAlive = 1
  MaxFaults = 1
SPECIFICATION Spec
SYMMETRY CommandSymmetry
CHECK_DEADLOCK FALSE
INVARIANTS
  BundleSurvives
