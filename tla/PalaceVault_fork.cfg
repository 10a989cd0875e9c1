CONSTANTS
  Commands = {c1, c2}
  Mint = Mint
  None = None
  Verbs = {"rename-mythos"}
  MaxAlive = 1
  MaxFaults = 0
SPECIFICATION Spec
SYMMETRY CommandSymmetry
CHECK_DEADLOCK FALSE
INVARIANTS
  ChainUnforked
