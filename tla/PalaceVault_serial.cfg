CONSTANTS
  Commands = {c1, c2, c3, c4}
  Mint = Mint
  None = None
  Verbs = {"add-room", "inscribe", "move", "rename-mythos"}
  MaxAlive = 1
  MaxFaults = 1
SPECIFICATION Spec
SYMMETRY CommandSymmetry
CHECK_DEADLOCK FALSE
INVARIANTS
  TypeOK
  HistoryLinear
  Acknowledged
  HeadRecorded
  OneHome
  ResidenceRecorded
