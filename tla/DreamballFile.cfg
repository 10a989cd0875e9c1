CONSTANTS
  Procs = {c1, c2}
  Paths = {f1, f2}
  Keys = {k1, k2}
  None = None
  Torn = Torn
  GivenPath = f1
  GivenKey = k1
  Edits <- MCEdits
  LookFile <- MCLookFile
  CoverageFile <- MCCoverageFile
  MaxCommands = 3
  MaxDeaths = 1
SPECIFICATION Spec
CHECK_DEADLOCK FALSE
SYMMETRY Symmetry
INVARIANTS
  TypeOK
  VerifiesIffOwned
  FieldsSurvive
