CONSTANTS
  Modules <- MCModules
  MaxPages = 2
  Page = 16
  ScratchBase = 0
  ScratchSize = 16
  Word = 2
  Digest = 3
  Sig = 2
  HeaderLen <- MCHeaderLen
  NodeLens = {0, 3}
  Clock <- MCClock
  Ptrs = {0, 3, 5, 14}
  Lens = {0, 1, 2}
  MaxCalls = 3
SPECIFICATION Spec
CHECK_DEADLOCK FALSE
INVARIANTS
  TypeOK
  ReturnsIntact
