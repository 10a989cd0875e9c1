CONSTANTS
  Slots = 2
  MaxRequests = 3
  Balls = {b1, b2}
  Stored = {b1}
  Names = {n1}
  None = None
  Torn = Torn
  ArenaSize = 7
  Providers = {"runpod"}
  MaxPolls = 2
  MaxFaults = 1
SPECIFICATION Spec
CHECK_DEADLOCK FALSE
INVARIANTS
  TypeOK
  FilesAgree
  MintsKept
  ArenaSuffices
PROPERTIES
  GrowthsKept
  RequestsAnswered
