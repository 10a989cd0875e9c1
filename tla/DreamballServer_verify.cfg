CONSTANTS
  Slots = 1
  MaxRequests = 1
  Balls = {b1, b2}
  Stored = {b1}
  Names = {n1}
  None = None
  Torn = Torn
  ArenaSize = 7
  Providers = {"runpod"}
  MaxPolls = 2
  MaxFaults = 0
SPECIFICATION Spec
CHECK_DEADLOCK FALSE
INVARIANTS
  VerifyTruthful
