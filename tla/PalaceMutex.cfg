SPECIFICATION FairSpec
CONSTANTS
    Calls = {c1, c2, c3, c4}
    Palaces = {p1, p2}
    None = None
INVARIANTS
    TypeOK
    MutualExclusion
    EntryCoversChain
    PalacesIndependent
PROPERTIES
    ImplementsFcfsLock
    EveryCallEnters
    EntryForgotten
CHECK_DEADLOCK FALSE
