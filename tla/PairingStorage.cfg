\* Two controllers, three slots, power losses, a flash that never fails.
SPECIFICATION Spec
CONSTANTS
    Ids = {i1, i2}
    Keys = {k1, k2}
    MaxPairings = 3
    Empty = Empty
    Erased = Erased
    Torn = Torn
    None = None
    NoCall = NoCall
    FlashFaults = FALSE
INVARIANTS
    TypeOK
    UniqueIds
    PairingsHaveIdentity
PROPERTIES
    RefusedOnlyWhenFull
    TrimKeepsOldest
    CallsEnd
    ImplementsMap
