\* Two controllers, two slots, and a flash whose erases and writes may fail.
SPECIFICATION Spec
CONSTANTS
    Ids = {i1, i2}
    Keys = {k1}
    MaxPairings = 2
    Empty = Empty
    Erased = Erased
    Torn = Torn
    None = None
    NoCall = NoCall
    FlashFaults = TRUE
PROPERTIES
    ImplementsMap
