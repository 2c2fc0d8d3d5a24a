\* The largest number the counters cannot hold: 2^CountBits, 32 in the code.
SPECIFICATION Spec
CONSTANTS
    Ids = {i1}
    Keys = {k1}
    MaxPairings = 1
    Empty = Empty
    Erased = Erased
    Torn = Torn
    None = None
    Conns = {c1, c2, c3}
    Chars = {ch}
    Requested = 4
    CountBits = 2
    MinClients = 2
    Insecure = TRUE
    NoPairingErase = FALSE
    RePair = FALSE
    Traffic = {}
PROPERTIES
    EvictedOnlyWhenFull
