\* Three connections of controllers that set up and subscribe; the third one
\* reaches the configured number.
SPECIFICATION Spec
CONSTANTS
    Ids = {i1}
    Keys = {k1}
    MaxPairings = 1
    Empty = Empty
    Erased = Erased
    Torn = Torn
    None = None
    Conns = {c1, c2, c3}
    Chars = {ch}
    Requested = 3
    CountBits = 3
    MinClients = 1
    Insecure = TRUE
    NoPairingErase = FALSE
    RePair = FALSE
    Traffic = {"events", "setup"}
INVARIANTS
    CountIsExact
    NoDanglingClients
    MarkedIsPending
    RoomForNext
PROPERTIES
    MarkedIsClosed
