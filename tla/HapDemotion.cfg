\* One controller demotes itself.
SPECIFICATION Spec
CONSTANTS
    Ids = {i1}
    Keys = {k1}
    MaxPairings = 2
    Empty = Empty
    Erased = Erased
    Torn = Torn
    None = None
    Conns = {c1}
    Chars = {ch}
    Requested = 4
    CountBits = 3
    MinClients = 2
    Insecure = FALSE
    NoPairingErase = FALSE
    RePair = FALSE
    Traffic = {"setup", "verify", "pairings"}
INVARIANTS
    PairedHasAdmin
