\* Two controllers with two connections and a pairing table of two slots.
SPECIFICATION Spec
CONSTANTS
    Ids = {i1, i2}
    Keys = {k1}
    MaxPairings = 2
    Empty = Empty
    Erased = Erased
    Torn = Torn
    None = None
    Conns = {c1, c2}
    Chars = {}
    Requested = 4
    CountBits = 3
    MinClients = 2
    Insecure = FALSE
    NoPairingErase = FALSE
    RePair = FALSE
    Traffic = {"setup", "verify", "pairings"}
SYMMETRY Symmetry
INVARIANTS
    TypeOK
    SetupContextKept
    OpenSessionIsPaired
    PairedMeansAdmin
