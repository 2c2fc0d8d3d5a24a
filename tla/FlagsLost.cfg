\* The timer task evicts while the server changes the byte.
SPECIFICATION Spec
CONSTANTS
    Conns = {c1, c2, c3}
    Requested = 3
    MinClients = 2
    CallerKinds = {TRUE}
    NoByte = NoByte
PROPERTIES
    MarkedIsClosed
