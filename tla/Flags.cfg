\* Four connections; the callers that evict are the timer task, or tasks the
\* server interrupts.
SPECIFICATION Spec
CONSTANTS
    Conns = {c1, c2, c3, c4}
    Requested = 4
    MinClients = 2
    CallerKinds = {TRUE, FALSE}
    NoByte = NoByte
INVARIANTS
    TypeOK
    CountIsExact
PROPERTIES
    LostMarkIsFound
