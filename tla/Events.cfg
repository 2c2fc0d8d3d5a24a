\* Two characteristics and two clients, notified from the server's own setters
\* and from timer callbacks or from tasks that the server interrupts.
SPECIFICATION Spec
CONSTANTS
    h1 = h1
    h2 = h2
    Chars = {h1, h2}
    Watches <- TwoClients
    Tasks = {t1, t2}
    Server = Server
    TaskKinds = {TRUE, FALSE}
    Nodes = {n1, n2, n3, n4}
    TaskNodes = {n1, n2}
    Nil = Nil
CHECK_DEADLOCK FALSE
INVARIANTS
    TypeOK
    OwedIsQueued
    NoDuplicates
    NodesLive
PROPERTIES
    ChangesArrive
    RoundsEnd
