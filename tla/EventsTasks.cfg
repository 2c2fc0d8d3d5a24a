\* Notified from tasks that the server interrupts.
SPECIFICATION Spec
CONSTANTS
    h1 = h1
    h2 = h2
    Chars = {h1, h2}
    Watches <- OneClient
    Tasks = {t1}
    Server = Server
    TaskKinds = {FALSE}
    Nodes = {n1, n2, n3, n4}
    TaskNodes = {n1, n2, n3, n4}
    Nil = Nil
CHECK_DEADLOCK FALSE
PROPERTIES
    RemovedWereSent
