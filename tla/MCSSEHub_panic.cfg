SPECIFICATION Spec
CONSTANTS
    Players <- MCPlayers
    Conns <- MCThree
    PlayerOf <- MCPlayerOf
    SideOf <- MCSideOf
    Handlers = {"handler"}
    NoConn = NoConn
    QueueCap = 1
    BufCap = 1
INVARIANTS SendsDoNotPanic
CHECK_DEADLOCK FALSE
