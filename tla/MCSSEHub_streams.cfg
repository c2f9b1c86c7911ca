SPECIFICATION FairSpec
CONSTANTS
    Players <- MCPlayers
    Conns <- MCConns
    PlayerOf <- MCPlayerOf
    SideOf <- MCSideOf
    Handlers = {"handler"}
    NoConn = NoConn
    QueueCap = 1
    BufCap = 1
INVARIANTS ChannelsCloseOnce StaleForAReason
PROPERTIES HandlersReturn ConnectionsAreSettled
CHECK_DEADLOCK FALSE
