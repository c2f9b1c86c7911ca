SPECIFICATION FairSpec
CONSTANTS
    Instances <- MCInstances
    Coordinator = "go-1"
    PeerAddrs <- MCPeerAddrs
    Starts = {"start"}
    MaxStates = 2
    MaxLost = 0
    MaxTimeouts = 0
PROPERTIES PeersStayInSync
CHECK_DEADLOCK FALSE
