SPECIFICATION FairSpec
CONSTANTS
    Instances <- MCInstances
    Coordinator = "go-1"
    PeerAddrs <- MCPeerAddrs
    Starts = {"start"}
    MaxStates = 2
    MaxLost = 1
    MaxTimeouts = 1
INVARIANTS NobodyIsAhead CalmPeersAgree
PROPERTIES EveryPeerIsServed
CHECK_DEADLOCK FALSE
