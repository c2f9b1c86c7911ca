SPECIFICATION FairViewSpec
CONSTANTS
    Units <- MCUnits
    Regions <- MCRegions
    Paths <- MCPaths
    NoUnit = NoUnit
    Nowhere = Nowhere
    NoPath = NoPath
    UnitConfig <- MCUnitConfig
    PathFrom <- MCPathFrom
    PathTo <- MCPathTo
    Terrain <- MCTerrain
    StartControl <- MCControl
    Isengard = "isengard"
    Mordor = "mordor"
    MountDoom = "mount-doom"
    HiddenUntilTurn = 1
    MaxTurns = 2
    MaxLeadershipBonus = 1
    Menu <- RingMenu
    MaxOrders = 2
    MaxLate = 1
    MaxStarts = 1
INVARIANTS ExposureIsReported HiddenTurnsStayHidden OutcomeIsEarned OneOrderPerUnit DestroyIsOffered
PROPERTIES GameEnds UnseenMovesTellNothing
CHECK_DEADLOCK FALSE
