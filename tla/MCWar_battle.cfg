SPECIFICATION Spec
CONSTANTS
    Units <- MCUnits
    Regions <- MCRegions
    Paths <- MCPaths
    NoUnit = NoUnit
    Nowhere = Nowhere
    NoPath = NoPath
    UnitConfig <- MCUnitConfig
    PathFrom <- MCPathFrom
    PathTo <- MCPathTo
    Terrain <- MCTerrain
    StartControl <- MCControl
    Isengard = "isengard"
    Mordor = "mordor"
    MountDoom = "mount-doom"
    HiddenUntilTurn = 1
    MaxTurns = 3
    MaxLeadershipBonus = 1
    Menu <- WarMenu
    MaxOrders = 2
    MaxLate = 0
    MaxStarts = 0
INVARIANTS LifecycleOK
PROPERTIES DestroyedIsFinal StrengthFromLeaders
CHECK_DEADLOCK FALSE
