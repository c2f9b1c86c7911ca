SPECIFICATION Spec
CONSTANTS
    Units <- MCUnits
    Regions <- MCRegions
    Paths <- MCPaths
    NoUnit = NoUnit
    Nowhere = Nowhere
    NoPath = NoPath
    UnitConfig <- MCUnitConfig
    PathFrom <- MCPathFrom
    PathTo <- MCPathTo
    Terrain <- MCTerrain
    StartControl <- MCControl
    Isengard = "isengard"
    Mordor = "mordor"
    MountDoom = "mount-doom"
    HiddenUntilTurn = 1
    MaxTurns = 2
    MaxLeadershipBonus = 1
    Menu <- RoadMenu
    MaxOrders = 2
    MaxLate = 0
    MaxStarts = 1
INVARIANTS TypeOK BlocksStandAfterStep3 TimersInWindow
PROPERTIES NoStepCrossesABlock SurveillanceNeverDrops
CHECK_DEADLOCK FALSE
