SPECIFICATION FairSpec
CONSTANTS
    Parsers <- MCParsers
    Files <- MCFiles
    KeysOf <- MCKeysOf
    KindOf <- MCKindOf
    Garbled = "garbled"
    NoText = ""
    Unreachable = 99
    Routes <- MCRoutes
    Snapshots <- MCSnapshots
    RouteLength = 4
INVARIANTS PlainBlocksAreLoaded DistancesAreLeast RiskIsExplained InterceptsAreReachable
PROPERTIES SettledStays SearchEnds
CHECK_DEADLOCK FALSE
