SPECIFICATION Spec
CONSTANTS
    Parsers = {"map"}
    Files <- MCFiles
    KeysOf <- MCKeysOf
    KindOf <- MCKindOf
    Garbled = "garbled"
    NoText = ""
    Unreachable = 99
    Routes <- MCRoutes
    Snapshots <- MCSnapshots
    RouteLength = 4
INVARIANT LoadedAsWritten
CHECK_DEADLOCK FALSE
