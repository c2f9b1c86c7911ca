SPECIFICATION FairSpec
CONSTANTS
    Players <- MCPlayers
    Requests <- MCRequests
    UnitOf <- MCUnitOf
    NoTurn = NoTurn
    MaxTurns = 2
    MaxLate = 1
    MaxStarts = 1
    MaxVotes = 2
INVARIANTS TypeOK NoDuplicatePending NobodyForcesAlone
PROPERTIES OrdersAreSettled OrderBookSpec
