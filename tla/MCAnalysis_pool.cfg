SPECIFICATION FairSpec
CONSTANTS
    Requests <- MCRequests
    SideOf <- MCSideOf
    TaskCount <- MCTaskCount
    Scorings <- MCScorings
    Workers <- MCWorkers
    TaskCap <- MCTaskCap
    RequestCap = 1
    NoRequest = NoRequest
    NoAnswer = NoAnswer
    Idle = Idle
    Gone = Gone
INVARIANTS TypeOK NothingIsLost ClosedAfterLastWorker
PROPERTIES InTimeIsComplete RequestsAreServed DispatchersEnd DeskSpec
CHECK_DEADLOCK FALSE
