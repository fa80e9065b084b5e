SPECIFICATION MCSpec
CONSTANTS
    NumThreads = 3
    Threads <- MCThreads
    Main = 0
    Clients = {c1, c2}
    MaxReqs = 2
    Faults = TRUE
CHECK_DEADLOCK FALSE
INVARIANTS TypeOK WaiterCount Accounted
PROPERTIES TakenOrFailed
