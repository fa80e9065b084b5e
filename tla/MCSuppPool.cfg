SPECIFICATION MCSpec
CONSTANTS
    NumThreads = 7
    Threads <- MCThreads
    Main = 0
    Clients = {c1, c2}
    MaxReqs = 3
    Faults = FALSE
CHECK_DEADLOCK FALSE
INVARIANTS NeverAllBusy
PROPERTIES RequestTaken RequestAnswered
