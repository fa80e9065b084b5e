SPECIFICATION Spec
CONSTANTS
    Pages = {0, 1, 4, 5}
    Tags = {"zero", "a", "b"}
    ZeroTag = "zero"
    Logs <- MCLogs
    Garbage <- MCGarbage
    AskedSize = 0
    ArrayLen = 7
    MaxItems = 6
    MaxRuns = 2
    MaxFaults = 2
INVARIANTS TypeOK CountIsItems TagsSurvive HeapUseIsSafe
CHECK_DEADLOCK FALSE
