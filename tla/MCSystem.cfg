SPECIFICATION Spec
CONSTANTS
    Files = {"test.db", "test1.db"}
    Pgs = {1, 2}
    MaxTx <- MCMaxTx
    MaxFaults = 2
    RpcFaults = {"test1.db"}
    MAX_DEV_SEQ = 2
    Argvs <- MCArgvs
    Devices <- MCDevices
    Requests <- MCRequests
    MaxRuns = 2
INVARIANTS AtomicCommit ConnectionsClosed ReleasedAfterOpen
PROPERTIES ParentReturns HostEnds
CHECK_DEADLOCK FALSE
