SPECIFICATION MCSpec
CONSTANTS
    Byte = {0, 1}
    Zero = 0
    MaxOfst = 3
    BUFFERSZ = 2
    Payloads <- MCPayloads
    RpcFaults = TRUE
    MaxWrites = 2
INVARIANT SyncedSurvives
