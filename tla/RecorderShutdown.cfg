SPECIFICATION RecorderSpec
CONSTANTS
    MaxExchanges = 2
    Buffer = 2
    Batch = 2
    DatabaseFails = FALSE
INVARIANTS
    LastRequestsWritten
CHECK_DEADLOCK FALSE
