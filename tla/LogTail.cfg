SPECIFICATION TailSpec
CONSTANTS
    MaxExchanges = 3
    PageSize = 1
    StreamBatch = 1
    MaxConnections = 2
INVARIANTS
    TailMissesNothing
