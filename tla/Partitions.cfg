SPECIFICATION PartitionsSpec
CONSTANTS
    Maintainers = {i1, i2}
    PartitionsAhead = 3
    KeepMonths = 3
    MaxMonth = 2
    MaxFaults = 0
INVARIANTS
    StraysOnlyAfterFailing
