SPECIFICATION BackgroundSpec
CONSTANTS
    MaxExchanges = 3
    Buffer = 2
    Batch = 2
    DatabaseFails = TRUE
    h1 = h1
    h2 = h2
    shop = shop
    store = store
    p1 = p1
    p2 = p2
    e1 = e1
    e2 = e2
    None = None
    Handlers = {h1}
    Projects <- MCProjects
    Slugs <- MCSlugs
    Endpoints <- MCEndpoints
    ProjectOf <- MCProjectOf
    MaxEdits = 2
    MaxFailures = 1
    Maintainers = {i1, i2}
    PartitionsAhead = 1
    KeepMonths = 1
    MaxMonth = 2
    MaxFaults = 1
    Instances = {i1, i2}
    Datasets = {d1, d2}
    MaxMishaps = 3
    c1 = c1
    c2 = c2
    c3 = c3
    slug = slug
    u1 = u1
    u2 = u2
    u3 = u3
    Unstated = Unstated
    BadId = BadId
    NullEntry = NullEntry
    NoId = NoId
    Nobody = Nobody
    Clients <- MCTwo
    MaxSerial = 3
    Texts = {slug}
    Uuids <- NoUuids
    Seeds <- OneSeed
    Strategies = {"serial"}
    Attempts = 2
    Addressed = {1}
INVARIANTS
    RecorderIInv
    EveryLossIsCounted
    CleanExitSettlesAll
    RouterIInv
    UntouchedStaysServed
    BackgroundTypeOK
    DemoIsWhole
PROPERTIES
    ImplementsRequestLog
    QueuedIsSettled
    ShutdownEnds
    EventuallyCurrent
    WindowIsKept
    CoveredMonthKeepsItsRows
    RetentionCatchesUp
    DemoComesBack
    EveryRequestAnswered
