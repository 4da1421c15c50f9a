SPECIFICATION RouterSpec
CONSTANTS
    h1 = h1
    h2 = h2
    shop = shop
    store = store
    p1 = p1
    p2 = p2
    e1 = e1
    e2 = e2
    None = None
    Handlers <- MCHandlers
    Projects <- MCProjects
    Slugs <- MCSlugs
    Endpoints <- MCEndpoints
    ProjectOf <- MCProjectOf
    MaxEdits = 2
    MaxFailures = 1
INVARIANTS
    RoutesBelongToTheProject
