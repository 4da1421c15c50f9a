SPECIFICATION Spec
CONSTANTS
    a1 = a1
    p1 = p1
    nowhere = nowhere
    t1 = t1
    Handlers = {h1, h2}
    Addresses = {a1}
    Projects = {p1}
    UnknownSlugs = {nowhere}
    Presented = {t1}
    SessionUsers = {}
    Burst = 2
    TTL = 4
    MaxKeys = 1
    MaxClock = 5
    MaxCleared = 1
    MaxLag = 1
    x1 = x1
    x2 = x2
    m1 = m1
    Strangers = {far1, far2}
    Proxies = {x1, x2}
    Mapped = {m1}
    Unmap <- MCUnmap
    Unreadable = Unreadable
    MaxForwardedHops = 3
    MaxClaimed = 2
    Visitors = {h1, h2}
    Users = {u1, u2}
    Tokens = {k1}
    Sids = {sid1, sid2, sid3}
    Nobody = Nobody
    NoToken = NoToken
    NoSid = NoSid
    NoSession = NoSession
    o1 = o1
    o2 = o2
    q1 = q1
    q2 = q2
    c1 = c1
    c2 = c2
    e1 = e1
    s1 = s1
    s2 = s2
    n1 = n1
    z1 = z1
    r1 = r1
    Editors = {h1, h2}
    Owners = {o1, o2}
    ProjectIds = {q1, q2}
    CollectionIds = {c1, c2}
    EndpointIds = {e1}
    Slugs = {s1, s2, s3}
    Names = {n1, n2}
    Seeds = {z1}
    Routes = {r1}
    None = None
    MaxRequests = 3
    MaxExchanges = 4
    PageSize = 1
    StreamBatch = 2
    MaxConnections = 2
    Rows <- MCRows
    Segments <- MCSegments
    Params <- MCParams
    Param = Param
    Methods <- MCMethods
    Paths <- MCPaths
SYMMETRY Interchangeable
INVARIANTS
    TypeOK
    TableBounded
    AdmissionsBounded
    AttributedToOrigin
    TokenStandsForOneVisitor
    ClosedStaysClosed
    SecretShownOnceToOwner
    DeletedActsNoMore
    EndpointServesItsProject
    PagingExactlyOnce
    StreamInOrder
    LookupIsPrecedence
    AllowIsTruthful
PROPERTIES
    NothingForgotten
    RefusedForItsOwn
    ChangesAreAskedFor
    AddingKeepsAnswers
