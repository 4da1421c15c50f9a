SPECIFICATION Spec
CONSTANTS
    c1 = c1
    c2 = c2
    c3 = c3
    slug = slug
    u1 = u1
    u2 = u2
    u3 = u3
    Unstated = Unstated
    BadId = BadId
    NullEntry = NullEntry
    NoId = NoId
    Nobody = Nobody
    Clients <- MCTwo
    MaxSerial = 3
    Texts = {slug}
    Uuids <- NoUuids
    Seeds <- BadSeeds
    Strategies = {"serial"}
    Attempts = 2
    Addressed = {1}
INVARIANTS
    NeverCreatedEmpty
