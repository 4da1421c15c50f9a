SPECIFICATION DefinitionsSpec
CONSTANTS
    Editors = {d1, d2}
    Owners = {o1}
    ProjectIds = {q1}
    CollectionIds = {c1}
    EndpointIds = {e1}
    Slugs = {s1, s2}
    Names = {n1, n2}
    Seeds = {z1, z2}
    Routes = {r1}
    None = None
    MaxRequests = 4
PROPERTIES
    AbsentFieldsKept
