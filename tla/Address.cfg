SPECIFICATION AddressSpec
CONSTANTS
    x1 = x1
    x2 = x2
    m1 = m1
    Strangers = {far1, far2}
    Proxies = {x1, x2}
    Mapped = {m1}
    Unmap <- MCUnmap
    Unreadable = Unreadable
    MaxForwardedHops = 3
    MaxClaimed = 3
INVARIANTS
    NearestUnforgeable
