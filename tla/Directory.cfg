CONSTANTS
    u1 = u1
    u2 = u2
    n1 = n1
    n2 = n2
    Urls = {u1, u2}
    Names = {n1, n2}
    Reachable = {u1}
    Known <- MCKnown
    Adverts <- MCAdverts
    CardTTL = 2
    DiscoveryTTL = 1
    FetchTimeout = 1
    MaxTime = 3
    MaxVersion = 2
    MaxContacts = 2
    MaxFetches = 2
SPECIFICATION Spec
CHECK_DEADLOCK FALSE
INVARIANTS
    Inv
    CardIsRecent
    ListingIsComplete
PROPERTIES
    NameKeepsUrl
