CONSTANTS
    name = name
    trusted = trusted
    literal = literal
    public = public
    private = private
    Hosts = {name, trusted, literal}
    Addresses = {public, private}
    Literal <- MCLiteral
    AllowedHosts = {trusted}
    AllowedCidrs = {}
    GlobalAddresses = {public}
    SpecialAddresses = {}
    RequireHttps = TRUE
    AllowPrivate = FALSE
    r1 = r1
    r2 = r2
    Requests = {r1, r2}
    Destinations <- MCDestinations
    Offsets <- MCOffsets
    MaxSkew = 1
    MaxTime = 7
    MaxTaken = 2
SPECIFICATION Spec
SYMMETRY MCSymmetry
CHECK_DEADLOCK FALSE
INVARIANTS
    Inv
    ContactsAllowed
    AcceptedOnce
    RepeatedOnlyIfTaken
PROPERTIES
    ExpiredOnlyIfLate
