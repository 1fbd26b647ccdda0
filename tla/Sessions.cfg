CONSTANTS
    Sessions = {s1, s2}
    Entries = {e1, e2}
SPECIFICATION FairSpec
CHECK_DEADLOCK FALSE
INVARIANTS
    Inv
    AdvertisedIsServed
    WhoamiIsTruthful
    LostOnlyToOverlap
PROPERTIES
    ProbeMakesWay
    PortIsGivenBack
