CONSTANTS
    Tasks = {t1, t2}
    Senders = {s1}
    Tiers <- MCTwoTiers
    MaxContacts = 1
    SaveOutcomes <- MCReliable
    AuthRequired = TRUE
    AllowAnonymous = TRUE
    Evaluates = TRUE
SPECIFICATION FairSpec
PROPERTIES
    WaitingItemsSurface
    WorkEnds
