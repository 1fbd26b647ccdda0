CONSTANTS
    Tasks = {t1}
    Senders = {s1}
    Tiers <- MCTwoTiers
    MaxContacts = 1
    SaveOutcomes <- MCReliable
    AuthRequired = TRUE
    AllowAnonymous = TRUE
    Evaluates = TRUE
SPECIFICATION Spec
PROPERTY ResponseReachesTask
