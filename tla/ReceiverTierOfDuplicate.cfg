CONSTANTS
    Tasks = {t1, t2}
    Senders = {s1}
    Tiers <- MCTwoTiers
    MaxContacts = 2
    SaveOutcomes <- MCReliable
    AuthRequired = TRUE
    AllowAnonymous = TRUE
    Evaluates = TRUE
SPECIFICATION Spec
PROPERTY AddedTierCounts
