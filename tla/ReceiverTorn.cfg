CONSTANTS
    Tasks = {t1, t2}
    Senders = {s1}
    Tiers <- MCTwoTiers
    MaxContacts = 1
    SaveOutcomes <- MCTearing
    AuthRequired = TRUE
    AllowAnonymous = TRUE
    Evaluates = TRUE
SPECIFICATION Spec
SYMMETRY MCTaskSymmetry
INVARIANTS
    Inv
    WorkIsBeingDone
    OpenMessageIsQueued
    AttributionTruthful
PROPERTIES
    ClosedNeverReopens
    DecisionsTakeEffect
