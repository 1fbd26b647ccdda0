CONSTANTS
    Tasks = {t1, t2}
    Senders = {s1, s2}
    Tiers <- MCTiers
    MaxContacts = 2
    SaveOutcomes <- MCReliable
    AuthRequired = TRUE
    AllowAnonymous = TRUE
    Evaluates = TRUE
SPECIFICATION Spec
SYMMETRY MCSymmetry
INVARIANTS
    DurableInv
    QueueAgreesWithTasks
    OpenTaskIsQueued
    OnlyContactsAreServed
PROPERTIES
    DecisionsSurvive
    ContactsNeverForgotten
    OnlyOpenItemsAnnounced
