CONSTANTS
    Tasks = {t1, t2}
    Senders = {s1}
    Peer = peer
    Tiers <- MCTiers
    MaxContacts = 1
    SaveOutcomes <- MCReliable
    AuthRequired = TRUE
    AllowAnonymous = TRUE
    Evaluates = TRUE
    Realtime <- MCNobody
    Refusing <- MCPeer
    Flaky <- MCNobody
    Malformed <- MCNobody
    MaxTimeout = 0
SPECIFICATION Spec
SYMMETRY MCSymmetry
INVARIANTS
    SuspendedUnanswered
    OwedIsHeld
PROPERTIES
    SenderSpec
