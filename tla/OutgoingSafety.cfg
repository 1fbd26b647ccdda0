CONSTANTS
    s1 = s1
    s2 = s2
    s3 = s3
    a1 = a1
    a2 = a2
    Sends <- MCThreeSends
    Agents <- MCAgents
    Realtime <- MCRealtime
    AgentOf <- MCAgentOf
    Refusing <- MCAgents
    Flaky <- MCAgents
    Malformed <- MCFirstSend
    MaxTimeout = 2
SPECIFICATION Spec
SYMMETRY MCSymmetry
INVARIANTS
    Inv
    Accounted
    ReportedOnce
    OnlyClosedReported
PROPERTIES
    DeliverySpec
CHECK_DEADLOCK FALSE
