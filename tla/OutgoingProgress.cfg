CONSTANTS
    s1 = s1
    s2 = s2
    s3 = s3
    a1 = a1
    a2 = a2
    Sends <- MCTwoSends
    Agents <- MCAgents
    Realtime <- MCRealtime
    AgentOf <- MCAgentOf
    Refusing <- MCAgents
    Flaky <- MCNoAgents
    Malformed <- MCNoSends
    MaxTimeout = 2
SPECIFICATION FairSpec
CHECK_DEADLOCK FALSE
PROPERTIES
    SendReturns
    AnswersArrive
