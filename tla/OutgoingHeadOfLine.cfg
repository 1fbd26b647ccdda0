CONSTANTS
    s1 = s1
    s2 = s2
    s3 = s3
    a1 = a1
    a2 = a2
    Sends <- MCTwoSends
    Agents <- MCAgents
    Realtime <- MCRealtime
    AgentOf <- MCAgentOf
    Refusing <- MCNoAgents
    Flaky <- MCAsyncAgent
    Malformed <- MCNoSends
    MaxTimeout = 1
SPECIFICATION FairSpec
CHECK_DEADLOCK FALSE
PROPERTY AnswersArrive
