CONSTANTS
    h1 = h1
    h2 = h2
    s1 = s1
    s2 = s2
    Clients = {h1, h2}
    Sessions = {s1, s2}
    Roles = {"user", "llm", "oracle"}
    Contents = {"near", "far"}
    SessionOf <- OwnSession
    Relevant <- Within
    DefaultThreshold = 3
    k = k
    Ids <- IdsGiven
    NoId = NoId
    Requests <- Mixed
    FullHistory = 4
    MaxTime = 2
    MaxMessages = 4
    MaxCalls = 4
    MaxFaults = 1
SPECIFICATION Spec
CHECK_DEADLOCK FALSE
INVARIANTS TypeOK NoAnswerWithoutPrompt
PROPERTIES RecentIsLatest
