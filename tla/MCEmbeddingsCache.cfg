CONSTANTS
    c1 = c1
    c2 = c2
    Callers = {c1, c2}
    Model <- OneModel
    Texts <- SharedTexts
    Requests <- SharedRequests
    TTL = TRUE
    BatchSize = 2
    MaxCalls = 3
    MaxFaults = 1
SPECIFICATION Spec
CHECK_DEADLOCK FALSE
INVARIANTS TypeOK CachedTextsAreNotEmbedded EntriesExpire ClearRemovesAll
PROPERTIES ImplementsVectorizer OnlyInnerFails
