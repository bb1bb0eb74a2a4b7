CONSTANTS
    Verifiers = {v1, v2}
    ka = ka
    Kids = {ka, nokid}
    NoKid = nokid
    JWKSets <- Rotations
    Interval = 2
    Timeout = 1
    Scopes = {"r", "w"}
    None = None
    Limits <- BuiltIn
    Launches <- SmallLaunches
    Tokens <- SmallTokens
    ToolCalls <- SmallCalls
    d1 = d1
    d2 = d2
    t1 = t1
    t2 = t2
    Ids = {d1, d2}
    Texts = {t1, t2}
    Blank = Blank
    Own = Own
SPECIFICATION FairServerSpec
INVARIANTS ServerTypeOK EmbeddingFollowsText
PROPERTIES RefreshesBackOff WithdrawnKeysExpire ToolsAreGranted EveryRequestAnswered
