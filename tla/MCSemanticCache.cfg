CONSTANTS
    c1 = c1
    c2 = c2
    p1 = p1
    p2 = p2
    t1 = t1
    t2 = t2
    Callers = {c1, c2}
    Prompts = {p1, p2}
    Tenants = {t1, t2}
    EntryId <- Id
    Near <- Similar
    Requests <- Mixed
    NumResults = 1
    TTL = 1
    DefaultThreshold = 1
    MaxThreshold = 20
    MaxCalls = 4
    MaxFaults = 1
SPECIFICATION Spec
SYMMETRY CallerSymmetry
CHECK_DEADLOCK FALSE
INVARIANTS TypeOK TenantIsolation NothingRemovedIsServed EntriesExpire
