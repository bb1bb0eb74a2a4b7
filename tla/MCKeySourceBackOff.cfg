CONSTANTS
    Verifiers = {v1, v2}
    ka = ka
    kb = kb
    nokid = nokid
    Kids = {ka, kb, nokid}
    NoKid = nokid
    JWKSets <- Rotations
    Interval = 3
    Timeout = 1
SPECIFICATION FairSpec
PROPERTIES FailuresBackOff
