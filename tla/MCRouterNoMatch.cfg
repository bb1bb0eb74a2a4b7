CONSTANTS
    r1 = r1
    r2 = r2
    f1 = f1
    f2 = f2
    s1 = s1
    Routers = {r1, r2}
    Names = {"a", "a:b"}
    References = {f1, f2}
    Statements = {s1}
    Distance <- Quarters
    Globbed <- Glob
    DefaultThreshold = 2
    MaxThreshold = 8
    Requests <- NewAndRoute
    MaxCalls = 2
    MaxFaults = 0
SPECIFICATION Spec
SYMMETRY RouterSymmetry
CHECK_DEADLOCK FALSE
PROPERTIES NoMatchMeansNone
