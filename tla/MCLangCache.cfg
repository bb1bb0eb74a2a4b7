CONSTANTS
    c1 = c1
    c2 = c2
    a1 = a1
    a2 = a2
    Callers = {c1, c2}
    Attributes = {a1, a2}
    Requests <- Mixed
    NumResults = 1
    BatchSize = 2
    MaxRetries = 2
    MaxCalls = 2
SPECIFICATION Spec
SYMMETRY CallerSymmetry
CHECK_DEADLOCK FALSE
INVARIANTS TypeOK SuccessIsExecuted AtMostMaxRetries
PROPERTIES NoRequestAfterVerdict
