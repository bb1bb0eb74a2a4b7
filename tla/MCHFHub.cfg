CONSTANTS
    p1 = p1
    p2 = p2
    config = config
    onnx = onnx
    modules = modules
    pooling = pooling
    Procs = {p1, p2}
    Required <- NeededFiles
    Optional <- ExtraFiles
    MaxCalls = 4
    MaxFaults = 3
SPECIFICATION Spec
SYMMETRY Symmetry
CHECK_DEADLOCK FALSE
INVARIANTS TypeOK NoPartialFile ReturnedIsWhole
