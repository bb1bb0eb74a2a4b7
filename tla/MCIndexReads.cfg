CONSTANTS
    c1 = c1
    c2 = c2
    k1 = k1
    k2 = k2
    Clients = {c1, c2}
    Keys = {k1, k2}
    Requests <- DocumentRequests
    PageSize = 1
    BatchSize = 2
    MaxCalls = 2
    MaxFaults = 1
    Units = {"m", "km"}
    Contents <- TwoDocuments
    Readers = {r1}
    ReadRequests <- SmallReads
    MaxReads = 1
    MaxDims = 8
SPECIFICATION ReadsSpec
SYMMETRY ClientSymmetry
CHECK_DEADLOCK FALSE
INVARIANTS ReadsTypeOK ClearIsComplete EveryRemovalCountedOnce LoadWritesWholeBatches LoadSetsTTL PaginateVisitsAll AnswersAreInOrder
