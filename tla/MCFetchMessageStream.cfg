SPECIFICATION FetchSpec
CONSTANTS
    Requests <- MCRequests
    Answers = {"ok", "rpcError"}
    MaxFetches = 5
    MaxArrivals = 4
INVARIANTS
    FetchTypeOK
    NothingSkipped
    YieldedInOrder
PROPERTIES
    EndIsFinal
    StreamEnds
CHECK_DEADLOCK FALSE
