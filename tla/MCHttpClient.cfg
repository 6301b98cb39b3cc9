SPECIFICATION HttpFairSpec
CONSTANTS
    Threads = {c1, c2, c3}
    CounterSize = 2
    MaxClock = 2
    MaxCalls = 3
INVARIANTS
    HttpTypeOK
    RepeatsAreATurnApart
PROPERTIES
    ToldWhatWasSaid
    HttpImplementsRpc
    CallsEnd
CHECK_DEADLOCK FALSE
