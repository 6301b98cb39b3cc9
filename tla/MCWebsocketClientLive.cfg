SPECIFICATION FairSpec
CONSTANTS
    None = None
    Requests = {r1, r2}
    Messages = {m1}
    Answers = {"ok"}
    CounterSize = 1
    MaxClock = 1
    MaxWire = 1
    MaxUnsolicited = 1
    Connects = {c1}
    Disconnects = {d1}
CHECK_DEADLOCK FALSE
PROPERTIES
    RequestsResolve
    CallsReturn
    LoopEnds
