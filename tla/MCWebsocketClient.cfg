SPECIFICATION ClientSpec
CONSTANTS
    None = None
    Requests = {r1, r2}
    Messages = {m1}
    Answers = {"ok"}
    CounterSize = 1
    MaxClock = 1
    MaxWire = 2
    MaxUnsolicited = 2
    Connects = {c1, c2}
    Disconnects = {d1}
CHECK_DEADLOCK FALSE
SYMMETRY Symmetry
INVARIANTS
    ClientTypeOK
    RequestsAccounted
    RefusedNeverExecuted
    StreamIsAnnounced
    AckedWasDelivered
PROPERTIES
    ReplyIsBarrier
    ImplementsRpc
