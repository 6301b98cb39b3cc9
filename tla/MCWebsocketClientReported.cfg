SPECIFICATION ClientSpec
CONSTANTS
    None = None
    Requests = {r1}
    Messages = {m1}
    Answers = {"ok"}
    CounterSize = 1
    MaxClock = 1
    MaxWire = 1
    MaxUnsolicited = 1
    Connects = {c1}
    Disconnects = {}
CHECK_DEADLOCK FALSE
INVARIANTS
    DisconnectedReported
