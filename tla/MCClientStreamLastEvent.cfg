SPECIFICATION PolledSpec
CONSTANTS
    None = None
    Requests = {r1}
    Messages = {m1}
    Answers = {"ok"}
    CounterSize = 2
    MaxClock = 1
    MaxWire = 2
    MaxUnsolicited = 1
PROPERTIES
    ClosedIsLastEvent
