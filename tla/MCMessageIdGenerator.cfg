SPECIFICATION GenSpec
CONSTANTS
    Threads = {t1, t2}
    CounterSize = 2
    MaxClock = 3
    MaxCalls = 5
SYMMETRY Symmetry
INVARIANTS
    UniqueWithinRate
CHECK_DEADLOCK FALSE
