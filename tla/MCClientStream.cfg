SPECIFICATION Spec
CONSTANTS
    None = None
    Requests = {r1, r2, r3}
    Messages = {m1}
    Answers = {"ok"}
    CounterSize = 2
    MaxClock = 2
    MaxWire = 2
    MaxUnsolicited = 1
SYMMETRY Symmetry
INVARIANTS
    TypeOK
    PendingIsInMap
    WaitingIsOnItsWay
    IdsInFlight
    NoForeignAnswer
    OutcomeFitsRelay
