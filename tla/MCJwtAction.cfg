SPECIFICATION JwtSpec
CONSTANTS
    Issuers = {i1}
    Keys = {k1}
    Audiences = {"relay"}
    RelayAudiences = {"relay"}
    Ttls = {3, 13}
    Iats = {5}
    Leeway = 1
    TicksPerSecond = 2
    MaxTimestamp = 8
    MaxDuration = 20
    MaxDateTime = 17
    MaxSkew = 2
    MaxClock = 8
    None = None
INVARIANTS
    ActionMustBeUnregister
CHECK_DEADLOCK FALSE
