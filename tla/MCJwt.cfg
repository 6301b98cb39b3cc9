SPECIFICATION JwtSpec
CONSTANTS
    Issuers = {i1}
    Keys = {k1, k2}
    Audiences = {"relay", "elsewhere"}
    RelayAudiences = {"relay"}
    Ttls <- MCTtls
    Iats = {0, 5, 10}
    Leeway = 2
    TicksPerSecond = 3
    MaxTimestamp = 10
    MaxDuration = 30
    MaxDateTime = 33
    MaxSkew = 6
    MaxClock = 18
    None = None
SYMMETRY MCSymmetry
INVARIANTS
    JwtTypeOK
    FreshAccepted
    StaleRefused
    IssuedDecodes
    DecodedWasIssued
PROPERTIES
    PhasesInOrder
CHECK_DEADLOCK FALSE
