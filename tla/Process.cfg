SPECIFICATION MCSpec
CONSTANTS
    w1 = w1
    w2 = w2
    s1 = s1
    s2 = s2
    Workers = {w1, w2}
    Ids = {s1, s2}
    None = None
    MaxVisits = 3
    TLSReload = TRUE
    MaxRenewals = 1
    MaxEvents = 3
INVARIANTS
    ProcessTypeOK
    CleanExitDrained
    EndedStaysEnded
PROPERTIES
    SignalEnds
    NoHalfService
    EventuallyRenewed
