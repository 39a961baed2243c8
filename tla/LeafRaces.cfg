CONSTANTS
    Points = {p1}
    Clients = {c1, c2}
    Values <- MCValues3
    Raw <- MCRaw3
    OutLogic <- MCOutLogic
    InLogic <- MCInLogic
    MaxPrio = 2
    KeepOutranked = TRUE
    Lossy = TRUE
    Overrides = TRUE
    NoValue = NoValue
SPECIFICATION FairSpec
INVARIANTS
    TypeOK
    CorrectionOwed
    SettledEnforced
PROPERTIES
    EventuallyEnforced
