CONSTANTS
    Points = {p1}
    Clients = {c1, c2}
    Values <- MCValues2
    Raw <- MCRaw2
    OutLogic <- MCOutLogic
    InLogic <- MCInLogic
    MaxPrio = 2
    KeepOutranked = FALSE
    Lossy = FALSE
    Overrides = FALSE
    NoValue = NoValue
SPECIFICATION Spec
INVARIANTS
    AlwaysForcedBack
