CONSTANTS
    Connections = {c1, c2}
    Paths <- MCPaths
    Points <- MCPoints
    Values = {v0, v1}
    NewIds = {nw}
    ch = ch
    pt = pt
    nw = nw
    Blank = nw
    MaxPieces = 1
    Split <- MCSplit
    Commands <- MCCommands
    Talker = Talker
    None = None
SPECIFICATION Spec
INVARIANTS
    TypeOK
    SubscribersTold
    UpdatesCurrent
    OwnCommands
PROPERTIES
    EventuallyTold
