CONSTANTS
    Points = {p1, p2}
    Values = {0, 1, 2}
    Logic <- MCFaultLogic
    MaxQueue = 2
    MaxId = 4
    None = None
SPECIFICATION FairSpec
INVARIANTS
    TypeOK
    MapMirrorsTable
    RestAgrees
PROPERTIES
    LifecycleKept
    EventuallyAgrees
