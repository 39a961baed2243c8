CONSTANTS
    Vars = {1, 2, 3, 4}
    Singles = {1}
    Multiples = {2}
    Coils = {3}
    Queries <- MCQueries
    Readings = {0, 1}
    Wanted <- MCWanted
    MaxWaiting = 2
    None = None
SPECIFICATION Spec
INVARIANTS
    TypeOK
    NewestWins
PROPERTIES
    EveryQueryAsked
    EventuallyShown
