CONSTANTS
    DayLen = 3
    Horizon = 8
    Plans <- MCPlans
    Listeners = {l1, l2}
    Points = {p, q}
    p = p
    q = q
    Followers <- MCFollowers
    l1 = l1
    l2 = l2
    None = None
SPECIFICATION Spec
INVARIANTS
    TypeOK
    NothingMissed
    OnNamedDays
PROPERTIES
    ToldInOrder
    EventuallyExecuted
CHECK_DEADLOCK FALSE
