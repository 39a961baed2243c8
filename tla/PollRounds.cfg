CONSTANTS
    Count <- MCCoilsAndHolding
    SeqMod = 2
    MaxLag = 2
    MaxWrites = 1
    Garbage <- MCGarbage
SPECIFICATION FairSpec
INVARIANTS
    TypeOK
    FreshReplies
    IteratorsInRange
PROPERTIES
    EveryQueryPolled
    SilentPeerDropped
