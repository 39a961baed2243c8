CONSTANTS
    BatchSizes = {1}
    MaxRam = 2
    MaxTable = 5
    MaxRecords = 6
    MaxQueue = 2
    MaxTime = 1
    MaxStarts = 3
SPECIFICATION FairSpec
INVARIANTS
    TypeOK
    RecordsKept
PROPERTIES
    EventuallyDurable
