CONSTANTS
    BatchSizes = {1}
    MaxRam = 2
    MaxTable = 5
    MaxRecords = 6
    MaxQueue = 1
    MaxTime = 0
    MaxStarts = 1
SPECIFICATION Spec
PROPERTIES
    NewRecordsStay
