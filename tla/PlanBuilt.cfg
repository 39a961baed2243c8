CONSTANTS
    Variables <- MCVariables
    Builders = {"ipCoil", "ipDigital", "ipRegister", "rtuCoil", "rtuHolding", "rtuInput"}
    MaxRegister = 5
    MaxCoil = 16
    MaxStarts = 2
    NoQuery = NoQuery
SPECIFICATION Spec
INVARIANTS
    TypeOK
    VariablesServed
    NothingLost
    PolledOnce
    SizesKept
CHECK_DEADLOCK FALSE
