CONSTANTS
    ByteBits = 2
    Base = 4
    IntBits = 16
    MaxInstruction = 8
    NoReply = NoReply
    EmptyValue = EmptyValue
    OutOfBounds = OutOfBounds
    NoLogic = NoLogic
    Points <- MCPoints
    Reads <- MCReads
    Addresses <- MCAddresses
    Samples <- MCSamples
SPECIFICATION PathSpec
INVARIANTS
    ShownAsAsked
    DeviceSees
