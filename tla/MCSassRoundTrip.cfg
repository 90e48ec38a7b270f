SPECIFICATION RoundTripSpec
CONSTANTS
    Assembled <- MCAssembled
    Address = 32
    U32Max = 1048575
INVARIANT OperandsKept ChecksAgree
CHECK_DEADLOCK FALSE
