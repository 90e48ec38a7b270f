SPECIFICATION EmitSpec
CONSTANTS
    U32Max = 65535
    NumRegs = 5
    UintSize = 11
    Exact = 8
    Rounded <- MCRounded
    Unmodified <- MCUnmodified
    Programs <- MCPrograms
    Launches <- MCLaunches
    Seeds = {1, 7}
    Buffers <- MCBuffers
INVARIANTS
    BlocksTile
    OneEntryOneExit
    SuccessorsExact
    EmitTypeOK
    WellFormed
    NoUndefinedId
    TypesAgree
    SemanticsPreserved
    IntegerViewsCoherent
    EpilogueUndisturbed
CHECK_DEADLOCK FALSE
