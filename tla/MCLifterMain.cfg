SPECIFICATION Spec
CONSTANTS
    Cubins = {"short", "long", "tensor", "text"}
    Parsable = {"short", "long", "tensor"}
    Liftable = {"short", "long"}
    Length <- MCLength
    Paths <- MCPaths
    Disk <- MCDisk
    Absent = Absent
    CommandLines <- MCCommandLines
    SpvPath <- Spv1
    UnitBytes = 10
    MaxRuns = 2
INVARIANTS
    NamedPaths
    RefusalIsClean
    SuccessMeansWritten
    LaunchAfterSuccess
    NothingMadeUp
