SPECIFICATION Spec
CONSTANTS
    Files <- MCFiles
    FileLen = 256
    WordMax = 300
    MaxSections = 3
INVARIANTS NeverOutOfBounds EntriesInRange SelectsFirstText
CHECK_DEADLOCK FALSE
