CONSTANTS
    Align = 2
    SlabSize = 8
    MaxWord = 19
    Bases <- MCBases
    Sizes <- MCSizes
    Pointers <- MCPointers
SPECIFICATION Spec
INVARIANTS
    TypeOK
    LiveDisjoint
    AllocatorInvariant
    ChunksTile
    RegistryMatchesChunks
    LookupExact
PROPERTIES
    GrowsOnlyWhenNoGap
    ImplementsDeviceHeap
