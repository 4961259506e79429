CONSTANTS
    HEAP_SIZE = 248
    HDR = 32
    SIZE_BITS = 8
    Garbage = Garbage
    Requests <- MCRequests
    CallocArgs <- MCCallocArgs
    WildPointers <- MCWildPointers
    MaxCorrupt = 1
SPECIFICATION Spec
VIEW LiveView
INVARIANT TypeOK
INVARIANT BlockListTilesArena
INVARIANT NoAdjacentFreeBlocks
INVARIANT BlockCountsMatchList
INVARIANT OwnershipExact
INVARIANT GrantCoversRequest
PROPERTY ImplementsAllocator
