CONSTANTS
    HEAP_SIZE = 192
    HDR = 32
    SIZE_BITS = 8
    Garbage = Garbage
    Requests <- MCRequests
    CallocArgs <- MCCallocArgs
    WildPointers <- MCWildPointers
    MaxCorrupt = 1
SPECIFICATION SpecMisuse
INVARIANT BlockListTilesArena
