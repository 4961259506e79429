CONSTANTS
    HEAP_SIZE = 192
    HDR = 32
    SIZE_BITS = 8
    Garbage = Garbage
    MAX_PROCESSES = 3
    STACK_SIZE = 32
    Priorities <- MCOnePriority
    MaxPid = 5
    Cap = 3
    TimeSlice <- MCTimeSlice
SPECIFICATION FairSpec
PROPERTY QueuedEventuallyRuns
