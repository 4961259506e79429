CONSTANTS
    HEAP_SIZE = 192
    HDR = 32
    SIZE_BITS = 8
    Garbage = Garbage
    MAX_PROCESSES = 3
    STACK_SIZE = 32
    Priorities <- MCPriorities
    MaxPid = 5
    Cap = 2
    TimeSlice <- MCShortSlice
SPECIFICATION Spec
VIEW SchedView
INVARIANTS
    ReadyQueueWellFormed
    RunningIsCurrent
    StacksOwnedExactly
PROPERTY
    RunsOnlyFromQueue
    QueueStaysFifo
