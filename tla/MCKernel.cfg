CONSTANTS
    HEAP_SIZE = 160
    HDR = 32
    SIZE_BITS = 8
    Garbage = Garbage
    MAX_PROCESSES = 2
    STACK_SIZE = 32
    Priorities <- MCPriorities
    MaxPid = 4
    Cap = 2
    TimeSlice <- MCTimeSlice
    MAX_SOCKETS = 1
    BUFFER_SIZE = 32
    Ports <- MCPorts
    MaxSocketId = 3
SPECIFICATION KernelSpec
VIEW KernelView
INVARIANTS
    HeapClientsOwnExactly
