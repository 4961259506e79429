CONSTANTS
    HEAP_SIZE = 96
    HDR = 32
    SIZE_BITS = 8
    Garbage = Garbage
    MAX_SOCKETS = 2
    BUFFER_SIZE = 32
    Ports <- MCPorts
    MaxSocketId = 5
    IpStrings <- MCIpStrings
    MaxPackets = 1
    ConfigCalls <- MCConfigCalls
SPECIFICATION Spec
INVARIANTS
    TypeOK
    BuffersOwnedExactly
    DownMeansNoSockets
    ConfigMatchesLastAddress
