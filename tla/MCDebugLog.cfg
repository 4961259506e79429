CONSTANTS
    MAX_ENTRIES = 3
    Levels <- MCLevels
    Subsystems <- MCSubsystems
    Configs <- MCConfigs
    MaxLogs = 5
    Calls <- MCCalls
    MEM_SIZE = 22
    VGA_TEXT_WIDTH = 4
    VGA_TEXT_HEIGHT = 2
SPECIFICATION Spec
\* debug_panic halts the CPU for good: a halted state has no successor.
CHECK_DEADLOCK FALSE
INVARIANTS
    TypeOK
    BufferKeepsOldest
    MessagesRenderCalls
    MemoryLogKeepsWholeMessages
    VgaShowsLatestLines
