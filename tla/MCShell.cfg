SPECIFICATION Spec
CONSTANTS
    BUF = 4
    MAX_HISTORY = 2
    Builtins <- MCBuiltins
    Scancodes <- MCScancodes
    MaxLines = 3
INVARIANT
    TypeOK
    BufferTerminatedAtPos
    HistoryKeepsNewest
    DispatchesFirstWord
