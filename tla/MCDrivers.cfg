CONSTANTS
    Bytes = {0, 1, 255}
    MaxLen = 6
    BUFFER_SIZE = 3
    NoteCalls <- MCNoteCalls
    Chans <- MCChans
    MaxMixes = 3
    SCREEN_WIDTH = 3
    SCREEN_HEIGHT = 2
    Coords <- MCCoords
    Sizes = {0, 1, 2}
SPECIFICATION Spec
INVARIANTS
    ChecksumMatchesReference
    AudioTypeOK
    QuietWhenUninitialized
    LineTracesSegment
    PixelsClippedToScreen
