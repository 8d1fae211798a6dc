\* A segment of more bytes than an int32 counts.
SPECIFICATION Spec
CONSTANTS
    Sources = {"map", "dups", "cut"}
    Type <- MCType
    Items <- MCItems
    Starts <- MCStarts
    Contents <- MCContents
    Tab = 9
    MaxLine = 5
    LenBytes = 2
    WordBits = 8
    HeaderSize = 4
    SlotSize = 6
    AlignTo = 2
    SegSize = 200
    MaxKeyLen = 2
    InitSizes = {1, 8}
    MaxCalls = 4
INVARIANT NoPanic
CHECK_DEADLOCK FALSE
