\* featload -source: a text file.
SPECIFICATION Spec
CONSTANTS
    Sources = {"line"}
    Type <- MCType
    Items <- MCItems
    Starts <- MCStarts
    Contents <- MCContents
    Tab = 9
    MaxLine = 5
    LenBytes = 2
    WordBits = 8
    HeaderSize = 4
    SlotSize = 6
    AlignTo = 2
    SegSize = 128
    MaxKeyLen = 2
    InitSizes = {}
    MaxCalls = 4
INVARIANT SuccessMeansLoaded
CHECK_DEADLOCK FALSE
