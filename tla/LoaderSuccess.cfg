\* Loads that size the table themselves: a binary file whose estimate has no power of two
\* among the words, and a text file.
SPECIFICATION Spec
CONSTANTS
    Sources = {"line", "huge"}
    Type <- MCType
    Items <- MCItems
    Starts <- MCStarts
    Contents <- MCContents
    Tab = 9
    MaxLine = 5
    LenBytes = 2
    WordBits = 8
    HeaderSize = 4
    SlotSize = 6
    AlignTo = 2
    SegSize = 300
    MaxKeyLen = 2
    InitSizes = {}
    MaxCalls = 2
INVARIANT SuccessMeansLoaded
CHECK_DEADLOCK FALSE
