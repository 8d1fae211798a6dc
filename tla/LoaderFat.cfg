\* A value of more bytes than an int32 counts, and a Load after it.
SPECIFICATION Spec
CONSTANTS
    Sources = {"fat", "map"}
    Type <- MCType
    Items <- MCItems
    Starts <- MCStarts
    Contents <- MCContents
    Tab = 9
    MaxLine = 5
    LenBytes = 2
    WordBits = 8
    HeaderSize = 4
    SlotSize = 6
    AlignTo = 2
    SegSize = 128
    MaxKeyLen = 2
    InitSizes = {1}
    MaxCalls = 4
INVARIANT AppendOnly
CHECK_DEADLOCK FALSE
