\* Init and repeated Loads over a segment of 2^(WordBits - 1) bytes, as by default.
SPECIFICATION Spec
CONSTANTS
    Sources = {"map", "dups", "cut", "line", "huge"}
    Type <- MCType
    Items <- MCItems
    Starts <- MCStarts
    Contents <- MCContents
    Tab = 9
    MaxLine = 5
    LenBytes = 2
    WordBits = 8
    HeaderSize = 4
    SlotSize = 6
    AlignTo = 2
    SegSize = 128
    MaxKeyLen = 2
    InitSizes = {1, 8, 64, 80}
    MaxCalls = 4
INVARIANTS TypeOK LayoutOK EstimateSuffices LoadComplete LoadFaithful
PROPERTY LoadAppends
CHECK_DEADLOCK FALSE
