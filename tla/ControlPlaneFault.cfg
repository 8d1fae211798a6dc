\* Close, called while a request is handled.
SPECIFICATION Spec
CONSTANTS
    Readers = {r1}
    Others = {}
    OnPath = FALSE
    ServerNames <- MCServerNames
    WantNames <- MCWantNames
    ShmNames <- MCShmNames
    NameWidth = 2
    Byte = {"a", "b", "c", "NUL"}
    Nul = "NUL"
    Closers = {x1}
    Calls = {"Close"}
    MaxSets = 0
INVARIANT CloseIsSafe
CHECK_DEADLOCK FALSE
