\* A segment whose name is too long for a response.
SPECIFICATION Spec
CONSTANTS
    Readers = {r1}
    Others = {}
    OnPath = FALSE
    ServerNames <- MCServerNames
    WantNames <- MCWantNames
    ShmNames <- MCShmNames
    NameWidth = 2
    Byte = {"a", "b", "c", "NUL"}
    Nul = "NUL"
    Closers = {}
    Calls = {}
    MaxSets = 0
INVARIANT AttachesToServed
CHECK_DEADLOCK FALSE
