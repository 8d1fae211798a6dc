\* The loader destroys the segment that it has lent to a server.
SPECIFICATION Spec
CONSTANTS
    Readers = {r1}
    Others = {}
    OnPath = FALSE
    ServerNames <- MCServerNames
    WantNames <- MCWantNames
    ShmNames <- MCShmNames
    NameWidth = 2
    Byte = {"a", "b", "c", "NUL"}
    Nul = "NUL"
    Closers = {x1}
    Calls = {"LoaderDestroy"}
    MaxSets = 0
INVARIANT LoaderDestroyUnlinks
CHECK_DEADLOCK FALSE
