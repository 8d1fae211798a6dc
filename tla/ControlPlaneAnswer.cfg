\* The state of the server changes while it answers.
SPECIFICATION Spec
CONSTANTS
    Readers = {r1}
    Others = {}
    OnPath = FALSE
    ServerNames <- MCServerNames
    WantNames <- MCWantNames
    ShmNames <- MCShmNames
    NameWidth = 2
    Byte = {"a", "b", "c", "NUL"}
    Nul = "NUL"
    Closers = {}
    Calls = {}
    MaxSets = 2
INVARIANT BusyFailsFast
CHECK_DEADLOCK FALSE
