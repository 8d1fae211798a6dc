\* A server whose state changes, and that is closed twice, while two clients talk to it.
SPECIFICATION FairSpec
CONSTANTS
    Readers = {r1}
    Others = {c1}
    OnPath = TRUE
    ServerNames <- MCServerNames
    WantNames <- MCWantNames
    ShmNames <- MCShmNames
    NameWidth = 2
    Byte = {"a", "b", "c", "NUL"}
    Nul = "NUL"
    Closers = {x1, x2}
    Calls = {"Destroy", "LoaderClose"}
    MaxSets = 1
INVARIANTS TypeOK AnswerTimely AttachesRightly DestroyUnlinks
PROPERTIES NoAcceptAfterClose CloseStopsListen ConnectReturns
CHECK_DEADLOCK FALSE
