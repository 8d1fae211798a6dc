\* Does a hit always return the whole value of its entry?
SPECIFICATION Spec
CONSTANTS
    k1 = k1  k2 = k2  k3 = k3
    v0 = v0  v1 = v1  NoValue = NoValue  Miss = Miss  Torn = Torn
    Keys = {k1, k2}
    Values = {v1}
    VLen <- MCVLen
    HashOf <- MCHash
    Capacity = 2
    MaxChunks = 2
    NoChunk = NoChunk
    Writers = {w1}
    Readers = {r1}
    Deletable = {k1}
INVARIANT CompleteRead
CHECK_DEADLOCK FALSE
