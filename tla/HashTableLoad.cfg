\* One writer that only inserts, as Loader.Load does, and a lookup.
SPECIFICATION FairSpec
CONSTANTS
    k1 = k1  k2 = k2  k3 = k3
    v0 = v0  v1 = v1  NoValue = NoValue  Miss = Miss  Torn = Torn
    Keys = {k1, k3}
    Values = {v0, v1}
    VLen <- MCVLen
    HashOf <- MCHash
    Capacity = 2
    MaxChunks = 3
    NoChunk = NoChunk
    Writers = {w1}
    Readers = {r1}
    Deletable = {}
INVARIANT FirstPutWins
PROPERTY CallsReturn
PROPERTY ImplementsMap
CHECK_DEADLOCK FALSE
