\* Crashes at every step, restarts and Destroy, with a reader.
SPECIFICATION FairSpec
CONSTANTS
    MaxInodes = 3
    Keys = {k1, k2}
    HashCap = 1
    Readers = {r1}
    MaxDeaths = 2
INVARIANTS TypeOK ServedIsFound LostOnlyToInit
PROPERTY ComesBack
CHECK_DEADLOCK FALSE
