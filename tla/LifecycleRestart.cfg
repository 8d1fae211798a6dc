\* Once featload is no longer killed, does it serve again?
SPECIFICATION FairSpec
CONSTANTS
    MaxInodes = 2
    Keys = {k1}
    HashCap = 1
    Readers = {}
    MaxDeaths = 1
PROPERTY ReusableAfterRestart
CHECK_DEADLOCK FALSE
