\* A reader opens the segment by its name while it is initialised.
SPECIFICATION Spec
CONSTANTS
    MaxInodes = 1
    Keys = {k1}
    HashCap = 1
    Readers = {r1}
    MaxDeaths = 0
INVARIANT HashAlike
CHECK_DEADLOCK FALSE
