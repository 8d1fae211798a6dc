\* A daemon is killed and restarted under a reader.
SPECIFICATION Spec
CONSTANTS
    MaxInodes = 1
    Keys = {k1}
    HashCap = 1
    Readers = {r1}
    MaxDeaths = 1
INVARIANT NotClobbered
CHECK_DEADLOCK FALSE
