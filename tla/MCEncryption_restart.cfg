SPECIFICATION KeySpec
CONSTANTS
    KeyIds = {k1, k2}
    Materials = {m1, m2}
    NoKey = NoKey
    MaxKeyPending = 1
    MaxKeyFaults = 1
INVARIANT InitializeLoadsKeys
CHECK_DEADLOCK FALSE
