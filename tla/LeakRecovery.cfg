CONSTANTS
    Records = {a, b}
    Instances = {i1, i2, i3}
    MaxCalls = 2
    MaxFaults = 1
    NoRecord = NoRecord
    NoInstance = NoInstance
SPECIFICATION FairSpec
INVARIANTS
    LeakIInv
    OneHearerUnlessRaced
CHECK_DEADLOCK FALSE
PROPERTIES
    SyncNotBlocked
    LoneForwardServes
