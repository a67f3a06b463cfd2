CONSTANTS
    Forwards = {f1, f2}
    Signatures = {k1}
    Conns = {c1}
    Timers = {t1}
    NoConn = NoConn
    NoForward = NoForward
    NoSignature = NoSignature
    Events = {"peer"}
SPECIFICATION FairSpec
PROPERTIES
    AcquireReturns
    DeadLeavesPool
