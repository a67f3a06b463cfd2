CONSTANTS
    Forwards = {f1}
    Signatures = {k1}
    Conns = {c1, c2}
    Timers = {t1}
    NoConn = NoConn
    NoForward = NoForward
    NoSignature = NoSignature
    Events = {"close", "slow", "tick"}
SPECIFICATION FairSpec
INVARIANT PoolIInv
PROPERTIES
    IdleReclaimedUnlessCancelled
    ShutdownReturns
