CONSTANTS
    Forwards = {f1, f2}
    Signatures = {k1}
    Conns = {c1, c2}
    Timers = {t1}
    NoConn = NoConn
    NoForward = NoForward
    NoSignature = NoSignature
    Events = {}
SPECIFICATION Spec
SYMMETRY Symmetry
INVARIANTS
    RefCountIsHolders
