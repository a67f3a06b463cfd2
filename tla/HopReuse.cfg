CONSTANTS
    f1 = f1
    f2 = f2
    Forwards = {f1, f2}
    Configured <- Nested
    Clients = {l1, l2}
    Conns = {c1, c2, c3}
    MaxRefs = 3
    NoForward = NoForward
    NoConn = NoConn
    NoClient = NoClient
SPECIFICATION FairSpec
INVARIANTS
    HopIInv
    NoClientLostUnlessDisplaced
    RunsOverItsRoute
PROPERTY CutIsClosed
