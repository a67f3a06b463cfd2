CONSTANTS
    f1 = f1
    f2 = f2
    Forwards = {f1, f2}
    Configured <- Siblings
    Clients = {l1, l2, l3}
    Conns = {c1, c2, c3}
    MaxRefs = 2
    NoForward = NoForward
    NoConn = NoConn
    NoClient = NoClient
SPECIFICATION FairSpec
PROPERTY ReusedHopsKept
