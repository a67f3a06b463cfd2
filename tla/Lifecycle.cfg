CONSTANTS
    Conns = {c1}
    Monitors = {"health"}
SPECIFICATION FairSpec
INVARIANTS
    TypeOK
    RunningAccepts
    KeptReleasedOnce
    PanicsOnNilOnly
    StoppedHoldsNothing
    LifecycleIInv
PROPERTIES
    ImplementsInstance
    ChannelReleased
    CancelledIsCleaned
    StopReturnsUnlessLate
