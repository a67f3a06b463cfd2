CONSTANT FailureBound = 60
SPECIFICATION FairSpec
INVARIANT TypeOK
PROPERTIES
    SpacedWhileItFits
    TriedAgain
