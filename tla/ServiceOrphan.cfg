CONSTANTS
    Ids = {a}
    Configs = {m}
    Instances = {i1, i2}
    Syncer = Syncer
    NoRow = NoRow
    NoInstance = NoInstance
    NoId = NoId
SPECIFICATION FairSpec
PROPERTY DeletedStopsListening
