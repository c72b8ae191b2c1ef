SPECIFICATION FairSpec
CONSTANTS
    Settings = {d, a, b}
    Default = d
    Mixed = mixed
    NoFile = nofile
    SAVE_TIMEOUT = 2
    Faults = {"openTmp", "write", "sync", "close"}
INVARIANT TypeOK
PROPERTIES
    AtomicSettings
    SavedMeansStored
    PositionSaved
