SPECIFICATION Spec
CONSTANTS
    StrLen <- MCStrLen
    GPX_BUFFER_SIZE = 5
    TrackIds = {0}
    LOGGER_NAME_MAX_ATTEMPTS = 2
    LOGGER_SYNC_POINTS = 4
    LOGGER_OUTLIER_RESET_COUNT = 3
    TRACK_RAM_MAX_POINTS = 3
    MaxPoints = 5
    Faults <- MCFaults
    NoName = NoName
INVARIANTS
    TypeOK
    StreamIntact
    FilesWellFormed
    LossWindow
    RamTrackIsRecent
PROPERTIES
    FilesOnlyGrow
    RecordingKeepsRamTrack
