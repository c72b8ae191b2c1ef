SPECIFICATION Spec
CONSTANTS
    TrackMax = 3
    EventsMax = 5
INVARIANTS
    TypeOK
    TrackDrawn
PROPERTIES
    TrackerStill
    QuietInTheEnd
    TrueInTheEnd
CHECK_DEADLOCK FALSE
