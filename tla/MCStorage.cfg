SPECIFICATION Spec
CONSTANTS
    LOW_CONFIRM = 1
    RECOVER = 2
    SD_RETRY_PERIOD = 2
    MaxPass = 1
    BatteryStop = TRUE
INVARIANTS
    TypeOK
    MapFilesOfThisMount
PROPERTIES
    StopsInOrder
    SupplyDebounced
    RecoversForGood
