SPECIFICATION Spec
CONSTANTS
    RetryDelays <- MCRetryDelays
    LOGGER_STABLE = 3
    FailuresMax = 4
INVARIANT
    TypeOK
PROPERTIES
    BackoffKept
    RecordsForGood
