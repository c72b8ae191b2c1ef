SPECIFICATION Spec
CONSTANTS
    RingSize = 4
    MidRead = TRUE
    BytesMax = 8
    ErrorsMax = 2
    SwitchesMax = 1
INVARIANT
    OnlyNewBytes
