SPECIFICATION Spec
CONSTANTS
    RingSize = 4
    MidRead = FALSE
    BytesMax = 8
    ErrorsMax = 2
    SwitchesMax = 1
INVARIANT
    TypeOK
PROPERTIES
    BytesInOrder
    ReceptionResumes
