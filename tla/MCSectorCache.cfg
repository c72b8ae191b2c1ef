SPECIFICATION Spec
CONSTANTS
    Slots <- MCSlots
    CacheSize = 3
    AheadMax = 2
    SectorSize = 2
    PartFails = FALSE
    Files <- MCFiles
    Temporary = {"b"}
    Absent = Absent
    Cards <- MCCards
    Written = {9}
    LenMax = 1
    Offsets = {1}
    Sizes = {3}
INVARIANTS TypeOK CacheCoherent NoDuplicates LocksMatchSlots
PROPERTIES ReadsTheFile BlockStays
