SPECIFICATION Spec
CONSTANTS
    Slots <- MCSlots
    CacheSize = 3
    AheadMax = 2
    SectorSize = 2
    PartFails = TRUE
    Files <- MCOneFile
    Temporary = {}
    Absent = Absent
    Cards <- MCOneCard
    Written = {9}
    LenMax = 0
    Offsets = {1}
    Sizes = {2}
INVARIANT FoundIsTheSame
