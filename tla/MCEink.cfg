SPECIFICATION Spec
CONSTANTS
    Rows = {1, 2}
    Colours = {0, 3}
    White = 3
    Unclear = Unclear
INVARIANTS TypeOK RestShowsFrame
PROPERTIES StartsFromTheGlass NothingRefused PowerOffShown ShownInTheEnd
