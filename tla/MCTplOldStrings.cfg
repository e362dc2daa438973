SPECIFICATION TplSpec
CONSTANTS
    Nothing = Nothing
    Versions = {"1.2", "1.3"}
    MaxElements = 2
    Header = 2
    Sizes = {3, 4}
    MaxImages = 3
    BufLen = 5
    GatherMax = 6
INVARIANTS
    UnpacksWhatPeekSees
CHECK_DEADLOCK FALSE
