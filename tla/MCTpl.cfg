SPECIFICATION FairSpec
CONSTANTS
    Nothing = Nothing
    Versions = {"1.3"}
    MaxElements = 2
    Header = 2
    Sizes = {3, 4}
    MaxImages = 3
    BufLen = 5
    GatherMax = 6
INVARIANTS
    SizeIsExact
    GatheredInOrder
PROPERTIES
    ImplementsTplValues
    AllGathered
CHECK_DEADLOCK FALSE
