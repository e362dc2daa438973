SPECIFICATION Spec
CONSTANTS
    Ports = {p1, p2, p3}
    Bus <- MCBus
    MaxAddress = 3
    Capacity = 1
    MaxScans = 2
    Values <- MCValues
    Handles = {h1, h2}
    Interfaces = {0, 1}
    WithDriver = {0}
    NoInterface = 9
INVARIANTS
    RefsBalanced
    DescriptorsReadable
    CacheFollows
    
PROPERTIES
    ListIsComplete
CHECK_DEADLOCK FALSE
