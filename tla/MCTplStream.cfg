SPECIFICATION Spec
CONSTANTS
    Header = 2
    Sizes = {3, 5, 7, 8}
    PipeBuf = 6
    GatherMax = 7
    MaxDumps = 4
INVARIANTS
    TypeOK
    OneStream
PROPERTIES
    ImplementsImageQueue
    CallsReturn
CHECK_DEADLOCK FALSE
