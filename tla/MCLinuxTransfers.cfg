SPECIFICATION FairSpec
CONSTANTS
    MAX_BULK_BUFFER_LENGTH = 2
    BulkLengths = {0, 3, 5}
    MAX_ISO_BUFFER_LENGTH = 3
    PacketLists <- MCPacketLists
    UrbsFail = TRUE
    MAX_CTRL_BUFFER_LENGTH = 2
    SETUP = 8
    ControlLengths = {8, 9, 10, 11}
    MaxSubmits = 2
INVARIANTS
    TypeOK
    FreedWhenUnused
    SurplusDataKept
    CompletedMeansDone
    PacketsInPlace
PROPERTIES
    GivenUpIsReported
    ImplementsUsbTransfer
CHECK_DEADLOCK FALSE
