SPECIFICATION FairSpec
CONSTANTS
    Threads = {t1, t2, t3}
    MaxWaits = 4
    Users = {u1, u2}
    EventThread = ev
    MAX_FDS = 2
    MaxFd = 3
    MaxWrites = 2
INVARIANTS
    OneSlotEach
    ReadNeverBlocks
    BroadcastMissesNone
PROPERTIES
    WritesAreRead

CHECK_DEADLOCK FALSE
