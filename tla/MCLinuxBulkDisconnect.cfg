SPECIFICATION Spec
CONSTANTS
    MAX_BULK_BUFFER_LENGTH = 2
    Lengths = {3}
    MaxSubmits = 1
INVARIANTS
    FreedUnderLock
CHECK_DEADLOCK FALSE
