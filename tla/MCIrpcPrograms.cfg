SPECIFICATION FairSpec
CONSTANTS
    None = None
    Clients = {c1, c2}
    Devices = {d1, d2, d3}
    Recovery = {d2}
    MaxDevs = 2
    Slot = 2
    Backlog = 1
INVARIANTS
    
    ClosesWhatItOpened
PROPERTY
    ProgramsEnd
