SPECIFICATION Spec
CONSTANTS
    d1 = d1
    d2 = d2
    d3 = d3
    vp = vp
    None = None
    Devices = {d1, d2, d3}
    Interfaces = {0}
    Session <- MCSession
    VidPid <- MCVidPid
    MaxDevs = 1
    IntMod = 8
    LongMod = 64
    SockBuf = 2
    MaxCtxs = 1
SYMMETRY MCSymmetry
INVARIANTS
    CallsMatch
    HandlesAgree
    OpensTheListedDevice
    EndsExplained
    CleanShutdown
