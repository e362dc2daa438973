SPECIFICATION Spec
CONSTANTS
    d1 = d1
    d2 = d2
    d3 = d3
    vp = vp
    None = None
    Devices = {d1}
    Interfaces = {0}
    Session <- MCWideSession
    VidPid <- MCOneVidPid
    MaxDevs = 1
    IntMod = 8
    LongMod = 64
    SockBuf = 1
    MaxCtxs = 1
INVARIANT
    EntryFindsDevice
