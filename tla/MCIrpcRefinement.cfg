SPECIFICATION FairSpec
CONSTANTS
    d1 = d1
    vp = vp
    None = None
    Devices = {d1}
    Interfaces = {0}
    Session <- MCSession
    VidPid <- MCVidPid
    MaxDevs = 1
    IntMod = 8
    LongMod = 64
    SockBuf = 3
    MaxCtxs = 1
INVARIANT
    IInv
PROPERTIES
    CallReturns
    SessionEnds
    ImplementsRemoteCalls
