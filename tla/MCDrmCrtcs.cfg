CONSTANTS
    NumConn = 2
    Crtc = {k1, k2}
    Possible <- OneShared
    Buffer = {b1, b2, b3}
    Flip = {f1, f2}
    None = None
    Scheduling = {}
    Pluggable = {2}
    Legacy = FALSE
    DisableFails = FALSE
SPECIFICATION DrmSpec
INVARIANTS
    CrtcsSetUp
CHECK_DEADLOCK FALSE
