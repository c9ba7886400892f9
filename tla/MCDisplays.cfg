CONSTANTS
    NumConn = 2
    Crtc = {k1, k2}
    Possible <- OneShared
    Buffer = {b1, b2, b3}
    Flip = {f1, f2}
    None = None
    Scheduling = {}
    Pluggable = {2}
    Legacy = FALSE
    DisableFails = FALSE
    NstBuffer = {"b1"}
    MaxNstWl = 2
    MaxNstSeq = 3
    MaxNstSerial = 3
    MaxNstQueue = 2
    NsSeat = {"s1", "s2"}
    NsOutput = {"o1", "o2"}
    NsId = {1, 2}
    TouchCap = 3
    MaxNsEvents = 6
    XbBuffer = {"b1"}
    XbArea = {1, 2}
    XbSize = {1, 2}
    XbTouch = {1, 2, 3}
    MaxXbSeq = 3
    MaxXbQueue = 3
    MaxXbEvents = 3
    CurOutput = {"o1", "o2"}
    CurCell <- MCCurCell
    CurDevice = {"d1"}
    CurPos <- MCCurPos
    MaxCurEnv = 2
    LayOutput = {"o1", "o2", "o3"}
    LaySeen = {"o1", "o2"}
    LayPos = {0, 1}
    LayWidth = {0, 1, 2}
    MaxLayEnv = 2
    OmOutput = {"o1", "o2"}
    OmClient = {"c1"}
    OmMode = {"m1"}
    OmConfig = {"k1"}
    MaxOmSerial = 2
    CapCell = {1, 2}
    CapSession = {"k1", "k2"}
    LsConn = {1, 2}
    LsCrtc = {1, 2}
    LsRequest = {1, 2}
    MaxLsPlugs = 1
SPECIFICATION DisplaysSpec
INVARIANTS ScanoutHeld FrameOwed FlipsOrdered NestedSound OutputsServed
PROPERTIES CrtcKept
CHECK_DEADLOCK FALSE
