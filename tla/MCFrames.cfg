SPECIFICATION FramesSpec
CONSTANTS
    c1 = c1
    r1 = r1
    h1 = h1
    h2 = h2
    NoBuffer = NoBuffer
    Buffers <- MCBuffers
    Rects <- OneRect
    Holders <- TwoHolders
    Scales <- TwoScales
    MaxCommits = 3
    MaxFields = 1
    NumConn = 1
    Crtc = {k1, k2}
    Possible <- OneShared
    Buffer = {b1, b2, b3}
    Flip = {f1, f2, f3}
    None = None
    Scheduling = {1}
    Pluggable = {1}
    Legacy = TRUE
    DisableFails = TRUE
INVARIANTS QueueHeld ShowsCommit FramesKept ScheduledFrameKept
PROPERTIES InOrder CommitsApplied FrameArrives
CHECK_DEADLOCK FALSE
