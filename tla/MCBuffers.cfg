SPECIFICATION BuffersSpec
CONSTANTS
    NoParent = NoParent
    Surfaces = {root, a, b}
    Toplevels = {root}
    Fenced = {root}
    MaxSubCommits = 2
    MaxTreeCommits = 4

    Cap = 3
    Buffer = {b1, b2, b3, b4}
    Ref = {state, queued, current}
    Local = local
    Mode = {m1, m2}
    None = None
    PassFails = TRUE
    MinStage = 4
    MaxStage = 8
    EmptyGcs = 2
    SpanLens = {1, 2, 3}
    SpanAligns = {1, 2}
    MaxPoints = 3
    MaxSpans = 4
    MaxStageBufs = 2
    VkTexture = {"t1"}
    CbCap = 3
    MaxVkPoint = 6
    StartPool = 1
    VkFilter = {"bilinear", "nearest"}
    VkTransfer = {"linear", "srgb", "gamma22"}
    MaxPools = 2
    MaxVkSteps = 4
    MaxEsCommits = 2
    MaxEsJobs = 2
INVARIANTS TreeKept LocksOwned LocksCounted NoUseAfterFree SlotsExclusive BuffersFreed RendererSound
PROPERTIES SyncedWithParent
SYMMETRY Symmetry
CHECK_DEADLOCK FALSE
