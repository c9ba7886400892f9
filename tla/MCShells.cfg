SPECIFICATION ShellsSpec
CONSTANTS
    Sizes = {1, 2}
    MaxSerial = 3
    MaxQueue = 2
    PopSurface = {"p1", "p2"}
    PopRoot = "r"
    NoPop = NoPop
    AnchorPos <- MCAnchorPos
    PopupLen = {2, 5}
    RectLen = {1, 2}
    AreaLen = 4
    Adjustments <- MCAdjustments
    LayerFields = {"size", "anchor"}
    LayerSizes = {1, 2}
    MaxLayerSerial = 2
    MaxLayerQueue = 1
    MaxLayerSets = 1
    LockId = {1}
    LockSurface = {"s1", "s2"}
    LockOutput = {"o1", "o2"}
    LockSizes = {1, 2}
    MaxLockSerial = 2
    MaxLockQueue = 2
    LockEarly = {"s1"}
    NoLock = NoLock
    SyncedKind = {"alpha", "content", "tearing", "color", "blur"}
    SyncedValues = {0, 1}
    MaxAttached = 2
    MaxSyncedGen = 2
    MaxCached = 1
    MaxFeedback = 1
    MaxOutputSeq = 2
    XWin = {"w1", "w2"}
    MaxXSerial = 4
    XSeqMod = 8
    XBursts = {3, 5}
    MaxXOps = 3
    Chunk = 2
    MaxData = 5
    MaxClaims = 4
    MaxStarts = 3
    DragWin = {"w1", "w2"}
    WlTop = {"t1", "t2"}
    WlGroup = {"g1", "g2"}
    WlSpace = {"w1"}
    MaxWlRequests = 1
    LkTop = {"a", "b", "c"}
    LkImport = {"i1", "i2"}
    LkToken = {"k1", "k2"}
INVARIANTS MappedConfigured WishesSent RolesOwned RequestsAnswered WindowsManaged ExchangeSound WindowsShared
PROPERTIES AckMonotonic LayerChangesFlagged
CHECK_DEADLOCK FALSE
