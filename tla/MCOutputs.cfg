CONSTANTS
    b1 = b1
    b2 = b2
    b3 = b3
    Buffer <- MCBuffer
    Width <- MCWidth
    Height <- MCHeight
    ScreenWidth = 3
    ScreenHeight = 1
    MAX_RECTS = 1
    NumConns = 3
    NumCrtcs = 3
    SceneOutput <- MCSceneOutput
    SceneOutputWidth = 2
    ScenePos = {0, 1}
    SceneLen = {1, 2}
    MaxSceneOps = 4
    StackSub = {"a", "b", "c"}
    MaxStackCached = 2
    MaxStackOps = 7
    ArrangeArea = 6
    ArrangeLen = {0, 1, 2}
    ArrangeMargin = {0, 1}
    ArrangeZone <- MCArrangeZone
SPECIFICATION OutputsSpec
SYMMETRY Symmetry
INVARIANTS
    RotateSound
    RotateTight
    IsBest
    PictureKept
    SceneAgrees
CHECK_DEADLOCK FALSE
