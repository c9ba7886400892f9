SPECIFICATION Spec
CONSTANTS
    SeatClient = {"c1", "c2"}
    SeatSurface = {"s1", "s2"}
    SeatOwner <- MCSeatOwner
    SeatId = {1}
    Button = {"b1", "b2"}
    ButtonsCap = 2
    TouchId = {1}
    SeatKindSets <- OneKind
    MaxSeatRes = 1
    MaxPress = 2
    AxisSource = {"wheel", "finger"}
    NoSeat = NoSeat
    SerialWidth = 12
    RingSize = 2
    MaxSerials = 11
    DndClient = {"c1", "c2"}
    DndSurface = {"s1", "s2"}
    DndOwner <- MCDndOwner
    DndSource = {"a", "b"}
    NewClient = {"c2"}
    NewSource = {"a"}
    NoDnd = NoDnd
    SelClient = {"c1"}
    SelSource = {"a", "b", "z"}
    ControlSource = {"z"}
    WlrControl = {"w"}
    ExtControl = {"e"}
    MaxSelSerial = 1
    NoSel = NoSel
    TabClient = {"c1", "c2"}
    TabSurface = {"f1", "f2"}
    TabOwner <- MCTabOwner
    TabButton = {1, 2}
    ButtonCap = 1
    PadRings <- MCPadRings
    PadMode = {0, 1}
    TxSurface = {"f1", "f2"}
    TxKeyboard = {"k1", "k2"}
    MaxTxSerial = 3
    MaxTxQueue = 2
    KbDevice = {"k1", "k2"}
    KbVirtual = {"v1"}
    MaxKbMods = 1
    MaxKbCount = 2
    PcSurface = {"s1"}
    PcConstraint = {1, 2}
    PcRegion <- MCPcRegion
    MaxPcSteps = 4
    IdNote = {1, 2}
    IdSeat = {"x1", "x2"}
    IdSurface = {"s1"}
    MaxIdEvents = 5
INVARIANTS ReferencesLive ClientsInformed SerialsRecognised DevicesFollowed TextAgreed
CHECK_DEADLOCK FALSE
