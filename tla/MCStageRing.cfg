SPECIFICATION RingSpec
CONSTANTS
    MinStage = 4
    MaxStage = 8
    EmptyGcs = 2
    SpanLens = {1, 2, 3}
    SpanAligns = {1, 2}
    MaxPoints = 3
    MaxSpans = 5
    MaxStageBufs = 2
INVARIANTS SpansDisjoint
