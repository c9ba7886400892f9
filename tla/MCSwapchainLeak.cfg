CONSTANTS
    Cap = 2
    Buffer = {b1, b2, b3, b4}
    Ref = {state, queued, current}
    Local = local
    Mode = {m1, m2}
    None = None
    PassFails = TRUE
SPECIFICATION Spec
INVARIANTS
    AcquiredHeld
