SPECIFICATION Spec
CONSTANTS
    Sizes = {1}
    MaxSerial = 1
    MaxQueue = 3
INVARIANT NoAssertionFails
CHECK_DEADLOCK FALSE
