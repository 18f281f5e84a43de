CONSTANTS
    wdim = 2
    hdim = 2
    area0 = 3
    area1 = 8
    Memory = {0, 1}
    Pictures <- EvenOnly
SPECIFICATION GLSpec
INVARIANT OnlyBrightCounted
CHECK_DEADLOCK FALSE
