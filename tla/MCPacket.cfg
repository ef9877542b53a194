CONSTANTS
    BlockSize = 16
    Blocks <- MCBlocks
    Oversize = {0, 1}
    Strays <- MCStrays
    RxCapacity = 2
    MaxBlocks = 2
    MaxLost = 1
    MaxStrays = 1
SPECIFICATION Spec
INVARIANTS BlocksArriveUnchanged EveryBlockArrives
CHECK_DEADLOCK FALSE
