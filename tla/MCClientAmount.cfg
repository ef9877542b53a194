CONSTANTS
    BlockSize = 4
    Sources <- MCSources
    Modes = {TRUE}
    Amount = 1
    Payloads = 3
SPECIFICATION ClientSpec
INVARIANTS AtMostAmountPerBlock
CHECK_DEADLOCK FALSE
