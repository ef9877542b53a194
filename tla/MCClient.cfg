CONSTANTS
    BlockSize = 4
    Sources <- MCSources
    Modes = {TRUE, FALSE}
    Amount = 1
    Payloads = 3
SPECIFICATION ClientSpec
INVARIANTS ClientTypeOK SentInOrder EverythingIsSent
PROPERTIES ClientShutsDown
CHECK_DEADLOCK FALSE
