CONSTANTS
    BlockSize = 3
    Sources <- MCSources
SPECIFICATION Spec
INVARIANTS TypeOK BlocksRebuildUnits EndMeansAllRead
CHECK_DEADLOCK FALSE
