CONSTANTS
    Sizes = {small, large}
    Pixels = {p1, p2}
    None = None
    MaxFrames = 3
    MaxUnits = 3
    MaxStarts = 2
SPECIFICATION FairSpec
INVARIANTS TypeOK EveryFrameShownOnce NothingInUseIsFreed
PROPERTIES FramesFitTexture HandlingEnds
CHECK_DEADLOCK FALSE
