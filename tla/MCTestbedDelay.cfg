CONSTANTS
    rawRun = rawRun
    rsRun = rsRun
    Nalus <- MCNalus
    Streams = {rawRun}
    Size <- MCSize
    NoBlock = NoBlock
    MaxBlocks = 6
    Encoded = {}
    Shares = {0, 1, 2}
    Needed = 2
    Forgets = {FALSE}
    IdUnits = 2
    RxCapacity = 2
    MaxPackets = 6
    Sent <- MCSent
    Delayed = {rawRun}
SPECIFICATION BedSpec
PROPERTIES AwaitedUnitIsPlayed
CHECK_DEADLOCK FALSE
