CONSTANTS
    rawRun = rawRun
    rsRun = rsRun
    Nalus <- MCNalus
    Streams = {rawRun, rsRun}
    Size <- MCSize
    NoBlock = NoBlock
    MaxBlocks = 6
    Encoded = {rsRun}
    Shares = {0, 1, 2}
    Needed = 2
    Forgets = {FALSE}
    IdUnits = 2
    RxCapacity = 2
    MaxPackets = 6
    Sent <- MCSent
    Delayed = {}
SPECIFICATION BedSpec
INVARIANTS NoStaleUnit
PROPERTIES AwaitedUnitIsPlayed RecoverableVideoIsPlayed
CHECK_DEADLOCK FALSE
