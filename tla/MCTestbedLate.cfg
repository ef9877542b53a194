CONSTANTS
    rawRun = rawRun
    rsRun = rsRun
    Nalus <- MCWrapNalus
    Streams = {rawRun, rsRun}
    Size <- MCWrapSize
    NoBlock = NoBlock
    MaxBlocks = 6
    Encoded = {rsRun}
    Shares = {0, 1}
    Needed = 2
    Forgets = {FALSE}
    IdUnits = 2
    RxCapacity = 2
    MaxPackets = 6
    Sent <- MCWrapSent
    Delayed = {rawRun}
SPECIFICATION BedSpec
INVARIANTS BlocksAddUp StaleUnitsComeOfSkips 
CHECK_DEADLOCK FALSE
