CONSTANTS
    run1 = run1
    Nalus <- MCNalus
    Streams = {run1}
    Size <- MCSize
    NoBlock = NoBlock
    MaxBlocks = 4
    Encoded = {run1}
    Shares = {0, 1}
    Needed = 2
    Forgets = {TRUE, FALSE}
    IdUnits = 2
    RxCapacity = 1
    MaxPackets = 4
SPECIFICATION ServerSpec
INVARIANTS ServerTypeOK NoLostWakeup EveryBlockHasItsPacket
PROPERTIES ImplementsPlayer QueueDrains
CHECK_DEADLOCK FALSE
