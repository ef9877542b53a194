CONSTANTS
    s1 = s1
    s2 = s2
    Nalus <- MCNalus
    Streams = {s1, s2}
    Size <- MCSize
    NoBlock = NoBlock
    MaxBlocks = 5
SPECIFICATION FairSpec
INVARIANTS TypeOK SkipsArePaidFor
PROPERTIES ImplementsPlayback AwaitedUnitIsKept ReturnsForAReason StopReturns
