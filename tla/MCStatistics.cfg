CONSTANTS
    Default <- MCDefault
    Configured <- MCConfigured
    Nalus = {0}
    Totals <- MCTotals
    MaxPackets = 4
SPECIFICATION Spec
INVARIANTS TypeOK AcceptedWithinExpected
PROPERTIES ColumnsGrow CountShows StopEndsOrHangs
CHECK_DEADLOCK FALSE
