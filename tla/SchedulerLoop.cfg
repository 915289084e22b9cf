SPECIFICATION FairLoopSpec
CONSTANTS
    Interval = 2
    MaxBackoff = 11
    Calls = 2
    MaxFailures = 5
INVARIANTS
    CyclesAreSafe
PROPERTIES
    StopEndsTheThread
    FailedCyclesAreRetried
