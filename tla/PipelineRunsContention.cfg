SPECIFICATION FairSpec
CONSTANTS
    Startup = boot
    Threads = {boot, a}
    NoThread = NoThread
    NoRun = NoRun
    Files = {f}
    Generic = {}
    NoFile = NoFile
    MaxCalls = 3
    MaxCrashes = 0
    Faults = FALSE
INVARIANTS
    OneElectedWriter
    NoCircularWait
    NoOrphans
PROPERTIES
    QueuedRunsSettle
