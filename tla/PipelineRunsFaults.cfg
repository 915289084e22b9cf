SPECIFICATION FairSpec
CONSTANTS
    Startup = boot
    Threads = {boot, a}
    NoThread = NoThread
    NoRun = NoRun
    Files = {f, g}
    Generic = {g}
    NoFile = NoFile
    MaxCalls = 2
    MaxCrashes = 1
    Faults = TRUE
INVARIANTS
    TypeOK
    IngestedAtMostOnce
    ImportAnswersAreFinal
PROPERTIES
    ImplementsLedger
    CallsReturn
