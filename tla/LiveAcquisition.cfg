SPECIFICATION FairSpec
CONSTANTS
    product = product
    ours = ours
    theirs = theirs
    early = early
    late = late
    wall = wall
    PageOrder <- MCPageOrder
    Url <- MCUrl
    Catalog = {product}
    Anchored = {product}
    Atomic = {product, ours}
    Contents = {early, late, wall}
    ContentsAt <- MCContentsAt
    Readable = {early, late}
    UnitsIn <- MCUnitsIn
    Vietnamese = {"complaint"}
    Day <- MCDay
    NoDay = NoDay
    NoText = NoText
    Options <- MCOptions
    BatchSize = 2
    Concurrency = 1
    MaxPolls = 1
    MaxRuns = 2
    MaxUpsets = 1
INVARIANTS
    ReadsAgree
    CompletedUnitsAreKept
PROPERTIES
    RequestsAreDue
    RunsEnd
CHECK_DEADLOCK FALSE
