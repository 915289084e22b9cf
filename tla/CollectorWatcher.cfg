SPECIFICATION FairSpec
CONSTANTS
    discovery = discovery
    export = export
    plain = plain
    linked = linked
    broken = broken
    huge = huge
    page = page
    Paths <- MCPaths
    Verified = {export}
    Contents = {plain, linked, broken, huge}
    Missing = Missing
    Broken = {broken}
    Oversized = {huge}
    Direct = {plain}
    Pages = {page}
    PagesOf <- MCPagesOf
    MaxWrites = 3
    MaxFaults = 2
INVARIANTS
    CheckpointIsTrue
    FailedReadsAreNotRepeated
PROPERTIES
    LastSnapshotIsPublished
