SPECIFICATION Spec
CONSTANTS
    post = post
    unit = unit
    reread = reread
    third = third
    review = review
    foreign = foreign
    link = link
    words = words
    other = other
    social = social
    mixed = mixed
    export = export
    Rows = {post, unit, reread, third, review, foreign}
    Url <- MCUrl
    Hash <- MCHash
    NoUrl = NoUrl
    Units = {unit, reread, third}
    Files = {social, export, mixed}
    RowsIn <- MCRowsIn
    Foreign = {foreign}
    Faulty = {mixed}
    Generic = {social}
    Legacies <- MCLegacies
    NoRow = NoRow
    NoFile = NoFile
    NoRun = NoRun
    MaxRuns = 3
    MaxFaults = 2
INVARIANTS
    AuditAgrees
    ReplaysAreCollapsed
PROPERTIES
    ReplaysAreRefused
