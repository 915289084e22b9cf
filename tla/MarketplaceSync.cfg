SPECIFICATION FairSpec
CONSTANTS
    i1 = i1 i2 = i2 a = a b = b c = c d = d x = x
    Platforms = {"shopee", "lazada"}
    Catalogue <- MCCatalogue
    Shelves <- MCShelves
    NewestFirst = {TRUE, FALSE}
    FirstReviews <- MCFirstReviews
    Reviews = {a, b, c, d, x}
    ItemOf <- MCItemOf
    Wanted = {a, c, d, x}
    Calls <- MCCalls
    ItemPage = 1
    PageSize = 2
    MaxPages = 3
    None = None
    MaxSyncs = 2
    MaxChanges = 1
    MaxOdd = 1
INVARIANTS
    CompletenessIsTrue
    QuietSyncIsComplete
PROPERTIES
    CompleteStoredAll
    SyncEnds
CHECK_DEADLOCK FALSE
