SPECIFICATION FairSpec
CONSTANTS
    Items = {item, replay}
    Replays = {replay}
    Ownable = {item, replay}
    Malformed = malformed
    Codes = {malformed, timeout, refused}
    NoItem = NoItem
    MaxPrompts = 2
    MaxAborts = 2
INVARIANTS
    RowsAgree
PROPERTIES
    AttemptsAreDue
    FailedIsRevisited
