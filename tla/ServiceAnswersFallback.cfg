SPECIFICATION ServiceSpec
CONSTANTS
    SourceOrder <- MCSourceOrder
    SubtopicOrder <- MCSubtopicOrder
    Guardian = "guardian"
    DriverSupport = 1
    None = None
    MinCurrent = 2
    MinBaseline = 2
    MinSupport = 2
    MinExcess = 1
    MinGrowth <- MCMinGrowth
    MinDelta <- MCMinDelta
    CriticalSquare <- MCCriticalSquare
    MinSourceGroups = 2
    StaleHours = 48
    StaleAfter = 30
    TopicNames <- MCTopicNames
    TopN = 1
    WeeksRequired = 3
    Lookback = 4
    Offset = 7
    Brands <- MCBrands
    MinSample = 2
    Limit = 2
    UnitInputs <- MCUnitInputs
    HealthInputs <- MCHealthInputs
    TrendInputs <- MCTrendInputs
    References <- MCReferences
    WeekInputs <- MCWeekInputs
    WindowInputs <- MCWindowInputs
    CohortInputs <- MCCohortInputs
    CandidateInputs <- MCCandidateInputs
    EvidenceLimit = 3
    ReviewLimit = 1
    ProductOrder <- MCProductOrder
    PublicSources <- MCPublicSources
    MonthDays = 10
    LongRange = 20
    TrendMonths = 3
    TransportRetries = 1
    ValidationRetries = 1
    Playbook <- MCPlaybook
    NoReply = NoReply
    Refused = Refused
    Malformed = Malformed
    MaximumWords = 20
    NoValue = NoValue
    Unread = Unread
    Blank = Blank
    Bad = Bad
    MaxRows = 3
    AsOf <- MCAsOf
    DashboardInputs <- MCDashboardInputs
    TodayInputs <- MCTodayInputs
    PageInputs <- MCPageInputs
    CardInputs <- MCCardInputs
    Drafts <- MCDrafts
    ClassifyInputs <- MCClassifyInputs
    Objects <- MCObjects
    FileInputs <- MCFileInputs
INVARIANT FallbackIsSafe
CHECK_DEADLOCK FALSE
