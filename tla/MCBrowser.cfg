SPECIFICATION BrowserSpec
CONSTANTS
    LocalEdit = {e1}
    PeerEdit = {p1}
    Import = imp
    MaxVisits = 2
    MaxDrops = 1
    MaxCalls = 4
    MaxAtOnce = 2
    Existing = {10}
    Text = {t1, t2}
    MaxCommentCalls = 3
    MaxOpens = 2
    MaxMounts = 2
    PageSize = 1
    MaxQueries = 2
    MaxDocumentCalls = 4
    MaxAsks = 6
    MaxAsksAtOnce = 2
    MaxEdits = 1
    MaxShows = 2
    Length = 2
    MaxChanges = 2
    MaxBatches = 1
    MaxFiles = 2
    BlamePage = 1
    Tab = {a, b}
    MaxGrants = 3
    MaxFlights = 3
    Group = 2
    Word = 5
    MaxCells = 12
    MaxPayload = 5
    MaxLines = 4
    MaxUpdates = 3
INVARIANTS
    BrowserTypeOK
    
    SettledListsMatch
    WaitingEnds
    ShownIsWhatWasAsked
    CommentsFollowTheirText
    SessionsAreKept
    ToolsAreExact
PROPERTIES
    PeersSurviveRecovery
    TypedCommentSurvives
    UploadsTouchOnlyTheirPlaceholder
CHECK_DEADLOCK FALSE
