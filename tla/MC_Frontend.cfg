SPECIFICATION MCSpec
CONSTANTS
    Parts = {"tabs", "uploads", "conversation", "viewer", "account", "chat"}
    NoDoc = NoDoc
    Pdfs = {a, b}
    Damaged = {b}
    MaxLoads = 4
    NoUser = NoUser
    v1 = v1
    v2 = v2
    Users <- MCUsers
    MaxFetches = 2
    MaxChats = 1
    Null = Null
    NoChat = NoChat
    d1 = d1
    d2 = d2
    u1 = u1
    u2 = u2
    MaxFiles = 2
    Remote = {d1, d2}
    Uploads = {u1, u2}
    MaxClicks = 3
    MaxQuestions = 4
    MaxReplacements = 3
    Nothing = Nothing
    AgentMaxRetries = 1
    RetrievalMaxRetries = 2
INVARIANTS
    ReaderTypeOK
    PendingIsPolled
    TwiceOnlyByOverlap
    AnswersFollowTheirQuestions
    TrustBelongsToItsAnswer
    SentAnswerWasJudged
    RetryChangesTheSearch
    StreamIsWellFormed
    ViewerShowsTheLast
    AccountIsTheReaders
PROPERTIES
    StatusReachesTheTab
    GraphEnds
CHECK_DEADLOCK FALSE
