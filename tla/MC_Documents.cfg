SPECIFICATION MCSpec
CONSTANTS
    NoRow = NoRow
    Readers = {r1}
    Deleters = {x1, x2}
    MaxRuns = 3
    MaxFailures = 1
    Backends = {"local", "s3"}
    PageCount = 4
    MinRetryPercent = 30
    FullRetryPercent = 60
    NoOutput = NoOutput
    LastPage = 2
    MaxLevel = 2
    Places = {"top", "foot"}
    NoBox = "none"
    ElementBoxes = {"top", "none"}
    MaxParts = 4
    TablePages = {1, 3, 6}
    HeadWords = {"a", "b"}
    NoWords = "none"
    Shapes <- MCShapes
    MaxTables = 3
    ChunkTokens = 3
    ChunkOverlap = 1
    ChunkPages = {1, 2, 3}
    Lengths = {1, 2, 4}
    MaxInRoot = 1
    MaxInSection = 2
    MaxSections = 3
    BodySizes = {0, 4}
    TokenBudget = 3
    MaxPerGroup = 2
    BatchSize = 2
    CallLimit = 2
    NoAnswer = NoAnswer
INVARIANTS
    DocumentsTypeOK
    ReadyIsComplete
    ChunksHaveTheirRow
    DeletedIsNeverReady
    RetryCostIsBounded
    TreeKeepsWhatIsFound
    TreeIsWellNested
    RowsReachOneResult
    ChunksCoverTheDocument
    IndexFollowsTheGroups
PROPERTIES
    EnrichedIndexIsKept
CHECK_DEADLOCK FALSE
