SPECIFICATION FairSpec
CONSTANTS
    c1 = c1
    c2 = c2
    c3 = c3
    d1 = d1
    d2 = d2
    d3 = d3
    e1 = e1
    e2 = e2
    h1 = h1
    h2 = h2
    h3 = h3
    a1 = a1
    s1 = s1
    none = none
    t1 = t1
    t2 = t2
    t3 = t3
    t4 = t4
    t5 = t5
    Explored <- AllParts
    EstimatedTotal = 9
    BatchSize = 2
    MaxPages = 0
    ChunkSize = 3
    MaxConcurrent = 2
    PageSizes <- UpToOne
    Callers <- Three
    Sources <- OneSource
    MaxLoops = 2
    Events <- TwoEvents
    Handlers <- ThreeHandlers
    Accepting <- TwoOfThem
    Runners <- Two
    Senders <- Two
    Requests <- ListAndItem
    Mapped <- Renamed
    Patterns <- ListOrId
    Matches <- ItemMatches
    ResponseTtl = 2
    MaxInstant = 2
    MaxRequests = 3
    Threads <- Two
    Ttl = 2
    MaxRetries = 1
    MaxTime = 3
    Executors <- Two
    Middleware <- TwoMiddlewares
    Readers <- OneReader
    Docs <- ThreeDocs
    PageSize = 1
    MaxPage = 3
    MaxWrites = 2
    MaxErrors = 1
    Fetchers <- Two
    Cleaners <- OneCleaner
    Announcements <- OneAnnouncement
    Numbered <- OneAnnouncement
    ApiPages <- PagesOfItems
    DocIds <- ThreeDocs
    MaxFailures = 1
    MaxEdits = 1
    Absent = none
    Calls <- Two
    Clients <- ThreeDocs
    NoClient = none
    Endpoints <- TwoEndpoints
    MaxAttempts = 2
    Pool <- Two
    Services <- TheServices
    Bound <- TheBound
    Needs <- TheNeeds
    Passing <- Two
    Layers <- ThreeHandlers
    Order <- TheOrder
    PhasesOf <- ThePhases
    RequestPhases <- PreRequest
    ResponsePhases <- PostResponse
    MaxChanges = 4
    Versions <- FiveVersions
    V1 = t1
    Retired <- RetiredVersions
    Steps <- TwoWays
    Targets <- TwoTargets
    Incoming <- ThoseNamed
    Checkers <- Two
    Limit = 1
    Window = 2
    LastStamp = 3
CHECK_DEADLOCK FALSE
INVARIANTS
    TypeOK
    BatchReportTrue
    ManagerInCharge
    WalkComplete
    FetchedOnce
    ClientCallsKept
    UndisturbedAlone
    FailuresRecorded
    QueueAttended
    PhaseRunsAll
    ResolutionsKeepTrack
    OvershootBounded
    MiddlewareClosed
    FallbackIsFresh
    CachedAnswersFit
    MigratesByTheShortestWay
PROPERTIES
    NumberedKept
    CollectionEnds
    ListCatchesUp
