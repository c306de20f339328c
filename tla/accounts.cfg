SPECIFICATION Spec
CONSTANTS
    p1 = p1
    p2 = p2
    p3 = p3
    u1 = u1
    u2 = u2
    e1 = e1
    e2 = e2
    g1 = g1
    n1 = n1
    n2 = n2
    s1 = s1
    s2 = s2
    NoId = NoId
    NoGoogle = NoGoogle
    Explored <- AllParts
    Workers <- Two
    Ids <- TwoIds
    Emails <- TwoEmails
    GoogleIds <- OneIdentity
    Parts <- TwoParts
    EmailIndexed = TRUE
    MaxFailures = 1
    Processes <- Three
    States <- TwoStates
    Servers <- Two
    Second = 3
    AccessLife = 3
    RefreshLife = 6
    RedisMayFail = TRUE
    FailClosed = FALSE
    MaxSignIns = 1
    MaxPairs = 4
    MaxLogouts = 1
    MaxTime = 6
    Dispatchers <- Two
    PerMinute = 2
    PerHour = 3
    Minute = 2
    Hour = 4
    LastTick = 4
    MaxRequests = 3
    MaxRestarts = 1
    Clients <- Three
    Fields <- TwoParts
SYMMETRY ServerSymmetry
CHECK_DEADLOCK FALSE
INVARIANTS
    TypeOK
    OneAccountPerIdentity
    NoLateUse
    UsesBounded
    ExchangesBounded
    AdmissionsBounded
PROPERTIES
    SettingsKept
    RevocationHolds
    UpdatesKept
