SPECIFICATION Spec
CONSTANTS
    w1 = w1
    w2 = w2
    u1 = u1
    u2 = u2
    r1 = r1
    r2 = r2
    t1 = t1
    t2 = t2
    NullTitle = NullTitle
    NoDoc = NoDoc
    NoReply = NoReply
    Workers <- OneWorkerSet
    Users <- TwoUsers
    Requests <- OneRequest
    Titles <- TwoTitles
    Edits <- OneEdit
    Statuses <- TwoStatuses
    Categories <- KnownCategory
    CategoryIds <- KnownAndUnknown
    Calls <- AllCalls
    MaxVoteDocs = 4
    MaxFaults = 0
INVARIANTS
    TypeOK
    CountsAgree
    ReplyVotedTruthful
PROPERTIES
    RefinesBallotBox
