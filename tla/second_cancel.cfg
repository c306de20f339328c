SPECIFICATION Spec
CONSTANTS
    w1 = w1
    w2 = w2
    u1 = u1
    u2 = u2
    r1 = r1
    r2 = r2
    t1 = t1
    t2 = t2
    NullTitle = NullTitle
    NoDoc = NoDoc
    NoReply = NoReply
    Workers <- OneWorkerSet
    Users <- OneUser
    Requests <- OneRequest
    Titles <- OneTitle
    Edits <- SameEdit
    Statuses <- OneStatus
    Categories <- KnownCategory
    CategoryIds <- KnownCategory
    Calls <- VoteOnly
    MaxVoteDocs = 3
    MaxFaults = 0
INVARIANT
    WithdrawnMeansGone
