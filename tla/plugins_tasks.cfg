SPECIFICATION Spec
CONSTANTS
    a = a
    b = b
    c = c
    t1 = t1
    t2 = t2
    NoTask = NoTask
    NoAnswer = NoAnswer
    NoPlugin = NoPlugin
    Plugins <- TwoPlugins
    Requires <- Pair
    Optional <- NoPairs
    Outdated <- NoPairs
    Tasks <- TwoTasks
    Calls <- AllCalls
    Faulty <- BothFail
    MaxLoads = 2
INVARIANT
    InitializingIsAttended
PROPERTY
    EveryCallAnswered
