SPECIFICATION Spec
CONSTANTS
    a = a
    b = b
    c = c
    t1 = t1
    t2 = t2
    NoTask = NoTask
    NoAnswer = NoAnswer
    NoPlugin = NoPlugin
    Plugins <- ThreePlugins
    Requires <- Pair
    Optional <- Options
    Outdated <- OldB
    Tasks <- OneTask
    Calls <- AllCalls
    Faulty <- InitializeFails
    MaxLoads = 4
INVARIANTS
    TypeOK
    ResourcesTracked
PROPERTY
    RefinesServiceOrder
