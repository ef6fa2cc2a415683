SPECIFICATION FairSpec
CONSTANTS
    e1 = e1  e2 = e2  e3 = e3
    w1 = w1  w2 = w2
    s1 = s1  s2 = s2
    Events <- MCEvents
    Workers <- MCWorkers
    Closers <- MCClosers
    Buffer = 1
    Handlers = 2
    None = None
INVARIANTS StatsAddUp
PROPERTIES KeepsPromise AcceptedIsDispatched ShutdownReturns
