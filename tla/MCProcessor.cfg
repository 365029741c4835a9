SPECIFICATION LiveSpec
CONSTANTS
    e1 = e1
    e2 = e2
    e3 = e3
    e4 = e4
    c1 = c1
    c2 = c2
    c3 = c3
    s1 = s1
    s2 = s2
    Idle = Idle
    NoState = NoState
    NoContext = NoContext
    Events <- MCEvents
    Workers <- MCWorkers
    Capacity = 2
    Addresses = {1, 2}
    Callers = {c1, c2, c3}
    States = {s1, s2}
INVARIANTS
    QueueInv
    EngineInv
    WorkersFindState
PROPERTIES
    ImplementsDelivery
    EveryCallReturns
CHECK_DEADLOCK FALSE
