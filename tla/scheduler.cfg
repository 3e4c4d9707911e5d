SPECIFICATION FairSpec
CONSTANTS
    w1 = w1  w2 = w2  x1 = x1  x2 = x2
    Workers = {w1, w2}
    NoTask = NoTask
    Tasks = {x1, x2}
    Actors = Actors
    Intervals = {1}
    MaxTime = 1
INVARIANTS NeverOversleeps OneOffOnce
PROPERTIES  ShutdownReturns
CHECK_DEADLOCK FALSE
