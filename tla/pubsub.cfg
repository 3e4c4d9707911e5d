SPECIFICATION FairSpec
CONSTANTS
    w1 = w1  w2 = w2  s1 = s1  s2 = s2
    Workers = {w1, w2}
    NoTask = NoTask
    Subscribers = {s1, s2}
    Nowhere = Nowhere
    Top = Top
    MaxSets = 2
INVARIANTS  ToldExactlyOnce
PROPERTY UnsubscribeReturns
CHECK_DEADLOCK FALSE
