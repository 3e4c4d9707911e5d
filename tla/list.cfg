SPECIFICATION FairSpec
CONSTANTS
    t1 = t1  t2 = t2  n1 = n1  n2 = n2  n3 = n3
    Threads = {t1, t2}
    Nodes = {n1, n2, n3}
    Predicates <- OneOrMost
    head = head
    Null = Null
INVARIANTS ChainIsList NoUseAfterFree SeesEachOnce
PROPERTY OpReturns
CHECK_DEADLOCK FALSE
