SPECIFICATION FairSpec
CONSTANTS
    p1 = p1  p2 = p2  c1 = c1  c2 = c2
    Producers = {p1, p2}
    Consumers = {c1, c2}
    Timed = {c1}
    max_size_ = 2
    Policies <- OverflowPolicy
    MaxPush = 2
INVARIANTS CapacityRespected KeepsNewest NoLostWakeup
PROPERTIES ImplementsFifo PushReturns StoppedQueueDrains
CHECK_DEADLOCK FALSE
