SPECIFICATION FairSpec
CONSTANTS
    p1 = p1  p2 = p2  c1 = c1  c2 = c2
    Producers = {p1, p2}
    Consumers = {}
    Timed = {}
    max_size_ = 1
    Policies <- Blocking
    MaxPush = 2
PROPERTY StopReleasesSleepers
CHECK_DEADLOCK FALSE
