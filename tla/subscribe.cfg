SPECIFICATION FairSpec
CONSTANTS
    s1 = s1  s2 = s2  s3 = s3  p1 = p1  p2 = p2
    Streams = {s1, s2}
    Publishers = {p1, p2}
    Top = Top
    MaxChanges = 2
    MaxThrows = 1
INVARIANTS HearsEveryChange SameOrder OnlyLostDangle
PROPERTIES StreamEnds
CHECK_DEADLOCK FALSE
