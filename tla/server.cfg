SPECIFICATION ServerSpec
CONSTANTS
    s1 = s1  p1 = p1  p2 = p2  k1 = k1  k2 = k2
    Streams = {s1}
    Publishers = {p1, p2}
    Top = Top
    MaxChanges = 2
    MaxThrows = 1
    Keys = {k1, k2}
    AppendMayThrow = TRUE
    MaxCrashes = 1
INVARIANTS   KeepsCallOrder 
SYMMETRY PublisherSymmetry
CHECK_DEADLOCK FALSE
