SPECIFICATION Spec
CONSTANTS
    a = a  b = b
    Keys = {a, b}
    Ttls = {1}
    AppendMayThrow = TRUE
    MaxWrites = 4
    MaxTime = 3
INVARIANTS LivesUntilDeadline IndexCoversDeadlines OneWinnerPerVersion VisibleIsLogged
SYMMETRY KeySymmetry
CHECK_DEADLOCK FALSE
