SPECIFICATION Spec
CONSTANTS
    Text = {"a"}
    Garbage = {"bad"}
    MaxEdits = 4
    MaxCalls = 2
    MaxMessages = 2
    MaxForeign = 2
INVARIANTS RoundTrip BitsTellTruth MergeIsConcatenation
CHECK_DEADLOCK FALSE
