SPECIFICATION Spec
CONSTANTS
    Paths = {"wal.log"}
    InitialPath = "wal.log"
    MaxEntries = 2
    Faults = {"rename", "open", "set_path"}
    MaxFaults = 2
    MaxAppends = 6
    MaxCrashes = 2
INVARIANTS  RecentKept 
CHECK_DEADLOCK FALSE
