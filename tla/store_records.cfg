CONSTANTS
    None = None
    Empty = Empty
    Mixed = Mixed
    Procs = {p1, p2}
    Kept = {TRUE, FALSE}
    Overlaps = {TRUE, FALSE}
    MaxSeq = 2
    MaxClock = 1
    MaxCalls = 3
    MaxMarks = 1
    MaxFaults = 1
SPECIFICATION Spec
INVARIANTS TypeOK RecordsWhole SavesSettle
PROPERTY RecordsKept
CHECK_DEADLOCK FALSE
