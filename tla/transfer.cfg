CONSTANTS
    f = f
    g = g
    dropped = dropped
    misread = misread
    None = None
    Files = {f, g, dropped, misread}
    Dropped = {dropped}
    Misread = {misread}
    Trees <- AnyDirectory
    Procs = {p1, p2}
    Requests <- Calls
    MaxContent = 2
    MaxFaults = 1
    MaxCalls = 2
    MaxEvents = 3
SPECIFICATION Spec
INVARIANTS TypeOK ReadyIsSnapshot UndisturbedCopies
SYMMETRY Symmetry
CHECK_DEADLOCK FALSE
