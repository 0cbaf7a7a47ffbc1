CONSTANTS
    root = root
    child = child
    None = None
    Procs = {p1}
    Repos <- TwoRepos
    Order <- PostOrder
    Kids <- ChildInRoot
    MirrorOf <- OwnMirrors
    Content = {c1, c2}
    MaxEdits = 2
    MaxFaults = 2
    MaxEvents = 4
SPECIFICATION Spec
INVARIANTS TypeOK QuietSyncSucceeds SuccessWasTrue MirrorsClosed
SYMMETRY Symmetry
CHECK_DEADLOCK FALSE
