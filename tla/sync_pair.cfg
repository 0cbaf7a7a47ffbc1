CONSTANTS
    root = root
    child = child
    None = None
    Procs = {p1, p2}
    Repos <- TwoRepos
    Order <- PostOrder
    Kids <- ChildInRoot
    MirrorOf <- OwnMirrors
    Content = {c1, c2}
    MaxEdits = 1
    MaxFaults = 1
    MaxEvents = 1
SPECIFICATION Spec
INVARIANTS SuccessWasTrue MirrorsComplete QuietSyncSucceeds
SYMMETRY Symmetry
CHECK_DEADLOCK FALSE
