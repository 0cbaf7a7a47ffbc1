CONSTANTS
    Procs = {p1, p2}
    Ops = {"up", "down", "sync", "run"}
    Kinds = {"container", "ssh"}
    Mounted = FALSE
    Tries = 2
    MaxFaults = 2
SPECIFICATION Spec
INVARIANTS TypeOK UpMeansReady UpConverges DownCleans
CHECK_DEADLOCK FALSE
SYMMETRY Symmetry
