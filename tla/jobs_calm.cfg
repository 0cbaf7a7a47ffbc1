CONSTANTS
    NoJob = NoJob
    Jobs = {j1, j2}
    Machines = {m1}
    MachineOf <- OneMachine
    Queriers = {q1}
    Stoppers = {}
    Followers = {}
    Modes <- Recorded
    Forks = FALSE
    Reaps = TRUE
    SessionHeld = {FALSE}
    TimeLimit = 1
    MaxFaults = 0
SPECIFICATION Spec
INVARIANTS OccupancyVisible QueryReleasesEnded LogNotLost
CHECK_DEADLOCK FALSE
