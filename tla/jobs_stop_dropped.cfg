CONSTANTS
    NoJob = NoJob
    Jobs = {j1}
    Machines = {m1}
    MachineOf <- OneMachine
    Queriers = {}
    Stoppers = {s1}
    Followers = {}
    Modes <- Background
    Forks = FALSE
    Reaps = TRUE
    SessionHeld = {FALSE}
    TimeLimit = 1
    MaxFaults = 1
SPECIFICATION Spec
INVARIANT StoppedMeansKilled
CHECK_DEADLOCK FALSE
