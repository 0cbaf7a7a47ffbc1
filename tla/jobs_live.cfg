CONSTANTS
    NoJob = NoJob
    Jobs = {j1}
    Machines = {m1}
    MachineOf <- OneMachine
    Queriers = {q1}
    Stoppers = {s1}
    Followers = {w1}
    Modes <- AllModes
    Forks = FALSE
    Reaps = FALSE
    SessionHeld = {FALSE}
    TimeLimit = 2
    MaxFaults = 1
SPECIFICATION FairSpec
INVARIANT OccupancyVisible
PROPERTIES LimitEnforced LogComesHome
CHECK_DEADLOCK FALSE
