CONSTANTS
    NoJob = NoJob
    Jobs = {j1}
    Machines = {m1}
    MachineOf <- OneMachine
    Queriers = {q1, q2}
    Stoppers = {s1}
    Followers = {}
    Modes <- AllModes
    Forks = TRUE
    Reaps = TRUE
    SessionHeld = {TRUE, FALSE}
    TimeLimit = 1
    MaxFaults = 2
SPECIFICATION Spec
INVARIANTS TypeOK DoneMeansEnded StaleIsJustified
PROPERTIES RecordKeepsPromises StatusFinal
CHECK_DEADLOCK FALSE
SYMMETRY Symmetry
