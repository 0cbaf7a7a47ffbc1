CONSTANTS
    MaxData = 3
    MaxTalk = 2
    OutCap = 2
    ErrCap = 1
    Spawns = {TRUE, FALSE}
SPECIFICATION FairSpec
INVARIANT SuccessDelivers
PROPERTIES PipeReturns NobodyLeft
CHECK_DEADLOCK FALSE
