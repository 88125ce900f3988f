SPECIFICATION FairSpec
CONSTANTS
    db = db
    cache = cache
    web = web
    Child = {db, cache}
    InitialOrder <- TwoChildren
    Strategy = "one_for_all"
    MaxRestarts = 1
    MaxSeconds = 1
    Restart <- OneTransient
    Shutdown <- OneInfinity
    Trapping = {cache}
    Leaves = {"abnormal"}
    Commands = {"terminate", "restart"}
    Hazards = {"exit_signal", "struck", "start_fails", "name_taken"}
    MaxPid = 3
    MaxTime = 0
    MaxCommands = 1
INVARIANT NoOrphans
PROPERTY FailureHandled
 
CHECK_DEADLOCK FALSE
