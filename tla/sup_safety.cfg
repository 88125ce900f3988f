SPECIFICATION Spec
CONSTANTS
    db = db
    cache = cache
    web = web
    Child = {db, cache, web}
    InitialOrder <- ThreeChildren
    Strategy = "rest_for_one"
    MaxRestarts = 1
    MaxSeconds = 1
    Restart <- OneTemporary
    Shutdown <- OneOfEach
    Trapping = {db, web}
    Leaves = {"abnormal"}
    Commands = {"delete"}
    Hazards = {"panic"}
    MaxPid = 5
    MaxTime = 1
    MaxCommands = 1
INVARIANT ChildTables
INVARIANT DependencyOrder
INVARIANT OneAlive
INVARIANT RestartIntensity
PROPERTY StopOrder
CHECK_DEADLOCK FALSE
