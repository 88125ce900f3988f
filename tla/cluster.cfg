SPECIFICATION ClusterFairSpec
CONSTANT Focus = {"remote", "groups", "global", "spawn", "beam", "nodes", "messages", "stops"}
CONSTANT MaxRequests = 2
CONSTANT MaxLosses = 1
CONSTANT ProcA = {"p"}
CONSTANT ProcB = {"q"}
CONSTANT RemoteBudgets <- MonitorsAndLinks
CONSTANT QueueCapacity = 2
CONSTANT Group = {"g"}
CONSTANT GroupBudgets <- CallsAndConnects
CONSTANT GlobalName = {"k"}
CONSTANT MaxRegisters = 2
CONSTANT MaxNameLosses = 1
CONSTANT BeamConn = {"c", "d"}
CONSTANT Capacity = 2
CONSTANT DistNode = {"n1", "n2"}
CONSTANT Dialer = {"n1"}
CONSTANT MaxConn = 2
CONSTANT DialBudgets <- OneDial
CONSTANT BeamLocal = {"p", "s"}
CONSTANT BeamPeer = {"q"}
CONSTANT BeamBudgets <- PayloadsAndSignals
CONSTANT Server = {"s1"}
CONSTANT Client = {"a"}
CONSTANT MaxCalls = 1
CONSTANT MaxSends = 2
CONSTANT MaxLater = 1
INVARIANT RemoteSafe
INVARIANT GroupsSafe
INVARIANT GlobalSafe
 
PROPERTY SpawnsImplement
 
PROPERTY DisconnectNoticed
PROPERTY StopEnds
CHECK_DEADLOCK FALSE
