SPECIFICATION ServicesSpec
CONSTANT Focus = {"pubsub"}
CONSTANT Server = {"s1", "s2"}
CONSTANT Client = {"a"}
CONSTANT MaxCalls = 2
CONSTANT MaxSends = 1
CONSTANT MaxLater = 1
CONSTANT Key = {"k1", "k2"}
CONSTANT RegProcess = {"p1", "p2"}
CONSTANT MaxRegCalls = 4
CONSTANT Owner = {"p", "q"}
CONSTANT Table = {"t1", "t2"}
CONSTANT MaxStoreCalls = 3
CONSTANT Session = {"c", "d"}
CONSTANT Transport = {"d"}
CONSTANT ChannelTopic = {"t", "u"}
CONSTANT HandledTopic = {"t"}
CONSTANT MaxRequests = 3
CONSTANT MaxNotices = 2
CONSTANT ProcA = {"p"}
CONSTANT ProcB = {"q"}
CONSTANT Topic = {"t1"}
CONSTANT CallBudgets <- PubSubBudgets
CONSTANT MaxBroadcasts = 1
CONSTANT State = {"open", "shut"}
CONSTANT TimeoutName = {"lock"}
CONSTANT MaxEvents = 1
CONSTANT MaxFsmCalls = 2
CONSTANT MaxTimers = 2
CONSTANT TimerRef = {"t1", "t2"}
CONSTANT Target = {"p"}
CONSTANT MaxTicks = 2
CONSTANT Caller = {"c1", "c2"}
CONSTANT MaxChild = 2
CONSTANT MaxRestarts = 1
CONSTANT Room = {"r"}
CONSTANT Nick = {"m", "n"}
CONSTANT MaxHistory = 1
CONSTANT MaxCommands = 4
CONSTANT MaxJobs = 3
CONSTANT MaxWorkers = 2
CONSTANT MaxJobCommands = 2
CONSTANT MaxDepth = 1
CONSTANT App = {"a", "b", "c"}
CONSTANT DependencyList <- DependencyLists
CONSTANT User = {"u", "v"}
CONSTANT MaxAppCalls = 2
INVARIANT RemoteHears
CHECK_DEADLOCK FALSE
