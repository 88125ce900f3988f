SPECIFICATION FairSpec
CONSTANTS
    MaxProc = 3
    MaxRef = 1
    MaxCalls = 3
    Name = {}
    Calls <- LinkCalls
    ExitWith = {"error"}
    SignalWith = {"error"}
INVARIANT LinksSymmetric
 
PROPERTY LinkedFate
PROPERTY MonitorFate
CHECK_DEADLOCK FALSE
