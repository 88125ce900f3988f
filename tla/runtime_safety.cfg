SPECIFICATION Spec
CONSTANTS
    MaxProc = 3
    MaxRef = 2
    MaxCalls = 3
    Name = {n1}
    Calls <- SafetyCalls
    ExitWith = {"normal"}
    SignalWith = {"killed", "error"}
INVARIANT DownMeansReturned
INVARIANT DownAtMostOnce
INVARIANT NameOwnerRegistered
CHECK_DEADLOCK FALSE
