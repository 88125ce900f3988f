SPECIFICATION Spec
CONSTANTS
    n1 = n1
    n2 = n2
    n3 = n3
    alice = alice
    bob = bob
    Node = {n1, n2, n3}
    Pid = {alice}
    Topic = {"lobby"}
    Key = {"user"}
    Stable = {n1, n2, n3}
    MaxCalls = 3
    MaxStarts = 0
    MaxDrops = 0
    MaxEvents = 3
CHECK_DEADLOCK FALSE
INVARIANT Converges
