SPECIFICATION Spec
CONSTANTS
    n1 = n1
    n2 = n2
    n3 = n3
    alice = alice
    bob = bob
    Node = {n1, n2, n3}
    Pid = {alice, bob}
    Topic = {"lobby"}
    Key = {"user"}
    Stable = {n1, n2}
    MaxCalls = 3
    MaxStarts = 1
    MaxDrops = 1
    MaxEvents = 3
CHECK_DEADLOCK FALSE
INVARIANT RemovedStaysRemoved
INVARIANT IndexCovers
INVARIANT PairConverges
SYMMETRY Interchangeable
