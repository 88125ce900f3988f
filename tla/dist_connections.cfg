SPECIFICATION FairSpec
CONSTANTS
    n1 = n1
    n2 = n2
    Node = {n1, n2}
    Dialer = {n1}
    MaxConn = 2
    Budgets <- ReplaceOrLose
INVARIANT Attended
PROPERTY EndsAgree
CHECK_DEADLOCK FALSE
