CONSTANTS
    c1 = c1
    c2 = c2
    n1 = n1
    n2 = n2
    alice = alice
    teleco = teleco
    Calls <- OneCall
    Customers = {alice}
    Carriers = {teleco}
    Owner <- MCOwner
    FailFee <- MCFailFee
    Opening <- MCOpening
    Money = {0, 2}
    Postings = {}
    MaxAttempts = 1
    MaxPosts = 0
    Nodes = {n1}
    Node <- MCNode
    Overrun = 1
    MaxFaults = 2
    MayDie = {}
SPECIFICATION LifeSpec
INVARIANTS
    ReplayedIsCharged
CHECK_DEADLOCK FALSE
