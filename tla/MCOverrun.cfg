CONSTANTS
    c1 = c1
    c2 = c2
    n1 = n1
    n2 = n2
    alice = alice
    teleco = teleco
    Calls <- TwoCalls
    Customers = {alice}
    Carriers = {teleco}
    Owner <- MCOwner
    FailFee <- MCFailFee
    Opening <- MCOpening
    Money = {0, 2, 4}
    Postings = {}
    MaxAttempts = 1
    MaxPosts = 0
    Nodes = {n1}
    Node <- MCNode
    Overrun = 1
    MaxFaults = 0
    MayDie = {}
SPECIFICATION LifeSpec
INVARIANTS
    FundsFloor
CHECK_DEADLOCK FALSE
