CONSTANTS
    c1 = c1
    c2 = c2
    alice = alice
    teleco = teleco
    Calls <- MCCalls
    Customers = {alice}
    Carriers = {teleco}
    Owner <- MCOwner
    FailFee <- MCFailFee
    Opening <- MCOpening
    Money = {0, 2}
    Postings = {2}
    MaxAttempts = 1
    MaxPosts = 1
SPECIFICATION Spec
SYMMETRY Symmetry
INVARIANTS
    TypeOK
    ReconcileOK
    SettledOnce
    LedgerMatchesCDRs
PROPERTIES
    BilledIsFinal
    PrepaidSpec
CHECK_DEADLOCK FALSE
