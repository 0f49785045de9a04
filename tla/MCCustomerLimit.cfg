SPECIFICATION AdmSpec
CONSTANTS
    c1 = c1
    c2 = c2
    Calls <- MCTwo
    SlotLimit <- MCCustomerOnly
    MaxFaults = 0
INVARIANT CustomerLimitKept
