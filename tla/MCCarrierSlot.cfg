SPECIFICATION FairAdmSpec
CONSTANTS
    c1 = c1
    c2 = c2
    Calls <- MCTwo
    SlotLimit <- MCSpare
    MaxFaults = 1
PROPERTY CarrierRecovers
