SPECIFICATION MCSpec
CONSTANTS
    g1 = g1
    g2 = g2
    Gateways <- MCGateways
    d1 = d1
    d2 = d2
    Definitions <- MCDefinitions
    None = none
    MaxEdits = 2
    MaxDrops = 1
    Polled = {p1, p2}
    MaxChanges = 3
    MaxErrors = 1
    b1 = b1
    b2 = b2
    k1 = k1
    k2 = k2
    Bills <- MCBills
    BillCarriers <- MCBillCarriers
    Holder = customer
    NoCarrier = nobody
    MaxFees = 2
    HourCalls = {a1, a2}
    MaxFailed = 1
    MaxWrites = 3
    MaxDns = 2
    MaxFailures = 2
    Checks = {t1, t2}
    RepeatAfter = 1
    MaxLevelChanges = 2
    MaxMutes = 1
    MaxUnsent = 1
    SpeechEntries <- MCSpeechEntries
    NoiseEntries <- MCNoiseEntries
    MaxLsfFrames = 5
    MaxLsfLost = 1
INVARIANTS
    CycleNeedsFees  DecoderStable FallbackAccurate
PROPERTIES
      BillsSettle LateCallsCounted SetsFollow 
CHECK_DEADLOCK FALSE
