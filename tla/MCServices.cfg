SPECIFICATION MCSpec
CONSTANTS
    Calls = {c1, c2}
    SlotLimit <- MCSpare
    MaxFaults = 1
    Rates <- MCRates
    Funds <- MCFunds
    ReserveMinutes = 1
    Cap = 75
    Late = 1
    DigitChars = {1, 2}
    OtherChar = 11
    RatePool <- MCRatePool
    MaxRows = 3
    Instants = {1, 2, 3}
    PercentRoutes <- MCPercentRoutes
    KeyedRoutes <- MCKeyedRoutes
    Recorders = {r1, r2}
    Consecutive = 2
    MinSamples = 2
    Percent = 50
    Window = 1
    LastMinute = 1
    MaxAttempts = 3
    MaxLost = 1
    Reporters = {e1, e2, e3}
    Threshold = 2
    MaxReports = 6
    MaxRevives = 1
    Pairs = {q1, q2}
    QualityHandlers = {w1}
    MinScore = 2
    MaxCounted = 2
    MaxAged = 2
    Handlers = {h1, h2}
    MaxAge = 3
    MaxLoad = 2
    LastDay = 2
    Makers = {m1, m2}
    MaxInvoices = 3
    InvoiceCount = 2
    Owes <- MCOwes
    Payers = {y1, y2}
    Sums = {2}
    SpeechFrames <- MCSpeechFrames
    SidFrames <- MCSidFrames
    PulseChoices <- MCPulseChoices
    PacketSizes = {1, 2}
    SidGains = {8, 505}
    MaxPackets = 4
    MaxReopens = 1
    GainPairs <- MCGainPairs
    Energies <- MCEnergies
    MaxFrames = 3
INVARIANTS
    SlotsExact OverrunBound ReserveCovers TrieAgreesWithSql DialledAsConfigured
    MarkedForCause  CountedIsListed StaleBounded
     
     PitchAgree   
PROPERTIES
    CounterRecovers
