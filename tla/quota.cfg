SPECIFICATION MCSpec
CONSTANTS
    a1 = a1  a2 = a2
    q1 = q1  q2 = q2
    c1 = c1  c2 = c2  c3 = c3  c4 = c4  c5 = c5
    buy = buy  pro = pro  hookA = hookA  hookB = hookB
    Procs = {q1}
    Agents = {a1}
    Calls = {c1, c2, c3, c4}
    Deliveries = {buy, pro}
    KeyOf <- MCKeyOf
    BuyerOf <- MCBuyerOf
    GoodOf <- MCGoodOf
    NoKey = NoKey
    NoAgent = NoAgent
    NoProc = NoProc
    FreeQuota = 1
    ProQuota = 2
    FreeRate = 1
    ProRate = 2
    Pack = 1
    Minute = 1
    MonthLen = 2
    MaxTime = 3
    Durable = TRUE
    MaxFaults = 2
    Parts = {"quota", "fees", "finality"}
    Resources = {"check", "pulse"}
    Composites = {"pulse"}
    Payers = {"buyer", "cashier", "hot"}
    Wallets = {"cashier"}
    Known = {"hot"}
    NoPayer = "nobody"
    NoTime = NoTime
    MaxRows = 2
    PageLimit = 2
    DemandMaxNow = 3
    DemandMaxFaults = 1
    DemandMaxLives = 2
    b1 = b1  b2 = b2
    Askers = {b1, b2}
    Urgencies = {"flexible"}
    Fills = {49, 60, 100}
    FirstFees = {64}
    Tips = {0}
    Unit = 4
    Depth = 3
    SnapTTL = 2
    FetchBlocks = 1
    FeeMaxHeight = 6
    Lag = 2
    Window = 1
    MaxHeight = 2
    FinalityMaxClock = 3
    w1 = w1  w2 = w2  w3 = w3  w4 = w4
    Probes = {w1, w2, w3, w4}
    Clients = {"ip1"}
    ProbeLimit = 1
    ProbeWindow = 3
    ProbeSecond = 2
    Paths = 2
    ProbeMaxNow = 4
SYMMETRY MCSymmetry
INVARIANTS ServedIsCounted FreeWithinQuota CreditsConserved QuotaCallsWithinRate AdviceHolds FinalizedIsFinal
CHECK_DEADLOCK FALSE
