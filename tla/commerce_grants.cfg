SPECIFICATION MCSpec
CONSTANTS
    c1 = c1  c2 = c2  c3 = c3  c4 = c4
    p1 = p1  p2 = p2  p3 = p3
    Agents = {"a1"}
    Calls = {c1, c2, c3, c4}
    Payments = {p1, p2, p3}
    ForPro = {p1}
    Sizes <- MCSizes
    PackSize = 2
    FreeQuota = 2
    ProQuota = 4
    NoCall = NoCall
    MaxFaults = 1
    Parts = {"grants", "mail", "wire", "gate", "qma"}
    Letters <- MCLetters
    Inbounds <- MCInbounds
    Callers <- MCCallers
    NoEvent = "none"
    Postmaster = "postmaster"
    Token = "token"
    MailMaxCalls = 4
    MailMaxFaults = 1
    MailMaxLives = 2
    Buys = {"b"}
    Networks <- MCNetworks
    OwnAsset <- MCOwnAsset
    FallbackAsset <- MCFallback
    Price = 2
    Foreign <- MCForeign
    Worth <- MCWorth
    Claims = {0, 5}
    Registered = {"usdc", "tusdc", "fine", "coarse"}
    Prices = {1, 2, 3}
    NoCap = NoCap
    NoOption = NoOption
    McpCalls = {"m1", "m2"}
    McpPayments = {"q1", "q2"}
    NoPayment = NoPayment
    McpQuota = 1
    ListPrice = 2
    GateMaxFaults = 1
    Topics = {"t1", "t2", "t3", "t4", "t5", "t6"}
    Alike <- MCAlike
    Valid <- MCValid
    Answers <- MCAnswers
    MaxRounds = 2
SYMMETRY MCSymmetry
INVARIANTS EntitlementsArePaid SettledIsGranted MailIsTrue  OfferIsTaken  AcceptedIsCorroborated
CHECK_DEADLOCK FALSE
