SPECIFICATION MCLiveSpec
CONSTANTS
    r1 = r1  r2 = r2
    s1 = s1  s2 = s2  s3 = s3
    Runs = {r1, r2}
    Services = {s1, s2, s3}
    NoPrice = NoPrice
    ListPrice <- MCListPrice
    AskPrice <- MCAskPrice
    Upstreams <- MCUpstreams
    Ceiling <- MCCeiling
    Allowed = {s1, s2, s3}
    PerCall = 3
    DailyCap = 5
    MonthlyCap = 8
    MaxCalls = 2
    Markup = 12500
    Target = 15000
    Margin = 5000
    MinPrice = 1
    DaysPerMonth = 2
    MaxDay = 1
    MaxUntrue = 1
    MaxFaults = 1
    Parts = {"run", "ops"}
    l1 = l1  l2 = l2
    Listeners = {l1, l2}
    Ring = 2
    Replayed = 1
    Levels <- MCLevels
    Amounts = {2}
    SpendWindow = 1
    SpendLimit = 3
    OpsMaxEvents = 3
    OpsMaxBeats = 1
    OpsMaxNow = 2
INVARIANTS AloneWithinCaps LedgerMatchesChain ListedRepaysSpend StreamIsGapless AlertsAreComplete
PROPERTIES RunsEnd ListenersCatchUp
CHECK_DEADLOCK FALSE
