SPECIFICATION Spec
CONSTANTS
    r1 = r1  r2 = r2  r3 = r3
    p1 = p1  p2 = p2
    city = city  pack = pack  decision = decision  demo = demo  gated = gated
    Requests = {r1, r2, r3}
    Payments = {p1, p2}
    Routes = {city, pack, decision, demo, gated}
    Kind <- MCKind
    Prices = {1, 2}
    NoPrice = NoPrice
    NoPay = NoPay
    NoReq = NoReq
    NoRoute = NoRoute
    MaxDeploys = 1
    MaxFaults = 1
SYMMETRY MCSymmetry
INVARIANTS DeliveredIsSettled  RowsMatchChain SettledNotRechallenged
PROPERTIES OutageServesLastKnown
CHECK_DEADLOCK FALSE
