SPECIFICATION Spec
CONSTANTS
    r1 = r1  r2 = r2  r3 = r3
    p1 = p1  p2 = p2
    o1 = o1  o2 = o2  o3 = o3  o4 = o4  o5 = o5
    t1 = t1  t2 = t2
    pin = pin  sib = sib
    Requests = {r1}
    Payments = {p1}
    Pids = {pin, sib}
    Family = {pin, sib}
    Pinned = pin
    Objs = {o1, o2, o3}
    Tasks = {t1}
    NoObj = NoObj
    NoPid = NoPid
    NoPay = NoPay
    Durable = TRUE
    OmitsTx = FALSE
    FaultKinds = {}
    MaxFaults = 0
INVARIANTS PruneKeepsHistory
CHECK_DEADLOCK FALSE
