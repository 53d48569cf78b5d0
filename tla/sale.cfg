SPECIFICATION Spec
CONSTANTS
    r1 = r1  r2 = r2  r3 = r3
    p1 = p1  p2 = p2
    o1 = o1  o2 = o2  o3 = o3  o4 = o4  o5 = o5
    t1 = t1  t2 = t2
    pin = pin  sib = sib
    Requests = {r1, r2}
    Payments = {p1, p2}
    Pids = {pin, sib}
    Family = {pin, sib}
    Pinned = pin
    Objs = {o1, o2, o3, o4}
    Tasks = {t1}
    NoObj = NoObj
    NoPid = NoPid
    NoPay = NoPay
    Durable = TRUE
    OmitsTx = TRUE
    FaultKinds = {"crash", "ledger", "publish"}
    MaxFaults = 1
SYMMETRY MCSymmetry
INVARIANTS LedgerOncePerTx BooksMatchFunds RegistryIsTrue
PROPERTIES RefinesSaleBook
CHECK_DEADLOCK FALSE
