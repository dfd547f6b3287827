SPECIFICATION Spec
CONSTANTS
    Customers = {c1}
    Staff = {s1}
    Orders = {o1, o2}
    Disputes = {d1, d2}
    Topups = {}
    Tasks = {t1, t2}
    None = None
    Price = 1
    Percents <- OnePercent
    TopupAmounts <- MixedTopups
    CreditLimit = 2
    MaxPending = 2
    TestLimit = 0
    FakeThreshold = 2
    TasksFail = FALSE
    MaxDeductions = 1
    MaxRefunds = 1
    MaxTestOrders = 1
CONSTRAINT Bounds
SYMMETRY Symmetry
INVARIANTS FakesAreBlocked
