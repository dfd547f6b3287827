SPECIFICATION Spec
CONSTANTS
    Customers = {c1}
    Staff = {s1}
    Orders = {o1}
    Disputes = {d1, d2}
    Topups = {w1}
    Tasks = {t1, t2}
    None = None
    Price = 1
    Percents <- OnePercent
    TopupAmounts <- MixedTopups
    CreditLimit = 1
    MaxPending = 1
    TestLimit = 0
    FakeThreshold = 2
    TasksFail = TRUE
    MaxDeductions = 1
    MaxRefunds = 2
    MaxTestOrders = 1
CONSTRAINT Bounds
SYMMETRY Symmetry
INVARIANTS CreditFloor RefundAfterCharge ApprovedIsRefunded
