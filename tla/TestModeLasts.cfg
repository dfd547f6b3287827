SPECIFICATION Spec
CONSTANTS
    Customers = {c1}
    Staff = {}
    Orders = {o1, o2}
    Disputes = {}
    Topups = {}
    Tasks = {t1}
    None = None
    Price = 1
    Percents <- OnePercent
    TopupAmounts <- MixedTopups
    CreditLimit = 2
    MaxPending = 1
    TestLimit = 2
    FakeThreshold = 1
    TasksFail = FALSE
    MaxDeductions = 1
    MaxRefunds = 1
    MaxTestOrders = 2
CONSTRAINT Bounds
SYMMETRY Symmetry
INVARIANT TestModeLasts
