SPECIFICATION Spec
CONSTANTS
    Customers = {c1}
    Staff = {}
    Orders = {o1, o2}
    Disputes = {}
    Topups = {}
    Tasks = {t1, t2}
    None = None
    Price = 1
    Percents <- TwoPercents
    TopupAmounts <- MixedTopups
    CreditLimit = 2
    MaxPending = 1
    TestLimit = 0
    FakeThreshold = 1
    TasksFail = TRUE
    MaxDeductions = 2
    MaxRefunds = 1
    MaxTestOrders = 1
CONSTRAINT Bounds
SYMMETRY Symmetry
INVARIANTS TypeOK ReviewedIsCharged NoFreeService
PROPERTIES ImplementsAccount ChargeWithReview
