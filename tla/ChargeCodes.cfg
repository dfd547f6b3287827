SPECIFICATION FairSpec
CONSTANTS
    Customers = {c1, c2}
    Topups = {}
    Rows <- ThreeRows
    Codes = {k1}
    Orders = {o1, o2}
    Tasks = {t1, t2}
    None = None
    Opening = 2
    TopupAmounts <- OnePrice
    Prices <- NegativeToo
    Quantities <- OneOrTwo
    Percents <- OnePrice
    CreditLimit = 0
    TasksFail = TRUE
INVARIANTS TypeOK NeverOverdrawn DeliveredOnce
PROPERTIES ImplementsShop EveryHandlerEnds
