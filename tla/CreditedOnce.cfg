SPECIFICATION Spec
CONSTANTS
    Customers = {c1}
    Topups = {w1}
    Rows <- NoRows
    Codes = {}
    Orders = {}
    Tasks = {t1, t2}
    None = None
    Opening = 0
    TopupAmounts <- OneOrTwo
    Prices <- OnePrice
    Quantities <- OneOrTwo
    Percents <- OnePrice
    CreditLimit = 0
    TasksFail = FALSE
SYMMETRY Symmetry
INVARIANTS CreditedOnce
