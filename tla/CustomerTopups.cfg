SPECIFICATION Spec
CONSTANTS
    Customers = {c1}
    Topups = {w1, w2}
    Rows <- NoRows
    Codes = {}
    Orders = {o1, o2}
    Tasks = {t1, t2}
    None = None
    Opening = 0
    TopupAmounts <- OneOrTwo
    Prices <- TwoPrices
    Quantities <- OneOrTwo
    Percents <- TwoPrices
    CreditLimit = 2
    TasksFail = TRUE
SYMMETRY Symmetry
INVARIANTS ConfirmedIsCharged WalletBooks
PROPERTIES ImplementsAccount
