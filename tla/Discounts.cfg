SPECIFICATION DiscountSpec
CONSTANTS
    References = {order1}
    Topups = {topup1}
    TopupAmounts <- TheTopupAmounts
    Amounts <- TheAmounts
    CreditLimit = 3
    half = half
    third = third
    Codes = {half, third}
    percent <- ThePercent
    usage_limit <- TheLimit
    Price = 3
    commission_percent = 1
    Tasks = {t1, t2}
    MaxCharges = 2
    MaxUsage = 3
    None = None
INVARIANTS DiscountTypeOK BookBalance UsageWithinLimit 
SYMMETRY Symmetry
CHECK_DEADLOCK FALSE
