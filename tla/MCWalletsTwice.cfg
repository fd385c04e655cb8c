\* Two deliveries of one webhook, no withdrawals.
SPECIFICATION Spec
CONSTANTS
    p1 = p1
    p2 = p2
    w1 = w1
    w2 = w2
    ann = ann
    s1 = s1
    s2 = s2
    None = None
    User = {ann}
    Payment = {p1}
    Withdrawal = {}
    Owner <- MCOwner
    Amount <- MCAmount
    Opening <- MCOpening
    WalletLimit <- MCWalletLimit
    DailyLimit <- MCDailyLimit
    Session = {s1, s2}
    MaxRetries = 0
    MaxFailures = 0
    MaxCrashes = 0
INVARIANTS CreditedOnce
CHECK_DEADLOCK FALSE
