\* Two sessions race over one wallet; one attempt fails, one process dies.
SPECIFICATION FairSpec
CONSTANTS
    p1 = p1
    p2 = p2
    w1 = w1
    w2 = w2
    ann = ann
    s1 = s1
    s2 = s2
    None = None
    User = {ann}
    Payment = {p1, p2}
    Withdrawal = {w1, w2}
    Owner <- MCOwner
    Amount <- MCAmount
    Opening <- MCOpening
    WalletLimit <- MCWalletLimit
    DailyLimit <- MCDailyLimit
    Session = {s1, s2}
    MaxRetries = 1
    MaxFailures = 1
    MaxCrashes = 1
INVARIANTS TypeOK LedgerExplains CompletedHappened
PROPERTIES DebitedIsCompleted
\* Requests, messages and charges may all be used up.
CHECK_DEADLOCK FALSE
