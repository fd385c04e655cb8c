\* One buyer of two orders, and all that can race for them.
SPECIFICATION Spec
CONSTANTS
    o1 = o1
    o2 = o2
    sam = sam
    ann = ann
    ben = ben
    s1 = s1
    s2 = s2
    d1 = d1
    d2 = d2
    t1 = t1
    t2 = t2
    None = None
    User = {sam, ann, ben}
    Seller <- MCSeller
    Amount <- MCAmount
    Commission <- MCCommission
    EscrowFunds <- MCEscrowFunds
    Buyer <- MCOneBuyer
    Order = {o1, o2}
    Session = {s1, s2}
    Dispute = {d1}
    Task = {t1}
    MaxRetries = 1
    MaxFailures = 1
    MaxCrashes = 1
    MaxClaimLosses = 1
SYMMETRY SymmetryOrders
INVARIANTS TypeOK MoneyConserved HeldUntilPaid ClosedIsPaid
\* Every order may be closed, and every message may have been used.
CHECK_DEADLOCK FALSE
