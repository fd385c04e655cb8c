\* One order whose auto-release time may come during a dispute.
SPECIFICATION Spec
CONSTANTS
    o1 = o1
    o2 = o2
    sam = sam
    ann = ann
    ben = ben
    s1 = s1
    s2 = s2
    d1 = d1
    d2 = d2
    t1 = t1
    t2 = t2
    None = None
    User = {sam, ann, ben}
    Seller <- MCSeller
    Amount <- MCAmount
    Commission <- MCCommission
    EscrowFunds <- MCEscrowFunds
    Buyer <- MCOneBuyer
    Order = {o1}
    Session = {s1}
    Dispute = {d1}
    Task = {t1}
    MaxRetries = 0
    MaxFailures = 0
    MaxCrashes = 0
    MaxClaimLosses = 0
INVARIANTS OpenDisputeHoldsFunds
\* Every order may be closed, and every message may have been used.
CHECK_DEADLOCK FALSE
