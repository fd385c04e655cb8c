\* Two orders of two buyers; tasks fail as often as one message may be retried.
SPECIFICATION FairSpec
CONSTANTS
    o1 = o1
    o2 = o2
    sam = sam
    ann = ann
    ben = ben
    s1 = s1
    s2 = s2
    d1 = d1
    d2 = d2
    t1 = t1
    t2 = t2
    None = None
    User = {sam, ann, ben}
    Seller <- MCSeller
    Amount <- MCAmount
    Commission <- MCCommission
    EscrowFunds <- MCEscrowFunds
    Buyer <- MCBuyers
    Order = {o1, o2}
    Session = {s1}
    Dispute = {d1}
    Task = {t1, t2}
    MaxRetries = 1
    MaxFailures = 1
    MaxCrashes = 0
    MaxClaimLosses = 0
PROPERTIES DueIsPaid
\* Every order may be closed, and every message may have been used.
CHECK_DEADLOCK FALSE
