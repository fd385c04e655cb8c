\* A sale and a missed reserve; tasks fail as often as one message may be retried, and an
\* auction is extended or a worker dies.
SPECIFICATION FairSpec
CONSTANTS
    a1 = a1
    a2 = a2
    a3 = a3
    ann = ann
    ben = ben
    f1 = f1
    f2 = f2
    t1 = t1
    t2 = t2
    t3 = t3
    None = None
    Auction = {a1, a2}
    User = {ann, ben}
    Finder = {f1}
    Task = {t1, t2}
    Winner <- MCWinners
    HighestAmount <- MCHighestAmount
    ReservePrice <- MCReservePrice
    MaxRetries = 3
    MaxFailures = 3
    MaxCrashes = 1
    MaxClaimLosses = 0
    MaxCancels = 0
    MaxExtensions = 1
PROPERTIES EndedIsSettled
\* Every auction may have its result, and every message may have been used.
CHECK_DEADLOCK FALSE
