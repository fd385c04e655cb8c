\* One auction of each outcome, two finders, three messages: one lost claim, one dead
\* worker and one cancellation.  Tasks fail only when the database refuses them.
SPECIFICATION Spec
CONSTANTS
    a1 = a1
    a2 = a2
    a3 = a3
    ann = ann
    ben = ben
    f1 = f1
    f2 = f2
    t1 = t1
    t2 = t2
    t3 = t3
    None = None
    Auction = {a1, a2, a3}
    User = {ann, ben}
    Finder = {f1, f2}
    Task = {t1, t2, t3}
    Winner <- MCWinners
    HighestAmount <- MCHighestAmount
    ReservePrice <- MCReservePrice
    MaxRetries = 1
    MaxFailures = 0
    MaxCrashes = 1
    MaxClaimLosses = 1
    MaxCancels = 1
    MaxExtensions = 0
SYMMETRY Symmetry
INVARIANTS TypeOK OrderOnce FundsFollowBids OneOutcome
PROPERTIES SaleIsAtomic
\* Every auction may have its result, and every message may have been used.
CHECK_DEADLOCK FALSE
