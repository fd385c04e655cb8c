\* One auction, three requests and one deposit or withdrawal at any moment.
SPECIFICATION Spec
CONSTANTS
    seller = seller
    ann = ann
    ben = ben
    a1 = a1
    a2 = a2
    r1 = r1
    r2 = r2
    r3 = r3
    r4 = r4
    None = None
    NoMax = NoMax
    User = {seller, ann, ben}
    Auction = {a1}
    Request = {r1, r2, r3}
    Amount = {1, 2, 3}
    MaxTransfers = 1
    DefaultIncrement = 1
    IncrementTiers <- MCIncrementTiers
    Seller <- MCSeller
    StartingPrice <- MCStartingPrice
    Funds <- MCFunds
    BidLimit <- MCBidLimit
SYMMETRY Symmetry
INVARIANTS TypeOK SingleLeader LockedBacked BidsReconcile
PROPERTIES PriceRises NoBidAfterClose BidIsAtomic
\* Every request may have been answered and every auction closed.
CHECK_DEADLOCK FALSE
