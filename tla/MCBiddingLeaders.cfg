\* Two auctions led by two bidders or by one, and two more requests that may cross.
SPECIFICATION LeadersSpec
CONSTANTS
    seller = seller
    ann = ann
    ben = ben
    a1 = a1
    a2 = a2
    r1 = r1
    r2 = r2
    r3 = r3
    r4 = r4
    None = None
    NoMax = NoMax
    User = {seller, ann, ben}
    Auction = {a1, a2}
    Request = {r1, r2, r3, r4}
    Amount = {2}
    MaxTransfers = 0
    DefaultIncrement = 1
    IncrementTiers <- MCIncrementTiers
    Seller <- MCSeller
    StartingPrice <- MCStartingPrice
    Funds <- MCFunds
    BidLimit <- MCBidLimit
INVARIANTS SingleLeader
PROPERTIES EveryRequestAnswered
\* Every request may have been answered and every auction closed.
CHECK_DEADLOCK FALSE
