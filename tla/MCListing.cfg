\* Two requests at a time; an auction lasts one or two instants, and starts in one of two.
SPECIFICATION Spec
CONSTANTS
    a1 = a1
    a2 = a2
    i1 = i1
    m1 = m1
    m2 = m2
    m3 = m3
    r1 = r1
    r2 = r2
    ann = ann
    None = None
    Item = {i1}
    Auction = {a1, a2}
    Image = {m1, m2, m3}
    Request = {r1, r2}
    SellerOf <- MCSellerOf
    StartingPrice <- MCStartingPrice
    Reserve = {2}
    MaxImages = 1
    MaxDuration = 2
    Soon = 0
    Horizon = 1
    MaxChanges = 1
    MaxFaults = 1
SYMMETRY Symmetry
INVARIANTS TypeOK LiveHasItems DurationCapped OpensOnTime InAuctionIsListed ImageLimit NoOrphanAssets
\* The clock stops at its bound, and everything may be sold or cancelled by then.
CHECK_DEADLOCK FALSE
