---------------------------- MODULE BiddingProofs ----------------------------
(***************************************************************************)
(* Theorems of Bidding, for any number of users, auctions and requests and *)
(* any interleaving of their transactions.                                 *)
(***************************************************************************)
EXTENDS Bidding, Sums

Call == [auction: Auction, bidder: User, amount: Amount]

-----------------------------------------------------------------------------
(***************************************************************************)
(* Type correctness.                                                       *)
(***************************************************************************)

LEMMA NoneNotRequest == None \notin Request /\ None # "ACTIVE" /\ None # "RELEASED"
<1>1. None \notin Request \union {"ACTIVE", "RELEASED"}
  BY Zenon, BiddingAssumption
<1> QED
  BY <1>1

LEMMA AmountPositive == \A m \in Amount : m \in Int /\ m > 0
<1>1. Amount \subseteq Nat \ {0}
  BY Zenon, BiddingAssumption
<1> QED
  BY <1>1

\* A request past "idle" carries the arguments of its call.
LEMMA CallType ==
    ASSUME TypeOK, NEW r \in Request, pc[r] # "idle"
    PROVE  req[r] \in Call
BY DEF TypeOK, Call

\* Freeing a request's row locks leaves a lock table.
LEMMA FreeType ==
    ASSUME NEW S, NEW lock \in [S -> Request \union {None}], NEW r
    PROVE  Free(lock, r) \in [S -> Request \union {None}]
BY DEF Free

LEMMA RollBackType ==
    ASSUME TypeOK, NEW r \in Request, NEW answer \in Answered,
           pc[r] # "idle", RollBack(r, answer)
    PROVE  TypeOK'
<1>1. auction_lock' \in [Auction -> Request \union {None}]
  BY FreeType DEF TypeOK, RollBack, ReleaseLocks
<1>2. wallet_lock' \in [User -> Request \union {None}]
  BY FreeType DEF TypeOK, RollBack, ReleaseLocks
<1>3. pc' \in [Request -> Location]
  BY DEF TypeOK, RollBack, Goto, Location
<1>4. \A q \in Request : pc'[q] # "idle" => req'[q] # NoCall
  BY DEF TypeOK, RollBack, Goto
<1> QED
  BY <1>1, <1>2, <1>3, <1>4 DEF TypeOK, RollBack, dbVars

Balance == [available: Int, locked: Int]

LEMMA AmountType ==
    ASSUME TypeOK, NEW r \in Request
    PROVE  /\ req[r].amount \in Int
           /\ current_highest[r] # None => PrevAmount(r) \in Int
<1>1. ASSUME NEW q \in Request
      PROVE  req[q].amount \in Int
  <2>1. CASE req[q] = NoCall
    BY <2>1 DEF NoCall
  <2>2. CASE req[q] \in Call
    <3>1. req[q].amount \in Amount
      BY <2>2 DEF Call
    <3> QED
      BY <3>1, AmountPositive
  <2> QED
    BY <2>1, <2>2 DEF TypeOK, Call
<1>2. current_highest[r] # None => current_highest[r] \in Request
  BY DEF TypeOK
<1> QED
  BY <1>1, <1>2 DEF PrevAmount

LEMMA CommitType ==
    ASSUME TypeOK, NEW r \in Request, Commit(r)
    PROVE  TypeOK'
<1>1. wallet' \in [User -> Balance]
  BY AmountType DEF Commit, CommitWith, Balances, TypeOK, Balance
<1>2. ledger' \in [User -> Int]
  BY AmountType DEF Commit, CommitWith, LedgerRows, TypeOK
<1>3. bids' \in [Request -> BidStatus \union {None}]
  BY DEF Commit, CommitWith, Recorded, TypeOK, BidStatus
<1>4. /\ auction_lock' \in [Auction -> Request \union {None}]
      /\ wallet_lock' \in [User -> Request \union {None}]
  BY FreeType DEF TypeOK, Commit, CommitWith, ReleaseLocks
<1>5. /\ pc' \in [Request -> Location]
      /\ \A q \in Request : pc'[q] # "idle" => req'[q] # NoCall
  BY DEF TypeOK, Commit, CommitWith, Goto, Location, Answered
<1>6. highest_bid' \in [Auction -> Request \union {None}]
  BY DEF TypeOK, Commit, CommitWith
<1> QED
  BY <1>1, <1>2, <1>3, <1>4, <1>5, <1>6 DEF TypeOK, Commit, CommitWith, Balance

LEMMA ValidateType ==
    ASSUME TypeOK, NEW r \in Request, Validate(r),
           get_highest_bid(req[r].auction) \in Request \union {None}
    PROVE  TypeOK'
<1>1. req[r] \in Call
  BY CallType DEF Validate
<1>2. snapshot' \in [Request -> Balance]
  BY <1>1 DEF Validate, TypeOK, Balance, Call
<1>3. auction_lock' \in [Auction -> Request \union {None}]
  BY <1>1 DEF Validate, TypeOK, Call
<1>4. current_highest' \in [Request -> Request \union {None}]
  BY DEF Validate, TypeOK
<1>5. /\ pc' \in [Request -> Location]
      /\ \A q \in Request : pc'[q] # "idle" => req'[q] # NoCall
  BY DEF Validate, TypeOK, Goto, Location, InTransaction
<1> QED
  BY <1>2, <1>3, <1>4, <1>5 DEF Validate, TypeOK, dbVars, Balance

\* The highest bid of an auction is a bid, whatever the bids are.
LEMMA HighestType ==
    ASSUME NEW a \in Auction, SingleLeader, TypeOK
    PROVE  get_highest_bid(a) = highest_bid[a]
<1>1. \A r \in Request : r \in ActiveBids(a) <=> highest_bid[a] = r
  BY DEF SingleLeader, ActiveBids
<1>2. CASE highest_bid[a] = None
  <2>1. ActiveBids(a) = {}
    BY <1>1, <1>2, NoneNotRequest DEF ActiveBids
  <2> QED
    BY <1>2, <2>1 DEF get_highest_bid
<1>3. CASE highest_bid[a] # None
  <2>1. highest_bid[a] \in Request
    BY <1>3 DEF TypeOK
  <2>2. ActiveBids(a) = {highest_bid[a]}
    BY <1>1, <2>1 DEF ActiveBids
  <2>3. req[highest_bid[a]].amount <= req[highest_bid[a]].amount
    BY <2>1, AmountType
  <2> QED
    BY <2>2, <2>3 DEF get_highest_bid
<1> QED
  BY <1>2, <1>3

-----------------------------------------------------------------------------
(***************************************************************************)
(* The inductive invariant: between validation and the end of its          *)
(* transaction a request holds the auction row, so what it validated still *)
(* holds and the bid it is about to replace is still the highest.          *)
(***************************************************************************)

Holding ==
    \A r \in Request : pc[r] \in InTransaction => auction_lock[req[r].auction] = r

Unrecorded ==
    \A r \in Request :
        pc[r] \in {"idle", "lock_auction"} \union InTransaction => bids[r] = None

StillHighest ==
    \A r \in Request :
        pc[r] \in InTransaction => current_highest[r] = highest_bid[req[r].auction]

Beats(call, high, a) ==
    /\ call.bidder # Seller[a]
    /\ IF high = None
       THEN call.amount >= StartingPrice[a]
       ELSE /\ call.bidder # req[high].bidder
            /\ call.amount >= req[high].amount + get_increment_for_amount(req[high].amount)

Validated ==
    \A r \in Request : pc[r] \in InTransaction =>
        /\ status[req[r].auction] = "ACTIVE"
        /\ Beats(req[r], current_highest[r], req[r].auction)

IInv ==
    /\ TypeOK
    /\ SingleLeader
    /\ Holding
    /\ Unrecorded
    /\ StillHighest
    /\ Validated

LEMMA InitInv == Init => IInv
<1> SUFFICES ASSUME Init PROVE IInv
  OBVIOUS
<1>1. TypeOK
  <2>1. wallet \in [User -> Balance]
    <3>1. Funds \in [User -> Nat]
      BY Zenon, BiddingAssumption
    <3> QED
      BY <3>1 DEF Init, Balance
  <2>2. 0 \in 0..MaxTransfers
    <3>1. MaxTransfers \in Nat
      BY Zenon, BiddingAssumption
    <3> QED
      BY <3>1
  <2> QED
    BY <2>1, <2>2 DEF Init, TypeOK, Balance, AuctionStatus, Location, NoCall, NoWallet
<1>2. SingleLeader
  BY NoneNotRequest DEF Init, SingleLeader
<1>3. Holding /\ Unrecorded /\ StillHighest /\ Validated
  BY DEF Init, Holding, Unrecorded, StillHighest, Validated, InTransaction
<1> QED
  BY <1>1, <1>2, <1>3 DEF IInv

\* A step that adds no bid and moves no highest bid keeps the invariant if the
\* requests that are in their transaction after it were so before, still hold
\* their auction row, and find the auction ACTIVE.
LEMMA QuietStep ==
    ASSUME IInv, TypeOK',
           UNCHANGED <<bids, highest_bid, req, current_highest>>,
           \A q \in Request : pc'[q] \in InTransaction =>
                /\ pc[q] \in InTransaction
                /\ auction_lock'[req[q].auction] = q
                /\ status'[req[q].auction] = "ACTIVE",
           \A q \in Request : pc'[q] \in {"idle", "lock_auction"} =>
                pc[q] \in {"idle", "lock_auction"}
    PROVE  IInv'
<1>1. SingleLeader'
  BY DEF IInv, SingleLeader
<1>2. Holding'
  BY DEF Holding
<1>3. Unrecorded'
  BY DEF IInv, Unrecorded
<1>4. StillHighest'
  BY DEF IInv, StillHighest
<1>5. Validated'
  BY DEF IInv, Validated, Beats
<1> QED
  BY <1>1, <1>2, <1>3, <1>4, <1>5 DEF IInv

\* Ending a request's session frees only its own locks.
LEMMA RollBackInv ==
    ASSUME IInv, NEW r \in Request, NEW answer \in Answered,
           pc[r] # "idle", RollBack(r, answer)
    PROVE  IInv'
<1>1. TypeOK'
  BY RollBackType DEF IInv
<1>2. ASSUME NEW q \in Request, pc'[q] \in InTransaction
      PROVE  /\ pc[q] \in InTransaction
             /\ auction_lock'[req[q].auction] = q
             /\ status'[req[q].auction] = "ACTIVE"
  <2>1. q # r /\ pc[q] \in InTransaction
    BY <1>2 DEF RollBack, Goto, IInv, TypeOK, InTransaction, Answered
  <2>2. req[q].auction \in Auction
    BY <2>1, CallType DEF IInv, InTransaction, Call
  <2>3. auction_lock[req[q].auction] = q /\ status[req[q].auction] = "ACTIVE"
    BY <2>1 DEF IInv, Holding, Validated
  <2>4. auction_lock'[req[q].auction] = q
    BY <2>1, <2>2, <2>3 DEF RollBack, ReleaseLocks, Free, IInv, TypeOK
  <2> QED
    BY <2>1, <2>3, <2>4 DEF RollBack, dbVars
<1>3. ASSUME NEW q \in Request, pc'[q] \in {"idle", "lock_auction"}
      PROVE  pc[q] \in {"idle", "lock_auction"}
  BY <1>3 DEF RollBack, Goto, IInv, TypeOK, Answered
<1> QED
  BY <1>1, <1>2, <1>3, QuietStep DEF RollBack, dbVars

LEMMA PlaceBidInv ==
    ASSUME IInv, NEW r \in Request, NEW a \in Auction, NEW u \in User,
           NEW m \in Amount, PlaceBid(r, a, u, m)
    PROVE  IInv'
<1>1. bids[r] = None /\ \A b \in Auction : highest_bid[b] # r
  BY NoneNotRequest DEF PlaceBid, IInv, Unrecorded, SingleLeader
<1>2. TypeOK'
  <2>1. req' \in [Request -> {NoCall} \union Call]
    BY DEF PlaceBid, IInv, TypeOK, Call
  <2>2. req'[r] # NoCall
    BY AmountPositive DEF PlaceBid, IInv, TypeOK, NoCall
  <2>3. /\ pc' \in [Request -> Location]
        /\ \A q \in Request : pc'[q] # "idle" => req'[q] # NoCall
    BY <2>2 DEF PlaceBid, IInv, TypeOK, Goto, Location
  <2> QED
    BY <2>1, <2>3 DEF PlaceBid, IInv, TypeOK, dbVars, lockVars, Call
<1>3. \A q \in Request : q # r => req'[q] = req[q] /\ pc'[q] = pc[q]
  BY DEF PlaceBid, IInv, TypeOK, Goto
<1>4. pc'[r] = "lock_auction"
  BY DEF PlaceBid, IInv, TypeOK, Goto
<1>5. SingleLeader'
  BY <1>1, <1>3, NoneNotRequest DEF IInv, SingleLeader, PlaceBid, dbVars
<1>6. Holding'
  BY <1>3, <1>4 DEF IInv, Holding, PlaceBid, lockVars, InTransaction
<1>7. Unrecorded'
  BY <1>1, <1>3 DEF IInv, Unrecorded, PlaceBid, dbVars
<1>8. StillHighest'
  BY <1>3, <1>4 DEF IInv, StillHighest, PlaceBid, dbVars, InTransaction
<1>9. Validated'
  <2> SUFFICES ASSUME NEW q \in Request, pc'[q] \in InTransaction
               PROVE  /\ status'[req'[q].auction] = "ACTIVE"
                      /\ Beats(req[q], current_highest[q], req[q].auction)'
    BY DEF Validated
  <2>1. q # r /\ pc[q] \in InTransaction /\ req'[q] = req[q]
    BY <1>3, <1>4 DEF InTransaction
  <2>2. req[q].auction \in Auction
    BY <2>1, CallType DEF IInv, InTransaction, Call
  <2>3. current_highest[q] # r
    BY <2>1, <2>2, <1>1 DEF IInv, StillHighest
  <2>4. /\ status[req[q].auction] = "ACTIVE"
        /\ Beats(req[q], current_highest[q], req[q].auction)
    BY <2>1 DEF IInv, Validated
  <2>5. current_highest[q] # None => req'[current_highest[q]] = req[current_highest[q]]
    BY <2>3, <1>3 DEF IInv, TypeOK
  <2>6. current_highest' = current_highest /\ status' = status
    BY DEF PlaceBid, dbVars
  <2>7. Beats(req[q], current_highest[q], req[q].auction)'
    BY <2>1, <2>4, <2>5, <2>6 DEF Beats
  <2> QED
    BY <2>1, <2>4, <2>6, <2>7
<1> QED
  BY <1>2, <1>5, <1>6, <1>7, <1>8, <1>9 DEF IInv

LEMMA ValidateInv ==
    ASSUME IInv, NEW r \in Request, Validate(r)
    PROVE  IInv'
<1> DEFINE a == req[r].auction
<1>1. req[r] \in Call /\ a \in Auction
  BY CallType DEF Validate, IInv, Call
<1>2. get_highest_bid(a) = highest_bid[a]
  BY <1>1, HighestType DEF IInv
<1>3. TypeOK'
  BY <1>1, <1>2, ValidateType DEF IInv, TypeOK
<1>4. /\ \A q \in Request : q # r => pc'[q] = pc[q] /\ current_highest'[q] = current_highest[q]
      /\ pc'[r] = "lock_wallet"
      /\ current_highest'[r] = highest_bid[a]
      /\ auction_lock'[a] = r
      /\ UNCHANGED <<req, bids, highest_bid, status>>
  BY <1>1, <1>2 DEF Validate, Goto, IInv, TypeOK, dbVars
<1>5. SingleLeader'
  BY <1>4 DEF IInv, SingleLeader
<1>6. Holding'
  <2> SUFFICES ASSUME NEW q \in Request, pc'[q] \in InTransaction, q # r
               PROVE  auction_lock'[req[q].auction] = q
    BY <1>4 DEF Holding
  <2>1. auction_lock[req[q].auction] = q /\ pc[q] \in InTransaction
    BY <1>4 DEF IInv, Holding
  <2>2. req[q].auction \in Auction
    BY <2>1, CallType DEF IInv, InTransaction, Call
  <2>3. req[q].auction # a
    BY <2>1, NoneNotRequest DEF Validate
  <2> QED
    BY <2>1, <2>2, <2>3, <1>1 DEF Validate, IInv, TypeOK
<1>7. Unrecorded'
  BY <1>4 DEF IInv, Unrecorded, Validate
<1>8. StillHighest'
  BY <1>4 DEF IInv, StillHighest
<1>9. Validated'
  <2>1. Acceptable(a, req[r].bidder, req[r].amount)
    BY DEF Validate
  <2>2. status[a] = "ACTIVE" /\ Beats(req[r], highest_bid[a], a)
    BY <2>1, <1>2 DEF Acceptable, MinimumBid, Beats
  <2>3. \A q \in Request : pc'[q] \in InTransaction =>
            /\ status[req[q].auction] = "ACTIVE"
            /\ Beats(req[q], current_highest'[q], req[q].auction)
    BY <2>2, <1>4 DEF IInv, Validated
  <2> QED
    BY <2>3, <1>4 DEF Validated, Beats, get_increment_for_amount, Covering
<1> QED
  BY <1>3, <1>5, <1>6, <1>7, <1>8, <1>9 DEF IInv

LEMMA CommitInv ==
    ASSUME IInv, NEW r \in Request, Commit(r)
    PROVE  IInv'
<1> DEFINE a == req[r].auction
           prev == current_highest[r]
<1>1. /\ pc[r] = "commit" /\ bids[r] = None
      /\ auction_lock[a] = r /\ prev = highest_bid[a]
  BY DEF Commit, CommitWith, InTransaction, IInv, Unrecorded, Holding, StillHighest
<1>2. req[r] \in Call /\ a \in Auction
  BY <1>1, CallType DEF IInv, Call
<1>3. TypeOK'
  BY CommitType DEF IInv
<1>4. /\ \A q \in Request : q # r => pc'[q] = pc[q]
      /\ pc'[r] \in {"accepted", "notify"}
      /\ UNCHANGED <<req, status, current_highest>>
  BY DEF Commit, CommitWith, Goto, IInv, TypeOK
<1>5. /\ highest_bid'[a] = r
      /\ \A b \in Auction : b # a => highest_bid'[b] = highest_bid[b]
  BY <1>2 DEF Commit, CommitWith, IInv, TypeOK
<1>6. /\ bids'[r] = "ACTIVE"
      /\ \A q \in Request : q # r /\ q = prev => bids'[q] = "RELEASED"
      /\ \A q \in Request : q # r /\ q # prev => bids'[q] = bids[q]
  BY DEF Commit, CommitWith, Recorded
<1>7. SingleLeader'
  <2> SUFFICES ASSUME NEW b \in Auction, NEW q \in Request
               PROVE  (bids'[q] = "ACTIVE" /\ req[q].auction = b) <=> highest_bid'[b] = q
    BY <1>4 DEF SingleLeader
  <2>1. (bids[q] = "ACTIVE" /\ req[q].auction = b) <=> highest_bid[b] = q
    BY DEF IInv, SingleLeader
  <2>2. highest_bid[b] # r
    BY <1>1, NoneNotRequest DEF IInv, SingleLeader
  <2>3. CASE q = r
    BY <2>3, <2>2, <1>5, <1>6
  <2>4. CASE q # r /\ q = prev
    <3>1. req[q].auction = a
      BY <2>4, <1>1, <1>2 DEF IInv, SingleLeader
    <3> QED
      BY <2>1, <2>4, <3>1, <1>5, <1>6
  <2>5. CASE q # r /\ q # prev
    BY <2>1, <2>5, <1>1, <1>5, <1>6
  <2> QED
    BY <2>3, <2>4, <2>5
<1>8. ASSUME NEW q \in Request, pc'[q] \in InTransaction
      PROVE  /\ q # r /\ pc[q] \in InTransaction
             /\ req[q].auction \in Auction /\ req[q].auction # a
             /\ auction_lock[req[q].auction] = q
  <2>1. q # r /\ pc[q] \in InTransaction
    BY <1>8, <1>4 DEF InTransaction
  <2>2. auction_lock[req[q].auction] = q
    BY <2>1 DEF IInv, Holding
  <2> QED
    BY <2>1, <2>2, <1>1, CallType DEF IInv, InTransaction, Call
<1>9. Holding'
  <2>1. \A b \in Auction : auction_lock[b] # r => auction_lock'[b] = auction_lock[b]
    BY DEF Commit, CommitWith, ReleaseLocks, Free, IInv, TypeOK
  <2> QED
    BY <2>1, <1>4, <1>8 DEF Holding
<1>10. Unrecorded'
  <2> SUFFICES ASSUME NEW q \in Request,
                      pc'[q] \in {"idle", "lock_auction"} \union InTransaction
               PROVE  bids'[q] = None
    BY DEF Unrecorded
  <2>1. q # r /\ bids[q] = None
    BY <1>4 DEF IInv, Unrecorded, InTransaction
  <2>2. q # prev
    BY <2>1, <1>1, <1>2, NoneNotRequest DEF IInv, SingleLeader
  <2> QED
    BY <2>1, <2>2, <1>6
<1>11. StillHighest'
  BY <1>4, <1>5, <1>8 DEF IInv, StillHighest
<1>12. Validated'
  <2>1. \A q \in Request : pc'[q] \in InTransaction =>
            /\ status[req[q].auction] = "ACTIVE"
            /\ Beats(req[q], current_highest[q], req[q].auction)
    BY <1>8 DEF IInv, Validated
  <2> QED
    BY <2>1, <1>4 DEF Validated, Beats
<1> QED
  BY <1>3, <1>7, <1>9, <1>10, <1>11, <1>12 DEF IInv

\* Taking a wallet's row lock.
LEMMA WalletLockInv ==
    ASSUME IInv, NEW r \in Request, LockWallet(r) \/ LockPrevWallet(r)
    PROVE  IInv'
<1>1. /\ pc[r] \in InTransaction
      /\ \A q \in Request : q # r => pc'[q] = pc[q]
      /\ pc'[r] \in InTransaction
      /\ UNCHANGED <<auction_lock, status, bids, highest_bid, req, current_highest>>
  BY DEF LockWallet, LockPrevWallet, InTransaction, Goto, IInv, TypeOK, dbVars
<1>2. TypeOK'
  <2>1. \A q \in Request : pc'[q] # "idle" => req'[q] # NoCall
    BY <1>1 DEF IInv, TypeOK, InTransaction
  <2>2. pc' \in [Request -> Location]
    BY DEF LockWallet, LockPrevWallet, Goto, IInv, TypeOK, Location, InTransaction
  <2>3. wallet_lock' \in [User -> Request \union {None}]
    BY DEF LockWallet, LockPrevWallet, IInv, TypeOK
  <2> QED
    BY <2>1, <2>2, <2>3 DEF LockWallet, LockPrevWallet, IInv, TypeOK, dbVars
<1>3. \A q \in Request : pc'[q] \in InTransaction =>
        /\ pc[q] \in InTransaction
        /\ auction_lock'[req[q].auction] = q
        /\ status'[req[q].auction] = "ACTIVE"
  BY <1>1 DEF IInv, Holding, Validated
<1>4. \A q \in Request : pc'[q] \in {"idle", "lock_auction"} =>
        pc[q] \in {"idle", "lock_auction"}
  BY <1>1 DEF InTransaction
<1> QED
  BY <1>1, <1>2, <1>3, <1>4, QuietStep

LEMMA NotifyInv ==
    ASSUME IInv, NEW r \in Request, NotifyOutbid(r)
    PROVE  IInv'
<1>1. /\ \A q \in Request : q # r => pc'[q] = pc[q]
      /\ pc'[r] = "accepted" /\ pc[r] = "notify"
      /\ UNCHANGED <<auction_lock, status, bids, highest_bid, req, current_highest>>
  BY DEF NotifyOutbid, Goto, IInv, TypeOK, dbVars, lockVars
<1>2. TypeOK'
  <2>1. \A q \in Request : pc'[q] # "idle" => req'[q] # NoCall
    BY <1>1 DEF IInv, TypeOK
  <2>2. pc' \in [Request -> Location]
    BY DEF NotifyOutbid, Goto, IInv, TypeOK, Location, Answered
  <2> QED
    BY <2>1, <2>2 DEF NotifyOutbid, IInv, TypeOK, dbVars, lockVars
<1>3. \A q \in Request : pc'[q] \in InTransaction =>
        /\ pc[q] \in InTransaction
        /\ auction_lock'[req[q].auction] = q
        /\ status'[req[q].auction] = "ACTIVE"
  BY <1>1 DEF IInv, Holding, Validated, InTransaction
<1>4. \A q \in Request : pc'[q] \in {"idle", "lock_auction"} =>
        pc[q] \in {"idle", "lock_auction"}
  BY <1>1
<1> QED
  BY <1>1, <1>2, <1>3, <1>4, QuietStep

\* The other writers of wallets.
LEMMA TransferInv ==
    ASSUME IInv, NEW u \in User, NEW m \in Amount, Deposit(u, m) \/ Withdraw(u, m)
    PROVE  IInv'
<1>1. m \in Int /\ MaxTransfers \in Nat
  <2>1. MaxTransfers \in Nat
    BY Zenon, BiddingAssumption
  <2> QED
    BY <2>1, AmountPositive
<1>2. TypeOK'
  <2>1. wallet' \in [User -> Balance]
    <3>1. wallet \in [User -> Balance] /\ wallet[u] \in Balance
      BY DEF IInv, TypeOK, Balance
    <3>2. \A n \in Int : [wallet[u] EXCEPT !.available = n] \in Balance
      BY <3>1 DEF Balance
    <3>3. wallet[u].available + m \in Int /\ wallet[u].available - m \in Int
      BY <1>1, <3>1 DEF Balance
    <3>4. \/ wallet' = [wallet EXCEPT ![u] =
                            [wallet[u] EXCEPT !.available = wallet[u].available + m]]
          \/ wallet' = [wallet EXCEPT ![u] =
                            [wallet[u] EXCEPT !.available = wallet[u].available - m]]
      BY DEF Deposit, Withdraw
    <3> QED
      BY <3>1, <3>2, <3>3, <3>4
  <2>2. ledger' \in [User -> Int]
    BY <1>1 DEF Deposit, Withdraw, IInv, TypeOK
  <2>3. transfers' \in 0..MaxTransfers
    BY <1>1 DEF Deposit, Withdraw, IInv, TypeOK
  <2> QED
    BY <2>1, <2>2, <2>3 DEF Deposit, Withdraw, IInv, TypeOK, lockVars, sessionVars, Balance
<1> QED
  BY <1>2, QuietStep
  DEF Deposit, Withdraw, lockVars, sessionVars, IInv, Holding, Validated

\* Closing an auction waits for its row: no request is in a transaction on it.
LEMMA SetStatusInv ==
    ASSUME IInv, NEW a \in Auction, NEW s \in AuctionStatus, SetStatus(a, s)
    PROVE  IInv'
<1>1. TypeOK'
  BY DEF SetStatus, IInv, TypeOK, lockVars, sessionVars
<1>2. ASSUME NEW q \in Request, pc'[q] \in InTransaction
      PROVE  /\ pc[q] \in InTransaction
             /\ auction_lock'[req[q].auction] = q
             /\ status'[req[q].auction] = "ACTIVE"
  <2>1. /\ pc[q] \in InTransaction
        /\ auction_lock[req[q].auction] = q
        /\ status[req[q].auction] = "ACTIVE"
    BY <1>2 DEF SetStatus, sessionVars, IInv, Holding, Validated
  <2>2. req[q].auction # a
    BY <2>1, NoneNotRequest DEF SetStatus
  <2> QED
    BY <2>1, <2>2 DEF SetStatus, lockVars, IInv, TypeOK
<1> QED
  BY <1>1, <1>2, QuietStep DEF SetStatus, sessionVars

LEMMA EndTimeInv ==
    ASSUME IInv, NEW a \in Auction, EndTimePasses(a)
    PROVE  IInv'
<1>1. TypeOK'
  BY DEF EndTimePasses, IInv, TypeOK, lockVars, sessionVars
<1> QED
  BY <1>1, QuietStep
  DEF EndTimePasses, lockVars, sessionVars, IInv, Holding, Validated

-----------------------------------------------------------------------------
LEMMA NextInv == IInv /\ [Next]_vars => IInv'
<1> SUFFICES ASSUME IInv, [Next]_vars PROVE IInv'
  OBVIOUS
<1>1. ASSUME NEW r \in Request, Bid(r) PROVE IInv'
  <2>1. CASE \E a \in Auction, u \in User, m \in Amount : PlaceBid(r, a, u, m)
    BY <2>1, PlaceBidInv
  <2>2. CASE Validate(r)
    BY <2>2, ValidateInv
  <2>3. CASE LockWallet(r) \/ LockPrevWallet(r)
    BY <2>3, WalletLockInv
  <2>4. CASE Commit(r)
    BY <2>4, CommitInv
  <2>5. CASE NotifyOutbid(r)
    BY <2>5, NotifyInv
  <2>6. CASE Reject(r) \/ RefundRefused(r) \/ Crash(r) \/ DeadlockAbort(r)
    <3>1. RollBack(r, "failed") \/ RollBack(r, "rejected")
      BY <2>6 DEF Reject, RefundRefused, Crash, DeadlockAbort
    <3>2. CASE DeadlockAbort(r)
      <4>1. \E q \in Request : WaitsFor(r, q)
        BY <3>2 DEF DeadlockAbort, InCycle
      <4> QED
        BY <3>1, <4>1, RollBackInv DEF WaitsFor, Answered
    <3>3. CASE Reject(r) \/ RefundRefused(r) \/ Crash(r)
      <4>1. pc[r] # "idle"
        BY <3>3 DEF Reject, RefundRefused, Crash, InTransaction
      <4> QED
        BY <3>1, <4>1, RollBackInv DEF Answered
    <3> QED
      BY <2>6, <3>2, <3>3
  <2> QED
    BY <1>1, <2>1, <2>2, <2>3, <2>4, <2>5, <2>6 DEF Bid, Serve
<1>2. CASE OtherWallet
  BY <1>2, TransferInv DEF OtherWallet
<1>3. CASE AuctionStep
  <2> SUFFICES ASSUME NEW a \in Auction,
                      \/ EndTimePasses(a)
                      \/ SetStatus(a, "SETTLEMENT_IN_PROGRESS")
                      \/ SetStatus(a, "CANCELLED")
               PROVE  IInv'
    BY <1>3 DEF AuctionStep, ClaimForSettlement, CancelAuction, CancelAuctionAdmin
  <2> QED
    BY EndTimeInv, SetStatusInv DEF AuctionStatus
<1>4. CASE UNCHANGED vars
  BY <1>4 DEF vars, dbVars, lockVars, sessionVars, IInv, TypeOK, SingleLeader, Holding,
              Unrecorded, StillHighest, Validated, Beats, Call, Location, NoCall
<1> QED
  BY <1>1, <1>2, <1>3, <1>4 DEF Next

LEMMA Invariance == Spec => []IInv
BY InitInv, NextInv, PTL DEF Spec

\* Every reachable state is well typed.
THEOREM TypeCorrect == Spec => []TypeOK
<1>1. IInv => TypeOK
  BY DEF IInv
<1> QED
  BY <1>1, Invariance, PTL

\* However many requests race on however many auctions, an auction has one
\* ACTIVE bid at most and its highest_bid_id is that bid.
THEOREM OneLeader == Spec => []SingleLeader
<1>1. IInv => SingleLeader
  BY DEF IInv
<1> QED
  BY <1>1, Invariance, PTL

\* A bid rises over the bid it replaces, by the increment, and comes from another
\* bidder who is not the seller: what a request validated holds at its commit.
THEOREM BidsRise == Spec => PriceRises
<1>1. IInv /\ [Next]_vars =>
        [\A a \in Auction : highest_bid'[a] # highest_bid[a] =>
            LET new == req[highest_bid'[a]]
                old == req[highest_bid[a]]
            IN  /\ new.bidder # Seller[a]
                /\ IF highest_bid[a] = None
                   THEN new.amount >= StartingPrice[a]
                   ELSE /\ new.bidder # old.bidder
                        /\ new.amount >= old.amount + get_increment_for_amount(old.amount)
        ]_vars
  <2> SUFFICES ASSUME IInv, Next, NEW a \in Auction, highest_bid'[a] # highest_bid[a]
               PROVE  Beats(req[highest_bid'[a]], highest_bid[a], a)
    BY DEF Beats
  <2>1. PICK r \in Request : Commit(r)
    BY DEF Next, Bid, Serve, OtherWallet, AuctionStep, PlaceBid, Validate, Reject,
           LockWallet, LockPrevWallet, RefundRefused, NotifyOutbid, Crash,
           DeadlockAbort, RollBack, Deposit, Withdraw, EndTimePasses,
           ClaimForSettlement, CancelAuction, CancelAuctionAdmin, SetStatus, dbVars
  <2>2. a = req[r].auction /\ highest_bid'[a] = r
    BY <2>1 DEF Commit, CommitWith, IInv, TypeOK
  <2>3. pc[r] \in InTransaction
    BY <2>1 DEF Commit, CommitWith, InTransaction
  <2> QED
    BY <2>2, <2>3 DEF IInv, Validated, StillHighest
<1> QED
  BY <1>1, Invariance, PTL DEF PriceRises, Spec

\* A bid row appears only on an auction that is ACTIVE at that moment.
THEOREM ClosedMeansClosed == Spec => NoBidAfterClose
<1>1. IInv /\ [Next]_vars =>
        [\A r \in Request : bids[r] = None /\ bids'[r] # None =>
            status[req[r].auction] = "ACTIVE"]_vars
  <2> SUFFICES ASSUME IInv, Next, NEW q \in Request, bids[q] = None, bids'[q] # None
               PROVE  status[req[q].auction] = "ACTIVE"
    OBVIOUS
  <2>1. PICK r \in Request : Commit(r)
    BY DEF Next, Bid, Serve, OtherWallet, AuctionStep, PlaceBid, Validate, Reject,
           LockWallet, LockPrevWallet, RefundRefused, NotifyOutbid, Crash,
           DeadlockAbort, RollBack, Deposit, Withdraw, EndTimePasses,
           ClaimForSettlement, CancelAuction, CancelAuctionAdmin, SetStatus, dbVars
  <2>2. pc[r] \in InTransaction
    BY <2>1 DEF Commit, CommitWith, InTransaction
  <2>3. req[r].auction \in Auction
    BY <2>2, CallType DEF IInv, InTransaction, Call
  <2>4. q = r \/ q = current_highest[r]
    BY <2>1 DEF Commit, CommitWith, Recorded
  <2>5. q = r
    BY <2>2, <2>3, <2>4, NoneNotRequest DEF IInv, StillHighest, SingleLeader
  <2> QED
    BY <2>2, <2>5 DEF IInv, Validated
<1> QED
  BY <1>1, Invariance, PTL DEF NoBidAfterClose, Spec

-----------------------------------------------------------------------------
(***************************************************************************)
(* Bidding implements EnglishAuction.                                      *)
(***************************************************************************)

\* A step changes the status of auctions or the highest bids by one of the
\* actions that are there for it, or leaves both alone.
LEMMA StepKinds ==
    ASSUME [Next]_vars
    PROVE  \/ \E r \in Request : Commit(r)
           \/ \E a \in Auction, s \in AuctionStatus \ {"ACTIVE"} : SetStatus(a, s)
           \/ UNCHANGED <<status, highest_bid>>
BY DEF Next, Bid, Serve, OtherWallet, AuctionStep, PlaceBid, Validate, Reject,
       LockWallet, LockPrevWallet, RefundRefused, NotifyOutbid, Crash,
       DeadlockAbort, RollBack, Deposit, Withdraw, EndTimePasses,
       ClaimForSettlement, CancelAuction, CancelAuctionAdmin, dbVars, vars, AuctionStatus

\* A call is written when its request is idle, before it has a bid.
LEMMA CallsAreKept ==
    ASSUME IInv, [Next]_vars, NEW a \in Auction, highest_bid[a] # None
    PROVE  req'[highest_bid[a]] = req[highest_bid[a]]
<1>1. highest_bid[a] \in Request /\ bids[highest_bid[a]] = "ACTIVE"
  BY DEF IInv, TypeOK, SingleLeader
<1>2. pc[highest_bid[a]] # "idle"
  BY <1>1, NoneNotRequest DEF IInv, Unrecorded
<1>3. CASE \E r \in Request, b \in Auction, u \in User, m \in Amount : PlaceBid(r, b, u, m)
  BY <1>1, <1>2, <1>3 DEF PlaceBid, IInv, TypeOK
<1>4. CASE UNCHANGED req
  BY <1>4
<1> QED
  BY <1>3, <1>4 DEF Next, Bid, Serve, OtherWallet, AuctionStep, Validate, Reject,
       LockWallet, LockPrevWallet, RefundRefused, Commit, CommitWith, NotifyOutbid,
       Crash, DeadlockAbort, RollBack, Deposit, Withdraw, EndTimePasses, SetStatus,
       ClaimForSettlement, CancelAuction, CancelAuctionAdmin, dbVars, vars, sessionVars

LEMMA OfferKept ==
    ASSUME IInv, [Next]_vars, NEW a \in Auction, highest_bid'[a] = highest_bid[a]
    PROVE  Offer(a)' = Offer(a)
BY CallsAreKept DEF Offer

\* The commit of a place_bid call is the bid of the English auction.
LEMMA CommitBids ==
    ASSUME IInv, [Next]_vars, NEW r \in Request, Commit(r)
    PROVE  Promised!Bid(req[r].auction, req[r].bidder, req[r].amount)
<1> DEFINE b == req[r].auction
<1>1. pc[r] \in InTransaction /\ pc[r] # "idle"
  BY DEF Commit, CommitWith, InTransaction
<1>2. req[r] \in Call /\ b \in Auction
  BY <1>1, CallType DEF IInv, Call
<1>3. /\ highest_bid' = [highest_bid EXCEPT ![b] = r]
      /\ UNCHANGED <<status, req>>
      /\ r # None
  BY NoneNotRequest DEF Commit, CommitWith
<1>4. status[b] = "ACTIVE" /\ Beats(req[r], highest_bid[b], b)
  BY <1>1, <1>2 DEF IInv, Validated, StillHighest
<1>5. [a \in Auction |-> Offer(a)]' =
      [[a \in Auction |-> Offer(a)] EXCEPT ![b] =
           [bidder |-> req[r].bidder, amount |-> req[r].amount]]
  <2>1. \A a \in Auction : a = b =>
          Offer(a)' = [bidder |-> req[r].bidder, amount |-> req[r].amount]
    BY <1>2, <1>3 DEF Offer, IInv, TypeOK
  <2>2. \A a \in Auction \ {b} : Offer(a)' = Offer(a)
    BY <1>3, OfferKept DEF IInv, TypeOK
  <2>3. \A a \in Auction : Offer(a)' =
          IF a = b THEN [bidder |-> req[r].bidder, amount |-> req[r].amount] ELSE Offer(a)
    BY <2>1, <2>2
  <2>4. [a \in Auction |-> Offer(a)]' = [a \in Auction |-> Offer(a)']
    OBVIOUS
  <2> HIDE DEF b
  <2> QED
    BY <2>3, <2>4, Zenon
<1>6. Promised!Wins(b, req[r].bidder, req[r].amount)
  <2>1. CASE highest_bid[b] = None
    BY <1>2, <1>4, <2>1 DEF Promised!Wins, Beats, Offer
  <2>2. CASE highest_bid[b] # None
    <3>1. highest_bid[b] \in Request /\ bids[highest_bid[b]] = "ACTIVE"
      BY <1>2, <2>2 DEF IInv, TypeOK, SingleLeader
    <3>2. pc[highest_bid[b]] # "idle"
      BY <3>1, NoneNotRequest DEF IInv, Unrecorded
    <3>3. req[highest_bid[b]].amount # 0
      BY <3>1, <3>2, CallType, AmountPositive DEF IInv, Call
    <3>4. Offer(b) # NoOffer
      BY <2>2, <3>3 DEF Offer, NoOffer
    <3> QED
      BY <1>2, <1>4, <2>2, <3>4 DEF Promised!Wins, Beats, Offer
  <2> QED
    BY <2>1, <2>2
<1> QED
  BY <1>2, <1>3, <1>4, <1>5, <1>6 DEF Promised!Bid, Beats

LEMMA StatusCloses ==
    ASSUME IInv, [Next]_vars, NEW a \in Auction, NEW s \in AuctionStatus \ {"ACTIVE"},
           SetStatus(a, s)
    PROVE  [Promised!Close(a)]_(Promised!bidding)
<1>1. status' = [status EXCEPT ![a] = s] /\ UNCHANGED highest_bid /\ s # "ACTIVE"
  BY DEF SetStatus
<1>2. [b \in Auction |-> Offer(b)]' = [b \in Auction |-> Offer(b)]
  BY <1>1, OfferKept
<1>3. CASE status[a] = "ACTIVE"
  <2>1. [b \in Auction |-> status[b] = "ACTIVE"]' =
        [[b \in Auction |-> status[b] = "ACTIVE"] EXCEPT ![a] = FALSE]
    BY <1>1 DEF IInv, TypeOK
  <2> QED
    BY <1>2, <1>3, <2>1 DEF Promised!Close
<1>4. CASE status[a] # "ACTIVE"
  <2>1. [b \in Auction |-> status[b] = "ACTIVE"]' = [b \in Auction |-> status[b] = "ACTIVE"]
    BY <1>1, <1>4 DEF IInv, TypeOK
  <2> QED
    BY <1>2, <2>1 DEF Promised!bidding
<1> QED
  BY <1>3, <1>4

\* Whatever requests race, every behaviour is one of an English auction: a bid is
\* one step, taken by the rules while its auction is open.
THEOREM BidsAreAtomic == Spec => BidIsAtomic
<1>1. Init => Promised!Init
  BY DEF Init, Promised!Init, Offer
<1>2. IInv /\ [Next]_vars => [Promised!Next]_(Promised!bidding)
  <2> SUFFICES ASSUME IInv, [Next]_vars
               PROVE  [Promised!Next]_(Promised!bidding)
    OBVIOUS
  <2>1. CASE \E r \in Request : Commit(r)
    <3>1. PICK r \in Request : Commit(r)
      BY <2>1
    <3>2. req[r] \in Call
      BY <3>1, CallType DEF Commit, CommitWith, IInv
    <3> QED
      BY <3>1, <3>2, CommitBids DEF Promised!Next, Call
  <2>2. CASE \E a \in Auction, s \in AuctionStatus \ {"ACTIVE"} : SetStatus(a, s)
    BY <2>2, StatusCloses DEF Promised!Next
  <2>3. CASE UNCHANGED <<status, highest_bid>>
    <3>1. [a \in Auction |-> Offer(a)]' = [a \in Auction |-> Offer(a)]
      BY <2>3, OfferKept
    <3> QED
      BY <2>3, <3>1 DEF Promised!bidding
  <2> QED
    BY <2>1, <2>2, <2>3, StepKinds
<1> QED
  BY <1>1, <1>2, Invariance, PTL DEF Spec, BidIsAtomic, Promised!Spec
-----------------------------------------------------------------------------
(***************************************************************************)
(* The money of one auction.  Two auctions lose updates: a request reads   *)
(* its wallet before it locks it.  On one auction the auction row makes up *)
(* for that, and what a request has read is still true when it commits.    *)
(***************************************************************************)

OneAuction == \A a, b \in Auction : a = b

\* The Wallet object of a request in its transaction has the locked funds of the row,
\* and its available funds too unless somebody deposits or withdraws.
SnapshotTrue ==
    \A r \in Request : pc[r] \in InTransaction =>
        /\ snapshot[r].locked = wallet[req[r].bidder].locked
        /\ transfers = 0 => snapshot[r].available = wallet[req[r].bidder].available

Money == SnapshotTrue /\ LockedBacked /\ BidsReconcile

LEMMA OneInTransaction ==
    ASSUME IInv, OneAuction, NEW q \in Request, NEW r \in Request,
           pc[q] \in InTransaction, pc[r] \in InTransaction
    PROVE  q = r
<1>1. req[q].auction \in Auction /\ req[r].auction \in Auction
  BY CallType DEF IInv, InTransaction, Call
<1>2. req[q].auction = req[r].auction
  BY <1>1 DEF OneAuction
<1> QED
  BY <1>2 DEF IInv, Holding

\* A user has one bid that leads, at most.
LEMMA ActiveFinite ==
    ASSUME IInv, OneAuction, NEW u
    PROVE  IsFiniteSet(ActiveBidsOf(u))
<1>1. \A r \in Request : bids[r] = "ACTIVE" => req[r].auction \in Auction
  <2> SUFFICES ASSUME NEW r \in Request, bids[r] = "ACTIVE"
               PROVE  req[r].auction \in Auction
    OBVIOUS
  <2>1. pc[r] # "idle"
    BY NoneNotRequest DEF IInv, Unrecorded
  <2> QED
    BY <2>1, CallType DEF IInv, Call
<1>2. CASE Auction = {}
  <2>1. ActiveBidsOf(u) = {}
    BY <1>1, <1>2 DEF ActiveBidsOf
  <2> QED
    BY <2>1, FS_EmptySet
<1>3. CASE Auction # {}
  <2>1. PICK a \in Auction : TRUE
    BY <1>3
  <2>2. ActiveBidsOf(u) \subseteq {highest_bid[a]}
    BY <1>1, <2>1 DEF ActiveBidsOf, OneAuction, IInv, SingleLeader
  <2> QED
    BY <2>2, FS_Singleton, FS_Subset
<1> QED
  BY <1>2, <1>3

LEMMA InitMoney == Init => Money
<1> SUFFICES ASSUME Init PROVE Money
  OBVIOUS
<1>1. SnapshotTrue
  BY DEF Init, SnapshotTrue, InTransaction
<1>2. LockedBacked
  <2>1. \A u \in User : ActiveBidsOf(u) = {}
    BY NoneNotRequest DEF Init, ActiveBidsOf
  <2>2. \A u \in User : wallet[u].locked = 0
    BY DEF Init
  <2> QED
    BY <2>1, <2>2, SumEmpty DEF LockedBacked
<1>3. BidsReconcile
  <2>1. Funds \in [User -> Nat]
    BY Zenon, BiddingAssumption
  <2> QED
    BY <2>1 DEF Init, BidsReconcile
<1> QED
  BY <1>1, <1>2, <1>3 DEF Money

\* A step that leaves bids and wallets alone and takes nobody into a transaction.
LEMMA QuietMoney ==
    ASSUME Money, UNCHANGED <<wallet, ledger, transfers, bids, req, snapshot>>,
           \A q \in Request : pc'[q] \in InTransaction => pc[q] \in InTransaction
    PROVE  Money'
<1>1. SnapshotTrue'
  BY DEF Money, SnapshotTrue
<1>2. LockedBacked'
  BY DEF Money, LockedBacked, ActiveBidsOf
<1>3. BidsReconcile'
  BY DEF Money, BidsReconcile
<1> QED
  BY <1>1, <1>2, <1>3 DEF Money

\* A call that arrives has no bid yet.
LEMMA PlaceBidMoney ==
    ASSUME IInv, OneAuction, Money, NEW r \in Request, NEW a \in Auction, NEW u \in User,
           NEW m \in Amount, PlaceBid(r, a, u, m)
    PROVE  Money'
<1>1. /\ pc[r] = "idle" /\ pc'[r] = "lock_auction"
      /\ \A q \in Request : q # r => pc'[q] = pc[q] /\ req'[q] = req[q]
      /\ UNCHANGED <<bids, wallet, ledger, transfers, snapshot>>
  BY DEF PlaceBid, Goto, IInv, TypeOK, dbVars
<1>2. bids[r] # "ACTIVE"
  BY <1>1, NoneNotRequest DEF IInv, Unrecorded
<1>3. SnapshotTrue'
  BY <1>1 DEF Money, SnapshotTrue, InTransaction
<1>4. LockedBacked'
  <2> SUFFICES ASSUME NEW v \in User
               PROVE  wallet[v].locked =
                         SumFunctionOnSet([q \in Request |-> req'[q].amount], ActiveBidsOf(v)')
    BY <1>1 DEF LockedBacked
  <2> DEFINE F == [q \in Request |-> req[q].amount]
             G == [q \in Request |-> req'[q].amount]
  <2>1. ActiveBidsOf(v)' = ActiveBidsOf(v)
    BY <1>1, <1>2 DEF ActiveBidsOf
  <2>2. \A q \in ActiveBidsOf(v) : F[q] = G[q]
    BY <1>1, <1>2 DEF ActiveBidsOf
  <2>3. wallet[v].locked = SumFunctionOnSet(F, ActiveBidsOf(v))
    BY DEF Money, LockedBacked
  <2>4. IsFiniteSet(ActiveBidsOf(v))
    BY ActiveFinite
  <2> HIDE DEF F, G
  <2>5. SumFunctionOnSet(F, ActiveBidsOf(v)) = SumFunctionOnSet(G, ActiveBidsOf(v))
    BY <2>2, <2>4, SumEqual
  <2>6. wallet[v].locked = SumFunctionOnSet(G, ActiveBidsOf(v)')
    BY <2>1, <2>3, <2>5
  <2> QED
    BY <2>6 DEF G
<1>5. BidsReconcile'
  BY <1>1 DEF Money, BidsReconcile
<1> QED
  BY <1>3, <1>4, <1>5 DEF Money

\* A request that validates reads the wallet as it is.
LEMMA ValidateMoney ==
    ASSUME IInv, Money, NEW r \in Request, Validate(r)
    PROVE  Money'
<1>1. /\ pc'[r] = "lock_wallet" /\ \A q \in Request : q # r => pc'[q] = pc[q]
      /\ snapshot'[r] = wallet[req[r].bidder]
      /\ \A q \in Request : q # r => snapshot'[q] = snapshot[q]
      /\ UNCHANGED <<bids, wallet, ledger, transfers, req>>
  BY DEF Validate, Goto, IInv, TypeOK, dbVars
<1>2. SnapshotTrue'
  BY <1>1 DEF Money, SnapshotTrue
<1>3. LockedBacked'
  BY <1>1 DEF Money, LockedBacked, ActiveBidsOf
<1>4. BidsReconcile'
  BY <1>1 DEF Money, BidsReconcile
<1> QED
  BY <1>2, <1>3, <1>4 DEF Money

\* Deposits and withdrawals change available_funds only.
LEMMA TransferMoney ==
    ASSUME IInv, Money, NEW u \in User, NEW m \in Amount, Deposit(u, m) \/ Withdraw(u, m)
    PROVE  Money'
<1>1. /\ UNCHANGED <<pc, req, bids, snapshot>>
      /\ \A v \in User : wallet'[v].locked = wallet[v].locked
      /\ transfers' = transfers + 1 /\ transfers \in Nat
  <2>1. UNCHANGED <<pc, req, bids, snapshot>> /\ transfers' = transfers + 1
    BY DEF Deposit, Withdraw, sessionVars
  <2>2. transfers \in Nat
    <3>1. MaxTransfers \in Nat
      BY Zenon, BiddingAssumption
    <3> QED
      BY <3>1 DEF IInv, TypeOK
  <2>3. PICK x \in Int : wallet' = [wallet EXCEPT ![u] = [wallet[u] EXCEPT !.available = x]]
    <3>1. wallet[u].available + m \in Int /\ wallet[u].available - m \in Int
      BY AmountPositive DEF IInv, TypeOK
    <3> QED
      BY <3>1 DEF Deposit, Withdraw
  <2>4. wallet \in [User -> [available: Int, locked: Int]]
    BY DEF IInv, TypeOK
  <2>5. ASSUME NEW v \in User PROVE wallet'[v].locked = wallet[v].locked
    <3>1. CASE v = u
      BY <2>3, <2>4, <3>1
    <3>2. CASE v # u
      BY <2>3, <2>4, <3>2
    <3> QED
      BY <3>1, <3>2
  <2> QED
    BY <2>1, <2>2, <2>5
<1>2. transfers' # 0
  BY <1>1
<1>3. SnapshotTrue'
  <2> SUFFICES ASSUME NEW r \in Request, pc[r] \in InTransaction
               PROVE  snapshot[r].locked = wallet'[req[r].bidder].locked
    BY <1>1, <1>2 DEF SnapshotTrue
  <2>1. req[r].bidder \in User
    BY CallType DEF IInv, InTransaction, Call
  <2> QED
    BY <1>1, <2>1 DEF Money, SnapshotTrue
<1>4. LockedBacked'
  BY <1>1 DEF Money, LockedBacked, ActiveBidsOf
<1>5. BidsReconcile'
  BY <1>2 DEF BidsReconcile
<1> QED
  BY <1>3, <1>4, <1>5 DEF Money

\* A commit moves the funds of the new leader and of the bidder who is outbid.
LEMMA CommitMoney ==
    ASSUME IInv, OneAuction, Money, NEW r \in Request, Commit(r)
    PROVE  Money'
<1> DEFINE u == req[r].bidder
           m == req[r].amount
           prev == current_highest[r]
           w == req[prev].bidder
           F == [q \in Request |-> req[q].amount]
<1>1. pc[r] = "commit" /\ pc[r] \in InTransaction /\ bids[r] = None
  BY DEF Commit, CommitWith, InTransaction, IInv, Unrecorded
<1>2. u \in User /\ m \in Int /\ req[r].auction \in Auction
  BY <1>1, CallType, AmountPositive DEF IInv, Call
<1>3. /\ prev = highest_bid[req[r].auction]
      /\ prev # None =>
            /\ prev \in Request /\ bids[prev] = "ACTIVE" /\ prev # r
            /\ w # u /\ F[prev] \in Int /\ F[prev] = PrevAmount(r)
  <2>1. prev = highest_bid[req[r].auction]
    BY <1>1 DEF IInv, StillHighest
  <2>2. prev # None => prev \in Request
    BY DEF IInv, TypeOK
  <2>3. prev # None => bids[prev] = "ACTIVE"
    BY <1>2, <2>1, <2>2 DEF IInv, SingleLeader
  <2>4. prev # None => w # u
    BY <1>1 DEF IInv, Validated, Beats
  <2>5. prev # None => F[prev] = PrevAmount(r) /\ F[prev] \in Int
    BY <2>2, AmountType DEF PrevAmount, IInv
  <2> QED
    BY <1>1, <2>1, <2>2, <2>3, <2>4, <2>5, NoneNotRequest
<1>4. /\ bids'[r] = "ACTIVE"
      /\ \A q \in Request : q # r /\ q = prev => bids'[q] = "RELEASED"
      /\ \A q \in Request : q # r /\ q # prev => bids'[q] = bids[q]
      /\ UNCHANGED <<req, transfers, snapshot>>
  BY DEF Commit, CommitWith, Recorded
<1>5. \A q \in Request : pc'[q] \notin InTransaction
  <2>1. \A q \in Request : q # r => pc'[q] = pc[q]
    BY DEF Commit, CommitWith, Goto, IInv, TypeOK
  <2>2. pc'[r] \in {"accepted", "notify"}
    BY DEF Commit, CommitWith, Goto, IInv, TypeOK
  <2>3. \A q \in Request : pc[q] \in InTransaction => q = r
    BY <1>1, OneInTransaction
  <2> QED
    BY <2>1, <2>2, <2>3 DEF InTransaction
<1>6. SnapshotTrue'
  BY <1>5 DEF SnapshotTrue
<1>7. /\ snapshot[r].locked = wallet[u].locked
      /\ transfers = 0 => snapshot[r].available = wallet[u].available
  BY <1>1 DEF Money, SnapshotTrue
<1>8. wallet \in [User -> [available: Int, locked: Int]] /\ ledger \in [User -> Int]
  BY DEF IInv, TypeOK
<1>9. ASSUME NEW v \in User
      PROVE  /\ v = u =>
                   /\ wallet'[v].available = snapshot[r].available - m
                   /\ wallet'[v].locked = snapshot[r].locked + m
                   /\ ledger'[v] = ledger[v] - m
             /\ v # u /\ prev # None /\ v = w =>
                   /\ wallet'[v].available = wallet[v].available + F[prev]
                   /\ wallet'[v].locked = wallet[v].locked - F[prev]
                   /\ ledger'[v] = ledger[v] + F[prev]
             /\ v # u /\ ~(prev # None /\ v = w) =>
                   /\ wallet'[v] = wallet[v]
                   /\ ledger'[v] = ledger[v]
  <2>1. wallet' = Balances(r) /\ ledger' = LedgerRows(r)
    BY DEF Commit, CommitWith
  <2>2. prev # None => F[prev] = PrevAmount(r)
    BY <1>3
  <2>3. CASE v = u
    BY <2>1, <2>3 DEF Balances, LedgerRows
  <2>4. CASE v # u /\ prev # None /\ v = w
    BY <2>1, <2>2, <2>4 DEF Balances, LedgerRows, PrevBidder
  <2>5. CASE v # u /\ ~(prev # None /\ v = w)
    BY <2>1, <2>5 DEF Balances, LedgerRows, PrevBidder
  <2> QED
    BY <2>3, <2>4, <2>5
<1>10. LockedBacked'
  <2> SUFFICES ASSUME NEW v \in User
               PROVE  wallet'[v].locked = SumFunctionOnSet(F, ActiveBidsOf(v)')
    BY <1>4 DEF LockedBacked
  <2>1. wallet[v].locked = SumFunctionOnSet(F, ActiveBidsOf(v))
    BY DEF Money, LockedBacked
  <2>2. IsFiniteSet(ActiveBidsOf(v)) /\ ActiveBidsOf(v) \subseteq Request
    BY ActiveFinite DEF ActiveBidsOf
  <2>3. \A q \in Request : F[q] \in Int
    BY AmountType DEF IInv
  <2>4. wallet[v].locked \in Int
    BY <1>8
  <2>5. CASE v = u
    <3>1. ActiveBidsOf(v)' = ActiveBidsOf(v) \union {r} /\ r \notin ActiveBidsOf(v)
      BY <1>1, <1>3, <1>4, <2>5, NoneNotRequest DEF ActiveBidsOf
    <3>2. F[r] = m
      OBVIOUS
    <3> HIDE DEF F
    <3>3. SumFunctionOnSet(F, ActiveBidsOf(v) \union {r}) =
             F[r] + SumFunctionOnSet(F, ActiveBidsOf(v))
      BY <2>2, <2>3, <3>1, SumAdd
    <3>4. wallet'[v].locked = wallet[v].locked + m
      <4>1. wallet'[v].locked = snapshot[r].locked + m
        BY <1>9, <2>5
      <4>2. snapshot[r].locked = wallet[v].locked
        BY <1>7, <2>5
      <4> QED
        BY <4>1, <4>2
    <3> HIDE DEF m
    <3> QED
      BY <1>2, <2>1, <2>4, <3>1, <3>2, <3>3, <3>4
  <2>6. CASE v # u /\ prev # None /\ v = w
    <3>1. ActiveBidsOf(v)' = ActiveBidsOf(v) \ {prev} /\ prev \in ActiveBidsOf(v)
      BY <1>3, <1>4, <2>6 DEF ActiveBidsOf
    <3>2. IsFiniteSet(ActiveBidsOf(v) \ {prev})
      BY <2>2, FS_Subset
    <3>5. wallet'[v].locked = wallet[v].locked - F[prev] /\ F[prev] \in Int
      BY <1>3, <1>9, <2>6
    <3> HIDE DEF F, prev
    <3>3. SumFunctionOnSet(F, ActiveBidsOf(v)) =
             F[prev] + SumFunctionOnSet(F, ActiveBidsOf(v) \ {prev})
      BY <2>2, <2>3, <3>1, SumRemove
    <3>4. SumFunctionOnSet(F, ActiveBidsOf(v) \ {prev}) \in Int
      BY <2>2, <2>3, <3>2, SumType
    <3> QED
      BY <2>1, <3>1, <3>3, <3>4, <3>5
  <2>7. CASE v # u /\ ~(prev # None /\ v = w)
    <3>1. ActiveBidsOf(v)' = ActiveBidsOf(v)
      BY <1>3, <1>4, <2>7, NoneNotRequest DEF ActiveBidsOf
    <3>2. wallet'[v].locked = wallet[v].locked
      BY <1>9, <2>7
    <3> QED
      BY <2>1, <3>1, <3>2
  <2> QED
    BY <2>5, <2>6, <2>7
<1>11. BidsReconcile'
  <2> SUFFICES ASSUME transfers = 0, NEW v \in User
               PROVE  wallet'[v].available = Funds[v] + ledger'[v]
    BY <1>4 DEF BidsReconcile
  <2>1. wallet[v].available = Funds[v] + ledger[v] /\ Funds[v] \in Int /\ ledger[v] \in Int
    <3>1. Funds \in [User -> Nat]
      BY Zenon, BiddingAssumption
    <3> QED
      BY <1>8, <3>1 DEF Money, BidsReconcile
  <2>2. CASE v = u
    <3>1. wallet'[v].available = snapshot[r].available - m /\ ledger'[v] = ledger[v] - m
      BY <1>9, <2>2
    <3>2. snapshot[r].available = wallet[v].available
      BY <1>7, <2>2
    <3> HIDE DEF m
    <3> QED
      BY <1>2, <2>1, <3>1, <3>2
  <2>3. CASE v # u /\ prev # None /\ v = w
    <3>1. /\ wallet'[v].available = wallet[v].available + F[prev]
          /\ ledger'[v] = ledger[v] + F[prev]
          /\ F[prev] \in Int
      BY <1>3, <1>9, <2>3
    <3> HIDE DEF F, prev
    <3> QED
      BY <2>1, <3>1
  <2>4. CASE v # u /\ ~(prev # None /\ v = w)
    BY <1>9, <2>1, <2>4
  <2> QED
    BY <2>2, <2>3, <2>4
<1> QED
  BY <1>6, <1>10, <1>11 DEF Money

LEMMA NextMoney ==
    ASSUME IInv, OneAuction, Money, [Next]_vars
    PROVE  Money'
<1>1. ASSUME NEW r \in Request, NEW a \in Auction, NEW u \in User, NEW m \in Amount,
             PlaceBid(r, a, u, m)
      PROVE  Money'
  BY <1>1, PlaceBidMoney
<1>2. ASSUME NEW r \in Request, Serve(r) \/ Crash(r)
      PROVE  Money'
  <2>1. CASE LockWallet(r) \/ LockPrevWallet(r) \/ NotifyOutbid(r)
    <3>1. \A q \in Request : pc'[q] \in InTransaction => pc[q] \in InTransaction
      BY <2>1 DEF LockWallet, LockPrevWallet, NotifyOutbid, Goto, IInv, TypeOK, InTransaction
    <3> QED
      BY <2>1, <3>1, QuietMoney DEF LockWallet, LockPrevWallet, NotifyOutbid, dbVars
  <2>2. ASSUME NEW answer \in Answered, RollBack(r, answer)
        PROVE  Money'
    <3>1. \A q \in Request : pc'[q] \in InTransaction => pc[q] \in InTransaction
      BY <2>2 DEF RollBack, Goto, IInv, TypeOK, InTransaction, Answered
    <3> QED
      BY <2>2, <3>1, QuietMoney DEF RollBack, dbVars
  <2>3. CASE Reject(r) \/ RefundRefused(r) \/ DeadlockAbort(r) \/ Crash(r)
    BY <2>2, <2>3 DEF Reject, RefundRefused, DeadlockAbort, Crash, Answered
  <2> QED
    BY <1>2, <2>1, <2>3, ValidateMoney, CommitMoney DEF Serve
<1>3. ASSUME NEW u \in User, NEW m \in Amount, Deposit(u, m) \/ Withdraw(u, m)
      PROVE  Money'
  BY <1>3, TransferMoney
<1>4. ASSUME NEW a \in Auction, \/ EndTimePasses(a) \/ ClaimForSettlement(a)
                                \/ CancelAuction(a) \/ CancelAuctionAdmin(a)
      PROVE  Money'
  BY <1>4, QuietMoney DEF EndTimePasses, ClaimForSettlement, CancelAuction,
     CancelAuctionAdmin, SetStatus, sessionVars
<1>5. CASE UNCHANGED vars
  BY <1>5, QuietMoney DEF vars, dbVars, sessionVars
<1> QED
  BY <1>1, <1>2, <1>3, <1>4, <1>5 DEF Next, Bid, OtherWallet, AuctionStep

LEMMA MoneyInvariance == ASSUME OneAuction PROVE Spec => []Money
<1>1. IInv /\ Money /\ [Next]_vars => Money'
  BY NextMoney
<1> QED
  BY <1>1, InitMoney, Invariance, PTL DEF Spec

\* On one auction, locked_funds are the funds of the bids that lead, whatever bids,
\* deposits and withdrawals cross: the auction row keeps apart what the wallet rows,
\* read before they are locked, would not.
THEOREM LockedFundsBacked == OneAuction => (Spec => []LockedBacked)
<1> SUFFICES ASSUME OneAuction PROVE Spec => []LockedBacked
  OBVIOUS
<1>1. Money => LockedBacked
  BY DEF Money
<1> QED
  BY <1>1, MoneyInvariance, PTL

\* On one auction, and as long as nobody deposits or withdraws, the transactions of a
\* wallet explain its spendable balance after every bid, refusal, crash and rollback.
THEOREM BidsExplainBalance == OneAuction => (Spec => []BidsReconcile)
<1> SUFFICES ASSUME OneAuction PROVE Spec => []BidsReconcile
  OBVIOUS
<1>1. Money => BidsReconcile
  BY DEF Money
<1> QED
  BY <1>1, MoneyInvariance, PTL
=============================================================================
