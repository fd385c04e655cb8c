------------------------------- MODULE Bidding -------------------------------
(***************************************************************************)
(* Placing bids (apps/bids/service.py) as the database sees it: every      *)
(* request is one READ COMMITTED transaction that takes row locks and      *)
(* installs its writes when it commits.  Auctions are closed meanwhile by  *)
(* the settlement task and by cancellation, and wallets are also written   *)
(* by deposits and withdrawals.                                            *)
(*                                                                         *)
(* A request places at most one bid, so the bid it places is named by the  *)
(* request.  Bids leave the wallet's third balance (escrow_funds) alone.   *)
(***************************************************************************)
EXTENDS BidIncrement, FiniteSets, Functions

CONSTANTS
    User, Auction,
    Request,        \* place_bid calls, each with a database session of its own
    None,           \* SQL NULL: no request, no bid
    Seller,         \* seller of each auction
    StartingPrice,  \* starting price of the first item of each auction
    Funds,          \* available_funds of each user at the start
    BidLimit,       \* max_bid of each user's KYC tier
    Amount,         \* amounts that requests, deposits and withdrawals name
    MaxTransfers    \* bound: deposits and withdrawals in a behaviour

ASSUME BiddingAssumption ==
    /\ None \notin Request \union {"ACTIVE", "RELEASED"}
    /\ Seller \in [Auction -> User]
    /\ StartingPrice \in [Auction -> Nat \ {0}]
    /\ Funds \in [User -> Nat]
    /\ BidLimit \in [User -> Nat]
    /\ Amount \subseteq Nat \ {0}
    /\ MaxTransfers \in Nat

VARIABLES
    status,        \* auctions.status
    ended,         \* has the clock passed auctions.ends_at?
    highest_bid,   \* auctions.highest_bid_id
    bids,          \* bids.status of each request's bid, None while it has no row
    wallet,        \* wallets.available_funds and wallets.locked_funds
    ledger,        \* net AVAILABLE amount of the wallet_transactions rows
    transfers,     \* deposits and withdrawals so far
    auction_lock,  \* holder of each auction row lock
    wallet_lock,   \* holder of each wallet row lock
    pc,            \* where each request stands
    req,           \* auction, bidder and amount of each request
    current_highest, \* the local of that name: the bid the request outbids
    snapshot       \* the Wallet object in the request's session

dbVars   == <<status, ended, highest_bid, bids, wallet, ledger, transfers>>
lockVars == <<auction_lock, wallet_lock>>
sessionVars == <<pc, req, current_highest, snapshot>>
vars == <<dbVars, lockVars, sessionVars>>

AuctionStatus == {"ACTIVE", "SETTLEMENT_IN_PROGRESS", "CANCELLED"}
BidStatus == {"ACTIVE", "RELEASED"}
Answered == {"accepted", "rejected", "failed"}
InTransaction == {"lock_wallet", "lock_prev", "commit"}
Location == {"idle", "lock_auction", "notify"} \union InTransaction \union Answered

NoCall == [auction |-> None, bidder |-> None, amount |-> 0]
NoWallet == [available |-> 0, locked |-> 0]

Init ==
    /\ status = [a \in Auction |-> "ACTIVE"]
    /\ ended = [a \in Auction |-> FALSE]
    /\ highest_bid = [a \in Auction |-> None]
    /\ bids = [r \in Request |-> None]
    /\ wallet = [u \in User |-> [available |-> Funds[u], locked |-> 0]]
    /\ ledger = [u \in User |-> 0]
    /\ transfers = 0
    /\ auction_lock = [a \in Auction |-> None]
    /\ wallet_lock = [u \in User |-> None]
    /\ pc = [r \in Request |-> "idle"]
    /\ req = [r \in Request |-> NoCall]
    /\ current_highest = [r \in Request |-> None]
    /\ snapshot = [r \in Request |-> NoWallet]

-----------------------------------------------------------------------------
Goto(r, l) == pc' = [pc EXCEPT ![r] = l]

\* Commit, rollback and the end of a session release every row lock they hold.
Free(lock, r) == [x \in DOMAIN lock |-> IF lock[x] = r THEN None ELSE lock[x]]

ReleaseLocks(r) ==
    /\ auction_lock' = Free(auction_lock, r)
    /\ wallet_lock' = Free(wallet_lock, r)

\* Mutant: the exception leaves the transaction open.
RollBackKeepsLocks(r, answer) ==
    /\ Goto(r, answer)
    /\ UNCHANGED <<dbVars, lockVars, req, current_highest, snapshot>>

RollBack(r, answer) ==
    /\ ReleaseLocks(r)
    /\ Goto(r, answer)
    /\ UNCHANGED <<dbVars, req, current_highest, snapshot>>

ActiveBids(a) == {r \in Request : bids[r] = "ACTIVE" /\ req[r].auction = a}

\* BidRepository.get_highest_bid: by amount, the largest first.
get_highest_bid(a) ==
    IF ActiveBids(a) = {}
    THEN None
    ELSE CHOOSE r \in ActiveBids(a) :
            \A q \in ActiveBids(a) : req[q].amount <= req[r].amount

\* Mutant: the next bid only has to reach the highest one.
MinimumBidNoIncrement(a) ==
    IF get_highest_bid(a) = None THEN StartingPrice[a]
    ELSE req[get_highest_bid(a)].amount

MinimumBid(a) ==
    LET high == get_highest_bid(a)
    IN  IF high = None
        THEN StartingPrice[a]
        ELSE req[high].amount + get_increment_for_amount(req[high].amount)

check_bid_limit(u, m) == m <= BidLimit[u]

\* Mutant: only the clock says whether the auction takes bids.
AcceptableUntilEnd(a, u, m) ==
    /\ ~ended[a]
    /\ u # Seller[a]
    /\ get_highest_bid(a) # None => req[get_highest_bid(a)].bidder # u
    /\ m >= MinimumBid(a)
    /\ wallet[u].available >= m
    /\ check_bid_limit(u, m)

\* The checks place_bid makes before its first write, in the state it reads.
Acceptable(a, u, m) ==
    /\ status[a] = "ACTIVE"
    /\ ~ended[a]
    /\ u # Seller[a]
    /\ get_highest_bid(a) # None => req[get_highest_bid(a)].bidder # u
    /\ m >= MinimumBid(a)
    /\ wallet[u].available >= m
    /\ check_bid_limit(u, m)

-----------------------------------------------------------------------------
\* A bid arrives; its session starts by waiting for the auction row.
PlaceBid(r, a, u, m) ==
    /\ pc[r] = "idle"
    /\ req' = [req EXCEPT ![r] = [auction |-> a, bidder |-> u, amount |-> m]]
    /\ Goto(r, "lock_auction")
    /\ UNCHANGED <<dbVars, lockVars, current_highest, snapshot>>

\* Mutant: the auction is read without FOR UPDATE.
ValidateUnlocked(r) ==
    LET a == req[r].auction
        u == req[r].bidder
    IN  /\ pc[r] = "lock_auction"
        /\ Acceptable(a, u, req[r].amount)
        /\ current_highest' = [current_highest EXCEPT ![r] = get_highest_bid(a)]
        /\ snapshot' = [snapshot EXCEPT ![r] = wallet[u]]
        /\ Goto(r, "lock_wallet")
        /\ UNCHANGED <<dbVars, lockVars, req>>

\* The row is free: lock it, validate, and read the bidder's wallet without a
\* lock.  The Wallet object read here stays in the session.
Validate(r) ==
    LET a == req[r].auction
        u == req[r].bidder
    IN  /\ pc[r] = "lock_auction"
        /\ auction_lock[a] = None
        /\ Acceptable(a, u, req[r].amount)
        /\ auction_lock' = [auction_lock EXCEPT ![a] = r]
        /\ current_highest' = [current_highest EXCEPT ![r] = get_highest_bid(a)]
        /\ snapshot' = [snapshot EXCEPT ![r] = wallet[u]]
        /\ Goto(r, "lock_wallet")
        /\ UNCHANGED <<dbVars, wallet_lock, req>>

\* The row is free but a check fails: the exception ends the session.
Reject(r) ==
    LET a == req[r].auction
    IN  /\ pc[r] = "lock_auction"
        /\ auction_lock[a] = None
        /\ ~Acceptable(a, req[r].bidder, req[r].amount)
        /\ RollBack(r, "rejected")

\* SELECT ... FOR UPDATE takes the row lock but returns the object the session
\* already has, with the attributes of the first read: the second check of the
\* funds looks at the snapshot too.
LockWallet(r) ==
    LET u == req[r].bidder
    IN  /\ pc[r] = "lock_wallet"
        /\ wallet_lock[u] = None
        /\ snapshot[r].available >= req[r].amount
        /\ wallet_lock' = [wallet_lock EXCEPT ![u] = r]
        /\ Goto(r, IF current_highest[r] = None THEN "commit" ELSE "lock_prev")
        /\ UNCHANGED <<dbVars, auction_lock, req, current_highest, snapshot>>

PrevBidder(r) == req[current_highest[r]].bidder
PrevAmount(r) == req[current_highest[r]].amount

\* This wallet is read for the first time under its lock: the values are fresh.
LockPrevWallet(r) ==
    /\ pc[r] = "lock_prev"
    /\ wallet_lock[PrevBidder(r)] = None
    /\ wallet[PrevBidder(r)].locked >= PrevAmount(r)
    /\ wallet_lock' = [wallet_lock EXCEPT ![PrevBidder(r)] = r]
    /\ Goto(r, "commit")
    /\ UNCHANGED <<dbVars, auction_lock, req, current_highest, snapshot>>

\* update_balances refuses to make locked_funds negative (WalletLockException).
RefundRefused(r) ==
    /\ pc[r] = "lock_prev"
    /\ wallet_lock[PrevBidder(r)] = None
    /\ wallet[PrevBidder(r)].locked < PrevAmount(r)
    /\ RollBack(r, "failed")

\* Mutant: the refund forgets to lower locked_funds.
BalancesKeepLocked(r) ==
    [u \in User |->
        CASE u = req[r].bidder ->
                [available |-> snapshot[r].available - req[r].amount,
                 locked    |-> snapshot[r].locked + req[r].amount]
          [] u # req[r].bidder /\ current_highest[r] # None /\ u = PrevBidder(r) ->
                [wallet[u] EXCEPT !.available = @ + PrevAmount(r)]
          [] OTHER -> wallet[u]]

\* The writes of one transaction: absolute values computed from the snapshot
\* for the bidder, and from the locked row for the bidder who is outbid.
Balances(r) ==
    [u \in User |->
        CASE u = req[r].bidder ->
                [available |-> snapshot[r].available - req[r].amount,
                 locked    |-> snapshot[r].locked + req[r].amount]
          [] u # req[r].bidder /\ current_highest[r] # None /\ u = PrevBidder(r) ->
                [available |-> wallet[u].available + PrevAmount(r),
                 locked    |-> wallet[u].locked - PrevAmount(r)]
          [] OTHER -> wallet[u]]

\* Mutant: no BID_UNLOCK row for the bidder who is outbid.
LedgerRowsDebitOnly(r) ==
    [ledger EXCEPT ![req[r].bidder] = @ - req[r].amount]

\* BID_LOCK debits the bidder, BID_UNLOCK credits the bidder who is outbid.
LedgerRows(r) ==
    [u \in User |->
        CASE u = req[r].bidder -> ledger[u] - req[r].amount
          [] u # req[r].bidder /\ current_highest[r] # None /\ u = PrevBidder(r) ->
                ledger[u] + PrevAmount(r)
          [] OTHER -> ledger[u]]

\* The bid rows after r's bid, and its leader's new status.
Recorded(r, outbid) ==
    [q \in Request |->
        CASE q = r -> "ACTIVE"
          [] q # r /\ q = current_highest[r] -> outbid
          [] OTHER -> bids[q]]

CommitWith(r, outbid) ==
    /\ pc[r] = "commit"
    /\ bids' = Recorded(r, outbid)
    /\ highest_bid' = [highest_bid EXCEPT ![req[r].auction] = r]
    /\ wallet' = Balances(r)
    /\ ledger' = LedgerRows(r)
    /\ ReleaseLocks(r)
    /\ Goto(r, IF current_highest[r] = None THEN "accepted" ELSE "notify")
    /\ UNCHANGED <<status, ended, transfers, req, current_highest, snapshot>>

\* Mutants: the outbid bid is left ACTIVE, or OUTBID.
CommitKeepsActive(r) == CommitWith(r, "ACTIVE")
CommitLeavesOutbid(r) == CommitWith(r, "OUTBID")

\* The outbid bid passes through OUTBID to RELEASED within the transaction.
Commit(r) == CommitWith(r, "RELEASED")

\* After the commit: queue the notification for the bidder who was outbid.  What
\* matters here is that it comes after the commit and may fail (Crash).
NotifyOutbid(r) ==
    /\ pc[r] = "notify"
    /\ Goto(r, "accepted")
    /\ UNCHANGED <<dbVars, lockVars, req, current_highest, snapshot>>

\* The process dies, the connection drops or, after the commit, the broker
\* refuses the notification: PostgreSQL rolls back what was not committed.
Crash(r) ==
    /\ pc[r] \in InTransaction \union {"lock_auction", "notify"}
    /\ RollBack(r, "failed")

-----------------------------------------------------------------------------
\* The request whose row lock r waits for.
WaitsFor(r, q) ==
    \/ pc[r] = "lock_auction" /\ auction_lock[req[r].auction] = q
    \/ pc[r] = "lock_wallet" /\ wallet_lock[req[r].bidder] = q
    \/ pc[r] = "lock_prev" /\ wallet_lock[PrevBidder(r)] = q

InCycle(r) ==
    \E S \in SUBSET Request :
        /\ r \in S
        /\ \A q \in S : \E p \in S : WaitsFor(p, q)
        /\ \A p \in S : \E q \in S : WaitsFor(p, q)

\* PostgreSQL's deadlock detector aborts a transaction on the cycle.
DeadlockAbort(r) ==
    /\ InCycle(r)
    /\ RollBack(r, "failed")

-----------------------------------------------------------------------------
\* A verified payment: wallet locked by its first read, credited, committed.
Deposit(u, m) ==
    /\ transfers < MaxTransfers
    /\ wallet_lock[u] = None
    /\ wallet' = [wallet EXCEPT ![u].available = @ + m]
    /\ ledger' = [ledger EXCEPT ![u] = @ + m]
    /\ transfers' = transfers + 1
    /\ UNCHANGED <<status, ended, highest_bid, bids, lockVars, sessionVars>>

\* A withdrawal debits the wallet when it is requested.
Withdraw(u, m) ==
    /\ transfers < MaxTransfers
    /\ wallet_lock[u] = None
    /\ wallet[u].available >= m
    /\ wallet' = [wallet EXCEPT ![u].available = @ - m]
    /\ ledger' = [ledger EXCEPT ![u] = @ - m]
    /\ transfers' = transfers + 1
    /\ UNCHANGED <<status, ended, highest_bid, bids, lockVars, sessionVars>>

EndTimePasses(a) ==
    /\ ~ended[a]
    /\ ended' = [ended EXCEPT ![a] = TRUE]
    /\ UNCHANGED <<status, highest_bid, bids, wallet, ledger, transfers, lockVars,
                   sessionVars>>

\* Mutant: closing does not wait for the row lock.
SetStatusUnlocked(a, s) ==
    /\ status' = [status EXCEPT ![a] = s]
    /\ UNCHANGED <<ended, highest_bid, bids, wallet, ledger, transfers, lockVars,
                   sessionVars>>

SetStatus(a, s) ==
    /\ auction_lock[a] = None
    /\ status' = [status EXCEPT ![a] = s]
    /\ UNCHANGED <<ended, highest_bid, bids, wallet, ledger, transfers, lockVars,
                   sessionVars>>

\* UPDATE auctions ... WHERE status = ACTIVE waits for the row lock too.
ClaimForSettlement(a) ==
    /\ ended[a]
    /\ status[a] = "ACTIVE"
    /\ SetStatus(a, "SETTLEMENT_IN_PROGRESS")

\* The seller cancels an auction that no bid row refers to.
CancelAuction(a) ==
    /\ {r \in Request : bids[r] # None /\ req[r].auction = a} = {}
    /\ SetStatus(a, "CANCELLED")

CancelAuctionAdmin(a) == SetStatus(a, "CANCELLED")

-----------------------------------------------------------------------------
\* What the server and the database do for a request once it has arrived.
Serve(r) ==
    \/ Validate(r) \/ Reject(r)
    \/ LockWallet(r) \/ LockPrevWallet(r) \/ RefundRefused(r)
    \/ Commit(r) \/ NotifyOutbid(r)
    \/ DeadlockAbort(r)

Bid(r) ==
    \/ \E a \in Auction, u \in User, m \in Amount : PlaceBid(r, a, u, m)
    \/ Serve(r)
    \/ Crash(r)

OtherWallet == \E u \in User, m \in Amount : Deposit(u, m) \/ Withdraw(u, m)

AuctionStep ==
    \E a \in Auction :
        \/ EndTimePasses(a) \/ ClaimForSettlement(a)
        \/ CancelAuction(a) \/ CancelAuctionAdmin(a)

Next == (\E r \in Request : Bid(r)) \/ OtherWallet \/ AuctionStep

Spec == Init /\ [][Next]_vars

\* PostgreSQL grants a row lock to its waiters in turn, which is strong
\* fairness of a request's steps; its other steps and the deadlock detector run
\* once they can.  A request takes each step once, so one condition covers them.
\* Clients, crashes, the clock and the other writers are free to do nothing.
Fairness == \A r \in Request : SF_vars(Serve(r))

FairSpec == Spec /\ Fairness

-----------------------------------------------------------------------------
\* Every variable holds a value of its kind; a request that has been made names
\* an auction, a user and an amount.
TypeOK ==
    /\ status \in [Auction -> AuctionStatus]
    /\ ended \in [Auction -> BOOLEAN]
    /\ highest_bid \in [Auction -> Request \union {None}]
    /\ bids \in [Request -> BidStatus \union {None}]
    /\ wallet \in [User -> [available: Int, locked: Int]]
    /\ ledger \in [User -> Int]
    /\ transfers \in 0..MaxTransfers
    /\ auction_lock \in [Auction -> Request \union {None}]
    /\ wallet_lock \in [User -> Request \union {None}]
    /\ pc \in [Request -> Location]
    /\ req \in [Request -> {NoCall} \union
                            [auction: Auction, bidder: User, amount: Amount]]
    /\ \A r \in Request : pc[r] # "idle" => req[r] # NoCall
    /\ current_highest \in [Request -> Request \union {None}]
    /\ snapshot \in [Request -> [available: Int, locked: Int]]

\* An auction has one ACTIVE bid at most, and auctions.highest_bid_id is it: the
\* auction row lock serialises place_bid, however the requests interleave.
SingleLeader ==
    \A a \in Auction, r \in Request :
        (bids[r] = "ACTIVE" /\ req[r].auction = a) <=> highest_bid[a] = r

\* A new highest bid never comes from the seller; it meets the starting price,
\* or beats the bid it replaces by the increment and comes from someone else.
\* The checks are made when the request validates and must still hold when it
\* commits.
PriceRises ==
    [][\A a \in Auction : highest_bid'[a] # highest_bid[a] =>
          LET new == req[highest_bid'[a]]
              old == req[highest_bid[a]]
          IN  /\ new.bidder # Seller[a]
              /\ IF highest_bid[a] = None
                 THEN new.amount >= StartingPrice[a]
                 ELSE /\ new.bidder # old.bidder
                      /\ new.amount >= old.amount + get_increment_for_amount(old.amount)
      ]_vars

\* No bid is recorded on an auction that was claimed for settlement or cancelled
\* after the request validated it: closing waits for the row lock.
NoBidAfterClose ==
    [][\A r \in Request : bids[r] = None /\ bids'[r] # None =>
          status[req[r].auction] = "ACTIVE"]_vars

\* locked_funds of a user: the sum of the user's ACTIVE bids.
ActiveBidsOf(u) == {r \in Request : bids[r] = "ACTIVE" /\ req[r].bidder = u}

\* Funds are reserved for the bids that lead, and for nothing else
\* (wallet/models.py: locked_funds, "reserved during an active bid").
LockedBacked ==
    \A u \in User :
        wallet[u].locked = SumFunctionOnSet([r \in Request |-> req[r].amount],
                                            ActiveBidsOf(u))

\* Bidding alone keeps the spendable balance equal to what the wallet transactions
\* say it is, however the bids on an auction cross ("atomic wallet locking").  A
\* deposit or a withdrawal that commits between a bid's two reads of the wallet is
\* overwritten: the second, locked read returns the object the first one loaded.
BidsReconcile ==
    transfers = 0 => \A u \in User : wallet[u].available = Funds[u] + ledger[u]

\* The offer that stands for the highest bid of an auction.
NoOffer == [bidder |-> None, amount |-> 0]
Offer(a) ==
    IF highest_bid[a] = None
    THEN NoOffer
    ELSE [bidder |-> req[highest_bid[a]].bidder, amount |-> req[highest_bid[a]].amount]

Promised == INSTANCE EnglishAuction WITH
    open <- [a \in Auction |-> status[a] = "ACTIVE"],
    offer <- [a \in Auction |-> Offer(a)],
    Increment <- get_increment_for_amount

\* Locks, rollbacks and stale reads notwithstanding, a bid that commits is one step
\* of an English auction: it beats, by the rules, the offer that leads at that very
\* moment, and the auction is still open.
BidIsAtomic == Promised!Spec

\* A request that reached the database is answered: the bidder is told that the
\* bid stands, was refused, or failed; waiting for locks never lasts for ever.
EveryRequestAnswered ==
    \A r \in Request : pc[r] = "lock_auction" ~> pc[r] \in Answered
=============================================================================
