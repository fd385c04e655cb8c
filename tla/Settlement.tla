----------------------------- MODULE Settlement -----------------------------
(***************************************************************************)
(* Settling auctions that have ended (apps/auctions/tasks.py): the beat    *)
(* task that finds and claims them, the task it queues for each of them,   *)
(* that task's retries, and what sellers and admins do meanwhile.          *)
(*                                                                         *)
(* Bidding is over: the highest bid of an auction is a constant.  A        *)
(* transaction that locks rows as it writes them is one step, taken when   *)
(* it commits; what it read before, unlocked, is a step of its own.  The   *)
(* claim is two steps, because it queues a task before it commits.         *)
(***************************************************************************)
EXTENDS Integers, FiniteSets, Functions

CONSTANTS
    Auction, User, None,
    Finder,          \* workers that may run settle_ended_auctions at a time
    Task,            \* process_auction_settlement messages
    HighestAmount,   \* highest bid of each auction, 0 when it has no bid
    Winner,          \* its bidder
    ReservePrice,    \* reserve price of each auction, 0 when it has none
    MaxRetries,      \* Celery's max_retries
    MaxFailures,     \* bound: exceptions that tasks raise
    MaxCrashes,      \* bound: workers killed while they run a task
    MaxClaimLosses,  \* bound: claims whose commit fails
    MaxCancels,      \* bound: cancellations by sellers and admins
    MaxExtensions    \* bound: extensions of an auction's end

ASSUME SettlementAssumption ==
    /\ None \notin Finder \union Task \union Auction \union {"ACTIVE", "WON", "LOST"}
    /\ IsFiniteSet(Auction)
    /\ HighestAmount \in [Auction -> Nat]
    /\ ReservePrice \in [Auction -> Nat]
    /\ Winner \in [Auction -> User]
    /\ {MaxRetries, MaxFailures, MaxCrashes, MaxClaimLosses, MaxCancels,
        MaxExtensions} \subseteq Nat

VARIABLES
    status,      \* auctions.status
    ended,       \* has the clock passed auctions.ends_at?
    bid,         \* bids.status of the highest bid
    item,        \* items.status of the auction's item
    orders,      \* orders (each with its escrow) created for the auction
    wallet,      \* available, locked and escrow funds of each user, as changes
                 \* to what bidding left available and to zero
    row_lock,    \* finder whose open transaction holds the auction row
    found,       \* auctions a finder has listed and not yet tried to claim
    claiming,    \* auction a finder has claimed and not yet committed
    pc,          \* where each settlement task stands
    target,      \* its auction
    retries,     \* its retries so far
    spent        \* occurrences of each bounded event

db == <<status, ended, bid, item, orders, wallet>>
finders == <<row_lock, found, claiming>>
tasks == <<pc, target, retries>>
vars == <<db, finders, tasks, spent>>

Terminal == {"SETTLED", "ENDED_NO_BIDS", "ENDED_RESERVE_NOT_MET", "CANCELLED"}
AuctionStatus == {"ACTIVE", "SETTLEMENT_IN_PROGRESS"} \union Terminal
Running == {"no_bids", "reserve", "unlock", "settle", "notify"}
Location == {"unused", "queued", "done", "lost"} \union Running
Event == {"failure", "crash", "claim_loss", "cancel", "extension"}

HasBid(a) == HighestAmount[a] > 0
Reserved(u, S) == SumFunctionOnSet(HighestAmount, {a \in S : HasBid(a) /\ Winner[a] = u})

Init ==
    /\ status = [a \in Auction |-> "ACTIVE"]
    /\ ended = [a \in Auction |-> FALSE]
    /\ bid = [a \in Auction |-> IF HasBid(a) THEN "ACTIVE" ELSE None]
    /\ item = [a \in Auction |-> "IN_AUCTION"]
    /\ orders = [a \in Auction |-> 0]
    /\ wallet = [u \in User |->
                    [available |-> 0, locked |-> Reserved(u, Auction), escrow |-> 0]]
    /\ row_lock = [a \in Auction |-> None]
    /\ found = [f \in Finder |-> {}]
    /\ claiming = [f \in Finder |-> None]
    /\ pc = [t \in Task |-> "unused"]
    /\ target = [t \in Task |-> None]
    /\ retries = [t \in Task |-> 0]
    /\ spent = [e \in Event |-> 0]

Spend(e, bound) ==
    /\ spent[e] < bound
    /\ spent' = [spent EXCEPT ![e] = @ + 1]

-----------------------------------------------------------------------------
(***************************************************************************)
(* settle_ended_auctions, every minute on some worker.                     *)
(***************************************************************************)

InProgress == {a \in Auction : status[a] = "SETTLEMENT_IN_PROGRESS"}

\* The listing reads without locks.  Auctions that have been in progress for
\* ten minutes are listed too: any of those in progress may have been.
get_auctions_to_settle(f) ==
    /\ found[f] = {} /\ claiming[f] = None
    /\ \E stale \in SUBSET InProgress :
          /\ found' = [found EXCEPT ![f] =
                          {a \in Auction : status[a] = "ACTIVE" /\ ended[a]} \union stale]
          /\ found'[f] # {}
    /\ UNCHANGED <<db, row_lock, claiming, tasks, spent>>

\* UPDATE ... WHERE status = ACTIVE touches the row; the message goes out while
\* the transaction is open.
Claim(f, a, t) ==
    /\ claiming[f] = None
    /\ a \in found[f]
    /\ row_lock[a] = None
    /\ status[a] = "ACTIVE"
    /\ pc[t] = "unused"
    /\ row_lock' = [row_lock EXCEPT ![a] = f]
    /\ found' = [found EXCEPT ![f] = @ \ {a}]
    /\ claiming' = [claiming EXCEPT ![f] = a]
    /\ pc' = [pc EXCEPT ![t] = "queued"]
    /\ target' = [target EXCEPT ![t] = a]
    /\ UNCHANGED <<db, retries, spent>>

\* The UPDATE matches no row: claimed by another worker, or in progress.
AlreadyClaimed(f, a) ==
    /\ claiming[f] = None
    /\ a \in found[f]
    /\ row_lock[a] = None
    /\ status[a] # "ACTIVE"
    /\ found' = [found EXCEPT ![f] = @ \ {a}]
    /\ UNCHANGED <<db, row_lock, claiming, tasks, spent>>

EndClaim(f) ==
    /\ claiming[f] # None
    /\ row_lock' = [row_lock EXCEPT ![claiming[f]] = None]
    /\ claiming' = [claiming EXCEPT ![f] = None]

CommitClaim(f) ==
    /\ EndClaim(f)
    /\ status' = [status EXCEPT ![claiming[f]] = "SETTLEMENT_IN_PROGRESS"]
    /\ UNCHANGED <<ended, bid, item, orders, wallet, found, tasks, spent>>

\* The commit fails, or the worker dies before it: the message is out already.
LoseClaim(f) ==
    /\ Spend("claim_loss", MaxClaimLosses)
    /\ EndClaim(f)
    /\ found' = [found EXCEPT ![f] = {}]
    /\ UNCHANGED <<db, tasks>>

-----------------------------------------------------------------------------
(***************************************************************************)
(* process_auction_settlement.                                             *)
(***************************************************************************)

Goto(t, l) == pc' = [pc EXCEPT ![t] = l]

ReserveNotMet(a) == ReservePrice[a] > HighestAmount[a]

\* Read the auction without a lock; skip it in a terminal status, and else
\* decide which case it is.
Start(t) ==
    LET a == target[t]
    IN  /\ pc[t] = "queued"
        /\ Goto(t, CASE status[a] \in Terminal -> "done"
                     [] status[a] \notin Terminal /\ ~HasBid(a) -> "no_bids"
                     [] status[a] \notin Terminal /\ HasBid(a) /\ ReserveNotMet(a) -> "reserve"
                     [] OTHER -> "settle")
        /\ UNCHANGED <<db, finders, target, retries, spent>>

\* The writes of a task wait for a claim in progress on the row.
Writes(t, from, to) ==
    /\ pc[t] = from
    /\ row_lock[target[t]] = None
    /\ Goto(t, to)
    /\ UNCHANGED <<ended, finders, target, retries, spent>>

\* _handle_reserve_not_met reads the auction again, in its own session, and
\* skips it only when that very outcome is recorded.
RereadReserve(t) ==
    /\ pc[t] = "reserve"
    /\ Goto(t, IF status[target[t]] = "ENDED_RESERVE_NOT_MET" THEN "done" ELSE "unlock")
    /\ UNCHANGED <<db, finders, target, retries, spent>>

\* Mutants: update_balances does not refuse; the locked balance is not lowered.
MoveLockedUnchecked(u, m, to) ==
    wallet' = [wallet EXCEPT ![u].locked = @ - m, ![u][to] = @ + m]
MoveLockedCopies(u, m, to) ==
    /\ wallet[u].locked >= m
    /\ wallet' = [wallet EXCEPT ![u][to] = @ + m]

\* update_balances under the wallet's row lock; no balance may become negative.
MoveLocked(u, m, to) ==
    /\ wallet[u].locked >= m
    /\ wallet' = [wallet EXCEPT ![u].locked = @ - m, ![u][to] = @ + m]

\* Mutant: the bids are not marked.
RecordKeepsBid(a, result, bid_status, item_status) ==
    /\ status' = [status EXCEPT ![a] = result]
    /\ item' = [item EXCEPT ![a] = item_status]
    /\ UNCHANGED bid

Record(a, result, bid_status, item_status) ==
    /\ status' = [status EXCEPT ![a] = result]
    /\ bid' = [bid EXCEPT ![a] = bid_status]
    /\ item' = [item EXCEPT ![a] = item_status]

EndNoBids(t) ==
    /\ Writes(t, "no_bids", "done")
    /\ Record(target[t], "ENDED_NO_BIDS", None, "APPROVED")
    /\ UNCHANGED <<orders, wallet>>

\* Mutant: the funds are taken from locked and given to nobody.
EndReserveNotMetForgets(t) ==
    LET a == target[t]
    IN  /\ Writes(t, "unlock", "notify")
        /\ wallet[Winner[a]].locked >= HighestAmount[a]
        /\ wallet' = [wallet EXCEPT ![Winner[a]].locked = @ - HighestAmount[a]]
        /\ Record(a, "ENDED_RESERVE_NOT_MET", "LOST", "APPROVED")
        /\ UNCHANGED orders

\* The leader's funds are unlocked, in the transaction that records the outcome.
EndReserveNotMet(t) ==
    LET a == target[t]
    IN  /\ Writes(t, "unlock", "notify")
        /\ MoveLocked(Winner[a], HighestAmount[a], "available")
        /\ Record(a, "ENDED_RESERVE_NOT_MET", "LOST", "APPROVED")
        /\ UNCHANGED orders

\* An order and its escrow.
CreateOrder(a) == orders' = [orders EXCEPT ![a] = @ + 1]

\* Order, escrow, locked funds to escrow, bids, items and status in one commit.
Settle(t) ==
    LET a == target[t]
    IN  /\ Writes(t, "settle", "notify")
        /\ CreateOrder(a)
        /\ MoveLocked(Winner[a], HighestAmount[a], "escrow")
        /\ Record(a, "SETTLED", "WON", "SOLD")

\* E-mails and in-app notifications, after the commit.
Notify(t) ==
    /\ pc[t] = "notify"
    /\ Goto(t, "done")
    /\ UNCHANGED <<db, finders, target, retries, spent>>

\* Mutant: the task has no autoretry_for.
RetryNever(t) ==
    /\ Goto(t, "lost")
    /\ UNCHANGED <<db, finders, target, retries>>

\* An exception: autoretry_for queues the task again, until max_retries.
Retry(t) ==
    /\ retries' = [retries EXCEPT ![t] = IF @ < MaxRetries THEN @ + 1 ELSE @]
    /\ Goto(t, IF retries[t] < MaxRetries THEN "queued" ELSE "lost")
    /\ UNCHANGED <<db, finders, target>>

\* update_balances refuses a negative locked balance (WalletLockException).
UnlockRefused(t) ==
    /\ pc[t] \in {"unlock", "settle"}
    /\ row_lock[target[t]] = None
    /\ wallet[Winner[target[t]]].locked < HighestAmount[target[t]]
    /\ Retry(t)
    /\ UNCHANGED spent

Fail(t) ==
    /\ pc[t] \in Running
    /\ Spend("failure", MaxFailures)
    /\ Retry(t)

\* The message was acknowledged when the task started: nobody runs it again.
Crash(t) ==
    /\ pc[t] \in Running
    /\ Spend("crash", MaxCrashes)
    /\ Goto(t, "lost")
    /\ UNCHANGED <<db, finders, target, retries>>

-----------------------------------------------------------------------------
(***************************************************************************)
(* Sellers, admins and the clock.  Each request locks the auction row.     *)
(***************************************************************************)

EndTimePasses(a) ==
    /\ ~ended[a]
    /\ ended' = [ended EXCEPT ![a] = TRUE]
    /\ UNCHANGED <<status, bid, item, orders, wallet, finders, tasks, spent>>

\* extend_auction asks for ACTIVE, and not for an end that is still ahead.
ExtendAuction(a) ==
    /\ row_lock[a] = None
    /\ status[a] = "ACTIVE"
    /\ Spend("extension", MaxExtensions)
    /\ ended' = [ended EXCEPT ![a] = FALSE]
    /\ UNCHANGED <<status, bid, item, orders, wallet, finders, tasks>>

Cancel(a) ==
    /\ row_lock[a] = None
    /\ Spend("cancel", MaxCancels)
    /\ status' = [status EXCEPT ![a] = "CANCELLED"]
    /\ item' = [item EXCEPT ![a] = "APPROVED"]
    /\ UNCHANGED <<ended, bid, orders, wallet, finders, tasks>>

\* A seller may cancel in any status, as long as no bid exists.
CancelAuction(a) == ~HasBid(a) /\ Cancel(a)

\* An admin may cancel in any status; bids and wallets are left as they are.
CancelAuctionAdmin(a) == Cancel(a)

-----------------------------------------------------------------------------
ClaimStep(f) ==
    \/ \E a \in Auction, t \in Task : Claim(f, a, t)
    \/ \E a \in Auction : AlreadyClaimed(f, a)
    \/ CommitClaim(f)

Find(f) == get_auctions_to_settle(f)

Run(t) ==
    \/ Start(t) \/ EndNoBids(t) \/ RereadReserve(t) \/ EndReserveNotMet(t)
    \/ Settle(t) \/ UnlockRefused(t) \/ Notify(t)

Next ==
    \/ \E f \in Finder : Find(f) \/ ClaimStep(f) \/ LoseClaim(f)
    \/ \E t \in Task : Run(t) \/ Fail(t) \/ Crash(t)
    \/ \E a \in Auction : \/ EndTimePasses(a) \/ ExtendAuction(a)
                          \/ CancelAuction(a) \/ CancelAuctionAdmin(a)

Spec == Init /\ [][Next]_vars

\* Celery beat fires every minute and workers take what is queued; row locks
\* are granted in turn.  Failures, crashes, people and the clock need not happen.
Fairness ==
    /\ \A f \in Finder : WF_vars(Find(f)) /\ SF_vars(ClaimStep(f))
    /\ \A t \in Task : SF_vars(Run(t))

FairSpec == Spec /\ Fairness

-----------------------------------------------------------------------------
\* Every variable holds a value of its kind; the wallets never go below zero.
TypeOK ==
    /\ status \in [Auction -> AuctionStatus]
    /\ ended \in [Auction -> BOOLEAN]
    /\ bid \in [Auction -> {"ACTIVE", "WON", "LOST", None}]
    /\ item \in [Auction -> {"IN_AUCTION", "SOLD", "APPROVED"}]
    /\ orders \in [Auction -> Nat]
    /\ wallet \in [User -> [available: Nat, locked: Nat, escrow: Nat]]
    /\ row_lock \in [Auction -> Finder \union {None}]
    /\ found \in [Finder -> SUBSET Auction]
    /\ claiming \in [Finder -> Auction \union {None}]
    /\ pc \in [Task -> Location]
    /\ target \in [Task -> Auction \union {None}]
    /\ retries \in [Task -> 0..MaxRetries]
    /\ spent \in [Event -> Nat]

\* An auction is settled once ("ensuring idempotency across multiple workers"):
\* it never gets a second order and a second escrow.
OrderOnce == \A a \in Auction : orders[a] <= 1

\* A winner's escrow funds pay for the orders, and the locked funds are those of
\* the bids that still lead: no settlement takes money that backs another bid.
FundsFollowBids ==
    \A u \in User :
        /\ wallet[u].locked = Reserved(u, {a \in Auction : bid[a] = "ACTIVE"})
        /\ wallet[u].escrow = Reserved(u, {a \in Auction : orders[a] = 1})

\* The outcomes exclude one another: an order means the bid won, a refused
\* reserve that it lost and its funds are back, whoever raced to settle.
OneOutcome ==
    \A a \in Auction :
        /\ orders[a] > 0 <=> bid[a] = "WON"
        /\ bid[a] = "WON" => status[a] \in {"SETTLED", "CANCELLED"}
        /\ bid[a] = "LOST" => status[a] \in {"ENDED_RESERVE_NOT_MET", "CANCELLED"}

\* An auction whose end has passed, and is not extended, gets its result although
\* its task fails as often as it may be retried.  Only a worker's death excuses it:
\* the claim asks for ACTIVE, so the stale auctions that "recovers auctions stuck in
\* SETTLEMENT_IN_PROGRESS" speaks of are listed again and never claimed again.
EndedIsSettled ==
    \A a \in Auction :
        (status[a] = "ACTIVE" /\ ended[a])
            ~> (status[a] \in Terminal \/ ~ended[a] \/ spent["crash"] > 0)

\* The result of an auction as its parties see it: its order, or the bid that lost.
Result(a) ==
    IF orders[a] > 0 THEN "sold" ELSE IF bid[a] = "LOST" THEN "refused" ELSE "pending"

Promised == INSTANCE Sale WITH
    Price <- HighestAmount,
    Pledged <- [u \in User |-> Reserved(u, Auction)],
    result <- [a \in Auction |-> Result(a)]

\* Whatever workers, messages and retries do, an auction with a bid is decided once: the
\* order or the lost bid, and the move of the winner's funds that it stands for, are one
\* step ("Set status atomically with fund unlocks so both commit together"), and nothing
\* else moves funds.
SaleIsAtomic == Promised!Spec
=============================================================================
