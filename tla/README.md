# KaraKaja auctions: TLA+ models and proofs

KaraKaja is an auction marketplace: sellers put items up, bidders pledge money
from a wallet, a background task settles every auction that has ended, and the
winner's money stays in escrow until the item has arrived or a dispute is
decided. The modules here model what `src/backend` does with that money and with
the rows that say whose it is. Paths below are relative to `src/backend/apps`
unless they start with `src/`.

## 1. Inventory

### The program and how its parts share state

A FastAPI process serves requests, each with a database session of its own
(`src/backend/common/dependency.py`, `get_db`): nothing is committed unless the
service commits, and closing the session rolls the rest back. Celery workers run
tasks from Redis and Celery beat queues the periodic ones: settlement every 60 s,
activation every 60 s, auto-release every 5 min, overdue shipments every 30 min.
A message is acknowledged when its task *starts*; most tasks are retried up to
three times on any exception (`autoretry_for=(Exception,)`), and a task that runs
past the time limit is killed. All processes share one PostgreSQL database at
READ COMMITTED, through SQLAlchemy sessions with `expire_on_commit=False`. Two
facts about those sessions decide much of what follows:

* only `SELECT ... FOR UPDATE` and `UPDATE` take row locks; most services read
  the row they decide on without one;
* a `FOR UPDATE` query that returns a row the session has already loaded takes
  the lock but returns the *old object* (no `populate_existing`), and
  `update_balances` writes absolute values computed from it.

| component | state it keeps | operations | correct when |
|---|---|---|---|
| Bidding (`bids/`) | bids, `auctions.highest_bid_id`, wallets, wallet transactions | `place_bid` | one leader per auction, who outbid the last by the increment; locked funds are the leaders'; the ledger explains every balance; requests are answered |
| Settlement (`auctions/tasks.py`) | auction, bid and item status, orders, escrows, wallets | `settle_ended_auctions`, `process_auction_settlement`, `_handle_reserve_not_met` | one outcome and at most one order per auction, paid by the bid that won; every ended auction gets its outcome |
| Orders (`orders/`) | orders | `ship_order`, `confirm_delivery`, `cancel_order`, `process_overdue_shipments` | an order is closed only with its money paid out the right way |
| Escrow release (`escrow/`) | escrows, wallets | `process_auto_releases`, `release_single_escrow` | an escrow is paid once, and when it is due |
| Disputes (`disputes/`, `admin/views/orders.py`) | disputes, order status | `raise_dispute`, `mark_under_review`, `resolve_dispute`, the admin actions | the funds wait for the decision and follow it |
| Items and auctions before bidding (`auctions/service.py`, `auctions/tasks.py`, `admin/views/`) | items, images and their Cloudinary assets, auctions, auction_items | create, illustrate, review and delete items; create, update, attach, detach, publish, extend, cancel auctions; `activate_scheduled_auctions` | what is on offer exists, is open when it should be and no longer than allowed; an item that is IN_AUCTION is in one; an item is in one auction at a time |
| Wallet funding, withdrawal (`wallet/`, `payments/`) | payments, wallets, wallet transactions | `initiate_funding`, the Paystack webhook, `initiate_withdrawal`, the transfer task | a payment is credited once; a withdrawal is paid out once or refunded |
| Authentication (`authentication/`) | users, verification and reset tokens | `register`, `resend_email_verification`, `verify_email`, `forgot_password`, `reset_password`, `change_password` | a link that is used up, expired or rolled back does not work again (two requests at once may still share it, section 3); it works only for the user it was mailed to |
| Users and sellers (`users/`) | account status, seller profiles | `deactivate_account`, `update_user_status`, `register_as_seller`, `verify_seller` | a seller is verified exactly when APPROVED |
| KYC (`users/kyc_*.py`, `users/bvn_service.py`) | tier, BVN, BVN attempts | `verify_bvn`, `admin_upgrade_tier`, the limit checks | the two copies of a tier agree and stand for a BVN; one BVN, one account |
| Notifications (`notifications/`) | Celery messages, notification rows | the tasks that e-mail and insert rows, `mark_read`, `mark_all_read` | what is queued arrives although mails fail; a row is inserted once |
| Admin panel (`admin/views/`) | none of its own | approvals, status changes, dispute and KYC actions, edits of any row | the same rules as the API (it often skips them) |
| Image and document storage, frontend, HTTP plumbing | files at Cloudinary | upload, delete | no asset without a row |

The components call one another in a line: items are attached to an auction, it
is activated, bids arrive, the settlement task turns the leader's locked funds
into an escrow and an order, and the order's parties, the release task or an
admin pay the escrow out. `wallets` is the table they all write. Users
come in through `Accounts`: whom `Admitted` and the tiers let through may bid, sell
and withdraw. Notifications are Celery messages sent after (sometimes before) a
commit.

### What is hard

* **Interleavings of transactions**: two bids on one auction, a bid against a
  claim or a cancellation, a confirmation against a dispute, a shipment against
  the overdue task. Most guards are checked on unlocked reads.
* **Stale objects**: the second, locked read of a wallet returns the first one.
* **Messages sent inside a transaction**: the claim's task may run before the
  claim commits, or although it never does.
* **Retries behind a commit**: a task that fails after it committed runs again.
* **Crashes**: a killed worker's message is gone, its transaction rolled back.
* **Calls out of the database**: an image is at Cloudinary before its row is
  committed, a link is in the mail before its token is; either may stay alone.
* **Two copies of one fact**: a tier in `users` and in `kyc_profiles`, a seller's
  status and his `is_verified`, each pair written by requests that overlap.
* **Deadlocks** over wallet rows, which PostgreSQL breaks by aborting someone.

`PROJECT.json` lists each as a hazard at its line, with the properties that look
for it.

## 2. Modules

| module | models |
|---|---|
| `EnglishAuction` | what `place_bid` promises, without requests, locks or rows |
| `BidIncrement` | the increment table and its lookup |
| `Bidding` | `place_bid` and everything that races with it; implements `EnglishAuction` |
| `Sale` | what settling an auction promises its bidders, without workers, messages or retries |
| `Settlement` | the settlement tasks; implements `Sale` |
| `OrderEscrow` | orders, escrows, disputes and the release tasks |
| `Wallets` | funding, its webhook, withdrawals and the transfer task |
| `Listing` | items, images and auctions until they are settled |
| `Notifications` | the tasks that send e-mails and insert notification rows |
| `Accounts` | registration, links, passwords, sellers and KYC; extends `Notifications` |
| `Sums` | lemmas on `SumFunctionOnSet`, with which the models count money |
| `BiddingProofs`, `SettlementProofs`, `OrderEscrowProofs`, `WalletsProofs`, `ListingProofs`, `AccountsProofs`, `AccountLimitsProofs` | theorems about each |
| `MCBidding`, `MCSettlement`, `MCOrderEscrow`, `MCWallets`, `MCListing`, `MCAccounts` | the instances TLC checks |

Every module follows the same conventions. A *transaction* is the unit: an
action is what becomes visible at once, so a sequence of writes under locks that
are held to the commit is one step, while an unlocked read that a later write
relies on is a step of its own. Definitions carry the names of the functions they
model; a definition whose comment begins with `Mutant` is not part of the
specification: it is the plausible bug that shows that a property is not vacuous.

### Bidding

State: auction status and leader, bid rows, wallets, the ledger of wallet
transactions, row locks, and per request its program counter, arguments, the
`current_highest` local and the `Wallet` object of its session (`snapshot`).

`place_bid` is `PlaceBid` (it waits for the auction row), `Validate` or `Reject`
(every check, with the auction row locked and the wallet not), `LockWallet`
(second check, on the stale object), `LockPrevWallet` or `RefundRefused`,
`Commit` (all the writes), `NotifyOutbid`. `Crash` rolls back anywhere, and
`DeadlockAbort` is PostgreSQL's detector: enabled for a request that lies on a
cycle of the wait-for graph. Around it `Deposit` and `Withdraw` write wallets,
`ClaimForSettlement`, `CancelAuction` and `CancelAuctionAdmin` close auctions and
`EndTimePasses` is the clock. A request places at most one bid, so the bid is
named by the request. Writes are installed at the commit; until then they are
hidden by READ COMMITTED and no other request can lock the rows.

`EnglishAuction` knows an auction's `open` flag and its `offer`: a bid replaces the
offer by the rules in one step, a closed auction keeps it. `Bidding` instantiates it
as `Promised`, with `open` an ACTIVE status and `offer` the bidder and amount of the
row `highest_bid_id` names. Validation happens several steps before the commit, so
that the refinement says: when a bid commits, the checks it passed earlier hold of
the offer that leads *now*.

### Settlement

Bidding is over here: the highest bid of an auction is a constant. The finder
lists (`get_auctions_to_settle`), claims (`Claim`, with the message already out),
then commits or loses the claim. The queued task reads the auction without a lock
(`Start`), and ends it in one of three transactions: `EndNoBids`,
`EndReserveNotMet` (in a session of its own, after `RereadReserve`) or `Settle`.
`UnlockRefused` is `update_balances` refusing a negative balance; `Fail` any other
exception, both retried; `Crash` a killed worker, never retried. Sellers and
admins cancel and extend. An order and its escrow are created together, so
`orders` counts them both.

The mapping to `Sale` keeps the wallets and gives each auction the result its parties
see (`Result`): sold when it has an order, refused when its bid lost. `Sale` says what no
invariant of `Settlement` does: that a result is final, that nothing but a decision moves
funds, and that the funds of a reserve that was not met become available again.

### OrderEscrow

Each request is an unlocked read with its checks (`ship_order`,
`confirm_delivery`, ... fill `work`) and a commit (`Ship`, `ConfirmDelivery`, ...)
that writes whatever the rows have become meanwhile. `cancel_order` and
`process_overdue_shipments` look for different orders and share their second step.
The admin panel's dispute actions change the dispute's status and nothing else.
The claim of an escrow is again two steps with the message in between, and the
release task, which checks no status, pays whatever it was told to pay as long as
the buyer's wallet covers it. A claim that finds the escrow taken changes nothing
and is no action. The shipping deadline and the auto-release time pass
independently: the first is configuration, the second is 48 h after settlement.
`dispute` rows are not tied one to one to orders (`disputes.order_id` is not
unique): two requests can raise two.

### Wallets

A payment is PENDING when it is created; Paystack charges it (`Charge`: enough, too
little, or reversed later) and delivers its event any number of times. A delivery
reads the payment (`ReceiveWebhook`, where the guard against COMPLETED payments
is), asks Paystack (`verify_payment`) and commits status, balance and transaction
at once (`RecordPayment`). A withdrawal reads the day's total, debits the wallet
under its lock, commits, and only then sends the message; the message is named by
the withdrawal. A transfer that Paystack accepts is COMPLETED in the session alone
until the task's session commits, after the notification was queued. A failed
attempt writes a refund and FAILED, both of which the raised exception rolls back
(`RefundRolledBack`), so that nothing but the attempt is left. Here, unlike in
`place_bid`, the first read of a wallet takes its lock; there is no stale object.
`payment` and `withdrawal` carry `None` until the row exists.

SQLAlchemy leaves a column out of an UPDATE when its new value equals the one it
read. In `OrderEscrow` that could only spare a write of the status the order already
had when it was read; no property depends on it, and that model writes always. In
`Accounts` it decides what two overlapping decisions leave, and `Written` models it.

### Listing

State: the clock, the status of items, images (`image`: rows; `assets`: what
Cloudinary holds), auctions with their start, end, reserve, `lot` and whether they
have a bid, the request table `req`, and what the activation task has read
(`listed`). `get_by_id` locks the auction row, so most requests on an auction are one
step, taken when no attachment to it is under way (`Free`). Two steps are those that
decide on a row they do not lock: `upload_item_image`, `delete_item_image` and
`delete_item` (in between lies a call to Cloudinary), `attach_item_to_auction` (the
item), and `cancel_auction_admin` (the items, read before the auction's lock). The second
step is the commit, with the foreign keys and unique constraints PostgreSQL enforces
(`DeleteItemRefused`, `AttachRefused`), or a failure (`UploadFails`, `RequestDies`).
The beat task reads what is due (`get_scheduled_auctions`) and then activates it
(`Activate`), whatever was published or cancelled in between. A bid and a settlement
are one step each; `Bidding` and `Settlement` have their detail. `attach_item_to_auction` takes an item
that is PENDING_REVIEW although its endpoint's documentation asks for APPROVED
(`auctions/routers.py:527`). Items are reviewed in the admin panel only (`approve_items`,
`reject_items`): the services behind the API's `approve_item` and `reject_item` read
`admin_user.is_admin`, which `User` does not have, and raise before they write
(`auctions/service.py:814`, `:858`).

### Notifications

A message is `unused`, `queued`, `mailed`, `done`, `failed` or `lost`. `send_email`
hands it to Resend; a task in `WithRow` then inserts its notification row
(`_create_notification`), in a session of its own, and an error there is only logged
(`RowFails`). `EmailFails` is a refusal, or a timeout after which the thread may still
deliver the mail; `Retry` queues the message again up to `max_retries`. `Crash` loses a
message that was acknowledged. Messages of other components come from `Sent`, those of
`Accounts` from its own actions. A user reads rows with `mark_read` and
`mark_all_read`.

### Accounts

A request of `req` is an unlocked read (`register`, `verify_email`,
`register_as_seller`, ... with their guards) and a commit (`RegisterCommits`,
`VerifyCommits`, ...), or `RequestFails`. A link's message is queued *before* the token
it carries is committed: `token` is `pending` until then, `void` if the request fails, and
later `valid`, `used` or `expired`; `resend` uses up the older verification links it has
found. `verify_bvn` has three steps, because the attempt is counted and flushed
(`BvnAttempt`) before the provider is asked and the result written: that UPDATE holds the
KYC row (`KycFree`) until the request commits, or is refused and rolls it back, count
included. `Written(old, read, new)` is SQLAlchemy's UPDATE: a column that does not differ
from what the session read keeps what the row holds now. A decision on a seller
sends its e-mail in the step that commits it. Access and refresh tokens are signed and
not kept, so anyone with a password may be signed in; what the routers ask of the account
is `Admitted` and `AdmittedActive`. Admins set tiers (`PanelSetsTier`, the KYC profile
only) and statuses (`update_user_status`) by hand, bounded by `MaxByHand`.

## 3. Runs

| run | instance | shows |
|---|---|---|
| `bidding_one_auction` | 1 auction, 3 requests, 3 users, amounts 1..3, 1 deposit or withdrawal | type, `SingleLeader`, `LockedBacked`, `BidsReconcile`, `PriceRises`, `NoBidAfterClose`, and the refinement `BidIsAtomic` |
| `bidding_leaders` | 2 auctions already led by two bidders, or by one whose locked funds a lost update has lowered; 2 more requests, fair | deadlocks over the bidders' wallets are broken, a refused refund fails the request cleanly, and every request is answered (`EveryRequestAnswered`) |
| `settlement_races` | 3 auctions (sale, missed reserve, no bids), 2 finders, 3 messages, 1 lost claim, 1 crash, 1 cancellation | `OrderOnce`, `FundsFollowBids`, `OneOutcome`, and the refinement `SaleIsAtomic` |
| `settlement_retry` | 2 auctions, 3 failures, 3 retries, 1 extension, 1 crash, fair | `EndedIsSettled`: every ended auction gets its result |
| `orders_money` | 2 orders of one buyer, 2 sessions, 1 dispute, 1 message with a failure, a crash and a lost claim | `MoneyConserved`, `HeldUntilPaid`, `ClosedIsPaid` |
| `orders_due` | 2 orders of two buyers, 1 session, 2 messages, 1 failure, 1 retry, fair | `DueIsPaid`: a due escrow is paid out |
| `orders_dispute` | 1 order, 1 dispute | **violated** `OpenDisputeHoldsFunds`: the release ignores the open dispute |
| `wallet_races` | 1 wallet, 2 payments, 2 withdrawals, 2 sessions, 1 failed attempt, 1 crash, fair | `LedgerExplains`, `CompletedHappened`, `DebitedIsCompleted` |
| `wallet_twice` | 1 payment, 2 sessions | **violated** `CreditedOnce`: a payment is credited twice |
| `listing` | 1 item, 2 auctions, 3 images, 2 requests, 1 change, 1 fault, durations up to 2 | `LiveHasItems`, `DurationCapped`, `OpensOnTime`, `InAuctionIsListed`, `ImageLimit`, `NoOrphanAssets` |
| `listing_attach` | 1 item, 2 drafts, 2 requests | **violated** `OneAuctionAtATime`: two requests attach one item to both |
| `accounts` | 4 users, 1 BVN, 2 requests at a time, 3 events, 3 messages, 1 retry, 1 fault, 1 change by hand, fair | `TaskOutcome`, `VerifiedByMail`, `FewLinks`, `FewShareBVN`, `TierFollowsBVN`, `DeadLinksStayDead`, `UndisturbedDecides`, `MailArrives` |

The violated properties are promises quoted from the repository, in the findings
of `PROJECT.json`. What the passing runs show has to be read with them, and some
properties state how far the code's promise goes rather than the promise itself:

* `BidsReconcile` excuses transfers: a deposit or withdrawal that commits between a
  bid's two reads of the wallet is overwritten, because the locked read returns the
  stale object. For the same reason `LockedBacked` is checked with one auction: with
  two, a refund of the other one can be lost in the same way.
* `OrderOnce` holds in `settlement_races` although a lost claim sends two
  messages, because the winners are distinct: the second `Settle` would make the
  winner's locked balance negative and is refused. When the winner leads another
  auction too, its locked funds pay for a second order. `SettledOnce` proves both halves:
  the property holds when no claim is lost, or when nobody leads two auctions. The same
  goes for `FundsFollowBids` and `SaleIsAtomic`.
* `EndedIsSettled` excuses a worker's death. The claim asks for ACTIVE, so an auction
  left in SETTLEMENT_IN_PROGRESS is listed again and never claimed again.
* A release task that fails behind its commit is retried and pays again when the
  buyer's wallet holds another escrow: TLC finds it when `MCOrderMoney.cfg` checks
  `PaidOnce`; the properties of `orders_money` hold all the same. `orders_due`
  gives the orders distinct buyers: otherwise such a second payment could use up
  the other escrow's funds, and its release would be refused for ever.
* `DebitedIsCompleted` excuses crashes, and says that the transfer is recorded, not
  that there was only one: an attempt whose answer was lost, or whose notification
  could not be queued, is made again under a new reference.
* `ImageLimit`, `FewLinks` and `FewShareBVN` bound by how much requests that overlap
  exceed a limit that is checked before it is used: eight images, one working link, one
  account for a BVN. `TierFollowsBVN` holds until an admin sets a tier by hand.
* `DeadLinksStayDead` falls short of "Burn the token so it can't be used again"
  (`authentication/service.py:385`): a dead link gains no new user, but two
  `reset_password` requests that overlap have both found it unused, and both set a
  password. TLC finds that when `MCAccounts.cfg` checks `LinkWorksOnce`.
* `OpensOnTime` is checked with the activation's 30 s of grace set to none (`Soon = 0`), one
  unit of the clock being much longer; the theorem `NeverTooEarly` is for any `Soon`.
* `UndisturbedDecides` is about decisions that no other overtakes; two that overlap may
  leave a REJECTED seller verified, since each writes only the columns that differ from
  what it read. The next undisturbed one repairs that.
* `NoOrphanAssets` excuses faults: when Cloudinary does not answer the clean-up, the
  asset stays.

**Bounds.** Deadlocks, double claims and overtaking commits need two actors; a
third request lets a bid outbid a bid that outbid another. One failure, one crash
or one lost claim is enough for each hazard listed, and the liveness runs allow
exactly as many failures as a message has retries, the most for which the code
can succeed. Amounts 1..3 put bids below, at and above the minimum and inside and
outside the increment table, which has an inactive row and a gap. In
`listing` one item suffices because requests on different items share nothing but
the auction row; two auctions and two requests let an item be attached twice and an
auction close behind a request's back; a limit of one image is exceeded by two. In
`accounts` three events give every pair of kinds of requests a chance to overlap
with a third that came before, and each kind is made by the users who suffice for it
(`MCUses`): three members for one BVN, two for seller decisions, one newcomer.
Symmetry is used only in the runs without liveness. Deadlock checking is off because
every model comes to rest when requests, messages and bounded events are used up.

**Fairness.** Row locks are granted in turn (strong fairness of a request's or a
task's steps); beat fires again and again (weak or strong fairness of finding and
claiming); a committed withdrawal sends its message, and workers take what is
queued, tasks and e-mails alike; a deadlock is detected. People, Paystack, the clock,
failures and crashes owe nothing.

## 4. Proofs

Every invariant, step property and refinement that a passing run checks is also a
theorem, for all values of the constants that meet the assumption the module states.
The assumptions give the kinds of the constants; beyond that they ask for a `None`
that is none of the rows, positive amounts and increments, and, where money is summed or
requests are counted, for finite sets of rows or requests (`Auction` in `Settlement`,
`Order` and `User` in `OrderEscrow`, `Payment` and `Withdrawal` in `Wallets`, `Request` in
`Listing`), which a database and a pool of sessions are. `Bidding` and `Accounts` assume no
set finite; the bounds on faults, cancellations and other events are any natural numbers.

Three hypotheses are stated in the theorem that needs them, because without them the
code does not keep the property:

* `OneAuction` (`LockedFundsBacked`, `BidsExplainBalance`): with two auctions a refund or
  a bid can be overwritten by a request that has read the wallet before;
* `MaxClaimLosses = 0 \/ OneLeadEach` (`SettledOnce`, `FundsAreBacked`, `SalesAreAtomic`): a
  claim whose commit is lost leaves a message behind, and the second message on the
  auction is stopped only by the balance check, which another pledge of the same user
  would satisfy. `settlement_races` checks the instance with a lost claim.

### Sums

The models count money with `SumFunctionOnSet` of the community modules, a fold that
chooses a solution of a recursive equation on the subsets of a set. Induction over
finite sets is out of the prover's reach as a rule with a property for parameter, and is used
here as a smallest counterexample (`Smallest`): strict inclusion is well founded on the
subsets of a finite set, so a set of counterexamples has a minimal element. In this way
`Exists` and `Unique` show that the equation has one solution, `SumUnfold` that the sum
satisfies it, and the rest what the proofs need: `SumType` (a sum of
integers is one), `SumRemove` and `SumAdd` (an element less or more), `SumEqual` (functions
that agree), `SumChange` (another value of one element) and `SumZero` are all that the
four proof modules about money cite.

### Bidding

`BiddingProofs`: `TypeCorrect`, `OneLeader` (`SingleLeader`), `BidsRise` (`PriceRises`),
`ClosedMeansClosed` (`NoBidAfterClose`), `BidsAreAtomic` (`Bidding` implements
`EnglishAuction`), and with one auction `LockedFundsBacked` and `BidsExplainBalance`.

`SingleLeader` is not inductive. The invariant that is has six parts:

* `TypeOK`;
* `SingleLeader`;
* `Holding`: a request inside its transaction holds its auction's row lock;
* `Unrecorded`: a request that has not committed has no bid row;
* `StillHighest`: inside the transaction, `current_highest` is still the
  auction's leader;
* `Validated`: inside the transaction, the checks on the auction's side still
  hold.

The last two are where the row lock works: any step that could falsify them
commits to the same auction or closes it, and needs the lock `Holding` says is
taken. `PriceRises` and `NoBidAfterClose` are step properties that follow from
`StillHighest` and `Validated` at `Commit`, and so does the refinement: `Commit` maps
to `Bid`, the three ways to close an auction to `Close`, all else to a stutter.

For the money, `SnapshotTrue` is added: the Wallet object a request has in its transaction
shows the locked funds of the row, and its available funds too until somebody deposits or
withdraws. On one auction this is so because one request at a time is in its transaction
(`OneInTransaction`, by the auction's row lock); the wallet's own lock, taken after the
read, would not give it.

### Settlement

`SettlementProofs`: `TypeCorrect`, `OutcomesExclude` (`OneOutcome`), and under the hypothesis
above `SettledOnce` (`OrderOnce`), `FundsAreBacked` (`FundsFollowBids`) and `SalesAreAtomic`
(`Settlement` implements `Sale`). The invariant adds to `OneOutcome`:

* `Typed`: the types the argument needs;
* `ClaimsHold`: a claim that is not committed holds the auction's row lock, which keeps
  the auction ACTIVE and its bid undecided;
* `TasksFit`, `BidsFit`: the place of a task, and the status of a bid, fit the auction's
  winner and reserve price;
* `MaxClaimLosses = 0 => Alone`: an auction has one busy task at most, none while it is
  ACTIVE and unclaimed, and no order yet when a task is about to settle it. This is what
  a lost claim breaks;
* `RestTyped`, `BidsKnown`, and `MaxClaimLosses = 0 => TasksAreFirst`: a task that is going to
  move funds finds the bid still leading.

`MovesLeading` is the step both hypotheses lead to: the bid whose funds a task moves is
ACTIVE, by `TasksAreFirst`, or because the locked funds of a user who leads nowhere else
are zero once that bid is decided and `update_balances` refuses. From it follow the
funds, by the sums, and the refinement: `Settle` maps to `Sell`, `EndReserveNotMet` to
`Refuse`, all else to a stutter.

### OrderEscrow

`OrderEscrowProofs`: `TypeCorrect` (which includes that no wallet goes below zero),
`StatusTellsPayment` (`HeldUntilPaid`), `NoCloseUnpaid` (`ClosedIsPaid`) and `MoneyIsKept`
(`MoneyConserved`). The invariant that is inductive adds:

* `WorkOK`: what a session has read names rows that exist, and the outcome its
  operation pays;
* `TargetOK`: a message that was sent names an escrow;
* `ClaimOK`: an escrow whose claim is still open is HOLDING.

`ClaimOK` carries the argument. The claim of an escrow is an UPDATE whose
transaction is still open when the release task may already run, and it will set
PROCESSING whatever has happened: had anybody paid the escrow in between,
`HeldUntilPaid` would break at its commit. Nobody can, because every payment
writes the same row and waits for the claim. `MoneyConserved` is inductive beside it: a
payment takes an order's amount from the escrow funds of its buyer and gives it back to
him, or to the seller, who is another user, less the commission that `payouts` counts.

### Wallets

`WalletsProofs`: `TypeCorrect` (no withdrawal overdraws a wallet), `CompletedIsReal`
(`CompletedHappened`) and `LedgerIsTrue` (`LedgerExplains`). The invariant adds `WorkOK` (a
session's step is about a row of its kind, and a verdict it has heard was given for a charge
that is still one), `TransferMade` (a task about to record a transfer has made one) and, for
the ledger, `DebitedOnce` and `TransferHasRow` (a withdrawal is debited by the one
session that inserts its row, and a transfer that is to be recorded has that row).

### Listing

`ListingProofs`: `TypeCorrect`, `LotsAreKept` (`LiveHasItems`), `NeverTooLong`
(`DurationCapped`), `NeverTooEarly` (`OpensOnTime`), `NeverStranded` (`InAuctionIsListed`),
`LimitHolds` (`ImageLimit`) and `AssetsAreShown` (`NoOrphanAssets`). The inductive invariant
splits `LiveHasItems` into `LotsExist` and `LiveOpened` (an auction on offer meets what
`publish_auction` asked of it, and nothing that is still possible undoes that) and adds
`ListedOpened`: what the activation task has read was published, and its start time has
come. Publication, extension and cancellation leave the start of a published auction
alone, which is why the task may act on old rows.

`ImageLimit` counts: `RoomWasThere` says that the images of an item and the uploads on their
way to it are together fewer than the limit and the requests. An upload that starts has found
room among the images, and is itself one of the requests; one that commits turns from an
upload into an image. `NoOrphanAssets` rests on `AssetsShown` and `DeletedFirst`: an asset has
a row or a request that is about to add or remove it, and `delete_item_image` removes it
at Cloudinary before the row; by `OneImageEach` no other request counts as one of these.

### Accounts

`AccountsProofs`: `TypeCorrect`, `TasksEndWell` (`TaskOutcome`), `VerificationNeedsMail`
(`VerifiedByMail`), `TiersAgree` (`TierFollowsBVN`) and the step properties `SpoiltLinks`
(`DeadLinksStayDead`) and `DecisionsAreWhole` (`UndisturbedDecides`). The inductive
invariant adds:

* `WorkFits`: what a request has read fits its operation;
* `ResetByMail`: a link that has set a password is a reset link of that user's, used up;
  hence a dead link's token is spoilt for good (`TokenStays`), nobody begins to use it
  (`NobodyBegins`), and a password still comes from a request that had (`SetByRequest`);
* `MailFits`: a queued message has been mailed at most once per retry, and one that waits
  for its row is of a task that inserts one;
* `LinksFit`: a request that sends a link owns the token that is still pending, so that no
  other request can commit or void it; and a link that was opened was stored and
  came by mail;
* `TiersFit`: until an admin sets a tier, a user who does not exist has no BVN, at most one
  request registers a user, and a BVN request that read TIER_2 still finds it.

`AccountLimitsProofs`: `LinksAreFew` (`FewLinks`) and `BVNsAreShared` (`FewShareBVN`), by one
argument. What is counted is spread over the slots in which requests are served, one in a slot
at most (`Spread`): each link, or account with the BVN, is in the slot of a request
that added it, and a request in that slot that is to add another one has seen it. For
a BVN it would then have been refused; a link it voids when it commits. So the slot is free
when the new one takes it, and a set that can be spread is no larger than the slots
(`SpreadBound`). That such slots exist is all the invariant says: which request added what
is no longer in the state.

### Only model-checked

* The liveness properties `EveryRequestAnswered`, `EndedIsSettled`, `DueIsPaid`,
  `DebitedIsCompleted` and `MailArrives`: they rest on fairness and ENABLED, which the
  prover does not handle.
* The safety properties outside the hypotheses above: `LockedBacked` with more auctions
  and `OrderOnce` with lost claims and a winner of several auctions do not hold.
* The three violated promises, which are counterexamples.

## 5. What is left

Steps that would add most, in this order:

1. A composition of `Bidding` and `Wallets` through the wallet row, to replace `Deposit`
   and `Withdraw` by the webhook and the withdrawal themselves.
2. An abstract specification of an escrow, which `OrderEscrow` implements as long as no
   release fails behind its commit.
3. `Bidding`'s money on several auctions, as far as it goes: a bound on what a lost update
   can take.
4. The daily counter of BVN attempts, and the review of KYC documents.

## 6. Not modelled

* **Login, refresh, logout**: they check a password or a signature; no row changes but
  `last_login_at`, which no decision reads.
* **Texts**: profiles, titles, descriptions, addresses, categories, which image is the
  primary one, addresses of e-mails that differ in case. No decision depends on them.
* **Documents and evidence**: uploads of seller and KYC documents, bid and dispute images;
  their assets follow the pattern of item images, which `Listing` has.
* **The counter of BVN attempts** and the review of KYC documents, which are counters and
  statuses of one row behind one lock.
* **Free-form edits in the admin panel**: an admin may set any column to any value, which
  no property could survive. Its buttons are modelled where they change state.
* **The limits across requests**: daily totals are read as the code reads them; that two
  withdrawals at a time can pass one limit is a hazard with no property.
* **Reading**: pagination, search, statistics, dashboards.
* **Frontend and HTTP plumbing**: routing, rate limits and error handlers keep no state the
  database does not keep.
