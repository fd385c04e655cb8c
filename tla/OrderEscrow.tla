---------------------------- MODULE OrderEscrow ----------------------------
(***************************************************************************)
(* What happens to a sale once its auction is settled: shipping, delivery, *)
(* cancellation (apps/orders/service.py), disputes (apps/disputes) and the *)
(* release of the escrow when its time has come (apps/escrow/tasks.py).    *)
(*                                                                         *)
(* No service here locks the order, the escrow or the dispute it reads: a  *)
(* request decides on what it read and commits later, against whatever the *)
(* rows have become.  Only wallets are locked, from the first read of them *)
(* to the commit, so their changes are part of the committing step.        *)
(***************************************************************************)
EXTENDS Integers, FiniteSets, Functions

CONSTANTS
    Order, User, None,
    Buyer, Seller,   \* the two parties of each order
    Amount,          \* amount of each order's escrow
    Commission,      \* the platform's part of it
    EscrowFunds,     \* escrow_funds of each user at the start
    Session,         \* requests being served at a time
    Dispute,         \* bound: disputes raised in a behaviour
    Task,            \* bound: release_single_escrow messages
    MaxRetries,      \* Celery's max_retries
    MaxFailures,     \* bound: exceptions that tasks raise
    MaxCrashes,      \* bound: workers killed while they run a task
    MaxClaimLosses   \* bound: claims whose commit fails

OrderStatus == {"PENDING_SHIPMENT", "SHIPPED", "DISPUTED", "COMPLETED", "CANCELLED",
                "REFUNDED"}
Outcome == {"RELEASED", "REFUNDED"}
EscrowStatus == {"HOLDING", "PROCESSING"} \union Outcome
DisputeStatus == {"OPEN", "UNDER_REVIEW", "RESOLVED"}
Operation == {"ship", "confirm", "cancel", "raise", "review", "resolve"}
Event == {"failure", "crash", "claim_loss"}

ASSUME OrderAssumption ==
    /\ None \notin Order \union Dispute \union Task \union Operation \union DisputeStatus
    /\ IsFiniteSet(Order) /\ IsFiniteSet(User)
    /\ Buyer \in [Order -> User]
    /\ Seller \in [Order -> User]
    /\ \A o \in Order : Buyer[o] # Seller[o]
    /\ Amount \in [Order -> Nat \ {0}]
    /\ Commission \in [Order -> Nat]
    /\ \A o \in Order : Commission[o] <= Amount[o]
    /\ EscrowFunds \in [User -> Nat]
    /\ {MaxRetries, MaxFailures, MaxCrashes, MaxClaimLosses} \subseteq Nat

VARIABLES
    order,         \* orders.status
    escrow,        \* escrows.status
    dispute,       \* order and status of each row of disputes
    wallet,        \* available and escrow funds of each user, the first as a
                   \* change since the auctions were settled
    payouts,       \* ESCROW_RELEASE and REFUND transactions of each escrow
    overdue,       \* has the shipping deadline passed?
    release_due,   \* has escrows.auto_release_at passed?
    work,          \* what each session has read and will commit
    claim_lock,    \* message of the open transaction that claims the escrow
    pc,            \* where each release_single_escrow message stands
    target,        \* its escrow, named by the order
    retries,       \* its retries so far
    spent          \* occurrences of each bounded event

db == <<order, escrow, dispute, wallet, payouts>>
clock == <<overdue, release_due>>
tasks == <<claim_lock, pc, target, retries, spent>>
vars == <<db, clock, work, tasks>>

NoDispute == [order |-> None, status |-> None]
NoWork == [op |-> None, order |-> None, dispute |-> None, outcome |-> None]

Init ==
    /\ order = [o \in Order |-> "PENDING_SHIPMENT"]
    /\ escrow = [o \in Order |-> "HOLDING"]
    /\ dispute = [d \in Dispute |-> NoDispute]
    /\ wallet = [u \in User |-> [available |-> 0, escrow |-> EscrowFunds[u]]]
    /\ payouts = [o \in Order |-> [x \in Outcome |-> 0]]
    /\ overdue = [o \in Order |-> FALSE]
    /\ release_due = [o \in Order |-> FALSE]
    /\ work = [s \in Session |-> NoWork]
    /\ claim_lock = [o \in Order |-> None]
    /\ pc = [t \in Task |-> "unused"]
    /\ target = [t \in Task |-> None]
    /\ retries = [t \in Task |-> 0]
    /\ spent = [e \in Event |-> 0]

Spend(e, bound) ==
    /\ spent[e] < bound
    /\ spent' = [spent EXCEPT ![e] = @ + 1]

-----------------------------------------------------------------------------
(***************************************************************************)
(* The two ways an escrow is paid out.  Neither looks at the escrow's      *)
(* status; update_balances refuses a negative escrow balance.              *)
(***************************************************************************)

Payee(o, x) == IF x = "RELEASED" THEN Seller[o] ELSE Buyer[o]
Payment(o, x) == IF x = "RELEASED" THEN Amount[o] - Commission[o] ELSE Amount[o]

\* Mutant: the wallet keeps the funds it pays out.
PaidKeepsEscrow(o, x) ==
    [u \in User |->
        [available |-> wallet[u].available + IF u = Payee(o, x) THEN Payment(o, x) ELSE 0,
         escrow    |-> wallet[u].escrow]]

Paid(o, x) ==
    [u \in User |->
        [available |-> wallet[u].available + IF u = Payee(o, x) THEN Payment(o, x) ELSE 0,
         escrow    |-> wallet[u].escrow - IF u = Buyer[o] THEN Amount[o] ELSE 0]]

Covered(o) == wallet[Buyer[o]].escrow >= Amount[o]

SetEscrow(o, status) == escrow' = [escrow EXCEPT ![o] = status]

\* Mutant: the balance is not checked.
PayOutUnchecked(o, x) ==
    /\ claim_lock[o] = None
    /\ wallet' = Paid(o, x)
    /\ payouts' = [payouts EXCEPT ![o][x] = @ + 1]
    /\ SetEscrow(o, x)

\* The UPDATE of the escrow row waits for a claim in progress.
PayOut(o, x) ==
    /\ Covered(o)
    /\ claim_lock[o] = None
    /\ wallet' = Paid(o, x)
    /\ payouts' = [payouts EXCEPT ![o][x] = @ + 1]
    /\ SetEscrow(o, x)

-----------------------------------------------------------------------------
(***************************************************************************)
(* Requests: what a session reads and checks, without a lock.              *)
(***************************************************************************)

Begin(s, op, o, d, x) ==
    /\ work[s] = NoWork
    /\ work' = [work EXCEPT ![s] = [op |-> op, order |-> o, dispute |-> d, outcome |-> x]]
    /\ UNCHANGED <<db, clock, tasks>>

ship_order(s, o) ==
    /\ order[o] = "PENDING_SHIPMENT"
    /\ Begin(s, "ship", o, None, None)

confirm_delivery(s, o) ==
    /\ order[o] = "SHIPPED"
    /\ Begin(s, "confirm", o, None, "RELEASED")

Cancellable(o) == order[o] = "PENDING_SHIPMENT" /\ overdue[o]

\* By the buyer.
cancel_order(s, o) ==
    /\ Cancellable(o)
    /\ Begin(s, "cancel", o, None, "REFUNDED")

\* By the beat task, in a session for each order, with the same writes.
process_overdue_shipments(s, o) ==
    /\ Cancellable(o)
    /\ Begin(s, "cancel", o, None, "REFUNDED")

\* DELIVERED is never there to be read: confirm_delivery commits past it.
raise_dispute(s, o) ==
    /\ order[o] = "SHIPPED"
    /\ \A d \in Dispute : dispute[d].order # o
    /\ Begin(s, "raise", o, None, None)

mark_under_review(s, d) ==
    /\ dispute[d].status = "OPEN"
    /\ Begin(s, "review", dispute[d].order, d, None)

resolve_dispute(s, d, x) ==
    /\ dispute[d].status \in {"OPEN", "UNDER_REVIEW"}
    /\ Begin(s, "resolve", dispute[d].order, d, x)

-----------------------------------------------------------------------------
(***************************************************************************)
(* Requests: what a session writes, in one commit.                         *)
(***************************************************************************)

Finish(s, op) ==
    /\ work[s].op = op
    /\ work' = [work EXCEPT ![s] = NoWork]
    /\ UNCHANGED <<clock, tasks>>

SetOrder(s, to) == order' = [order EXCEPT ![work[s].order] = to]
SetDispute(d, to) == dispute' = [dispute EXCEPT ![d] = [order |-> @.order, status |-> to]]

Ship(s) ==
    /\ Finish(s, "ship")
    /\ SetOrder(s, "SHIPPED")
    /\ UNCHANGED <<escrow, dispute, wallet, payouts>>

ConfirmDelivery(s) ==
    /\ Finish(s, "confirm")
    /\ PayOut(work[s].order, work[s].outcome)
    /\ SetOrder(s, "COMPLETED")
    /\ UNCHANGED dispute

\* Mutant: the refund is left to the escrow's own status change.
CancelOrderWithoutRefund(s) ==
    /\ Finish(s, "cancel")
    /\ SetOrder(s, "CANCELLED")
    /\ UNCHANGED <<escrow, dispute, wallet, payouts>>

CancelOrder(s) ==
    /\ Finish(s, "cancel")
    /\ PayOut(work[s].order, work[s].outcome)
    /\ SetOrder(s, "CANCELLED")
    /\ UNCHANGED dispute

RaiseDispute(s) ==
    /\ Finish(s, "raise")
    /\ \E d \in Dispute :
          /\ dispute[d] = NoDispute
          /\ dispute' = [dispute EXCEPT ![d] = [order |-> work[s].order, status |-> "OPEN"]]
    /\ SetOrder(s, "DISPUTED")
    /\ UNCHANGED <<escrow, wallet, payouts>>

MarkUnderReview(s) ==
    /\ Finish(s, "review")
    /\ SetDispute(work[s].dispute, "UNDER_REVIEW")
    /\ UNCHANGED <<order, escrow, wallet, payouts>>

ResolveDispute(s) ==
    /\ Finish(s, "resolve")
    /\ PayOut(work[s].order, work[s].outcome)
    /\ SetOrder(s, IF work[s].outcome = "RELEASED" THEN "COMPLETED" ELSE "REFUNDED")
    /\ SetDispute(work[s].dispute, "RESOLVED")

\* The request fails: the wallet is short (WalletLockException), the process
\* dies, the connection drops.  Nothing is written.
Abort(s) ==
    /\ work[s] # NoWork
    /\ work' = [work EXCEPT ![s] = NoWork]
    /\ UNCHANGED <<db, clock, tasks>>

\* The admin panel sets a dispute's status, whatever it was, and nothing else:
\* its two resolve actions move no funds and leave the order as it is.
AdminSetDispute(d, status) ==
    /\ dispute[d] # NoDispute
    /\ SetDispute(d, status)
    /\ UNCHANGED <<order, escrow, wallet, payouts, clock, work, tasks>>

AdminMarkUnderReview(d) == AdminSetDispute(d, "UNDER_REVIEW")
AdminResolve(d) == AdminSetDispute(d, "RESOLVED")

-----------------------------------------------------------------------------
(***************************************************************************)
(* process_auto_releases and release_single_escrow.                        *)
(***************************************************************************)

Claimed(o, t) ==
    /\ claim_lock[o] = None
    /\ pc[t] = "unused"
    /\ claim_lock' = [claim_lock EXCEPT ![o] = t]
    /\ pc' = [pc EXCEPT ![t] = "queued"]
    /\ target' = [target EXCEPT ![t] = o]
    /\ UNCHANGED <<db, clock, work, retries, spent>>

\* Mutants: the UPDATE has no WHERE status = HOLDING; escrows are never listed.
claim_for_release_always(o, t) == release_due[o] /\ Claimed(o, t)
claim_for_release_never(o, t) == release_due[o] /\ escrow[o] = "PROCESSING" /\ Claimed(o, t)

\* The UPDATE ... WHERE status = HOLDING matches; the message goes out while the
\* transaction is open.  A claim that matches no row changes nothing.
claim_for_release(o, t) ==
    /\ release_due[o]
    /\ escrow[o] = "HOLDING"
    /\ Claimed(o, t)

EndClaim(o) ==
    /\ claim_lock[o] # None
    /\ claim_lock' = [claim_lock EXCEPT ![o] = None]

CommitClaim(o) ==
    /\ EndClaim(o)
    /\ escrow' = [escrow EXCEPT ![o] = "PROCESSING"]
    /\ UNCHANGED <<order, dispute, wallet, payouts, clock, work, pc, target, retries, spent>>

\* The commit fails, or the worker dies before it: the message is out already.
LoseClaim(o) ==
    /\ Spend("claim_loss", MaxClaimLosses)
    /\ EndClaim(o)
    /\ UNCHANGED <<db, clock, work, pc, target, retries>>

Goto(t, l) == pc' = [pc EXCEPT ![t] = l]

\* The task asks for no status, neither the escrow's nor the order's.
release_single_escrow(t) ==
    /\ pc[t] = "queued"
    /\ PayOut(target[t], "RELEASED")
    /\ order' = [order EXCEPT ![target[t]] = "COMPLETED"]
    /\ Goto(t, "notify")
    /\ UNCHANGED <<dispute, clock, work, claim_lock, target, retries, spent>>

\* After the commit, in a session of its own: read the parties, queue e-mails.
NotifyRelease(t) ==
    /\ pc[t] = "notify"
    /\ Goto(t, "done")
    /\ UNCHANGED <<db, clock, work, claim_lock, target, retries, spent>>

\* An exception: autoretry_for runs the whole task again, until max_retries.
Retry(t) ==
    /\ retries' = [retries EXCEPT ![t] = IF @ < MaxRetries THEN @ + 1 ELSE @]
    /\ Goto(t, IF retries[t] < MaxRetries THEN "queued" ELSE "lost")
    /\ UNCHANGED <<db, clock, work, claim_lock, target>>

\* The buyer's wallet holds less than the escrow (WalletLockException).
ReleaseRefused(t) ==
    /\ pc[t] = "queued"
    /\ ~Covered(target[t])
    /\ Retry(t)
    /\ UNCHANGED spent

Fail(t) ==
    /\ pc[t] \in {"queued", "notify"}
    /\ Spend("failure", MaxFailures)
    /\ Retry(t)

\* The message was acknowledged when the task started: nobody runs it again.
Crash(t) ==
    /\ pc[t] \in {"queued", "notify"}
    /\ Spend("crash", MaxCrashes)
    /\ Goto(t, "lost")
    /\ UNCHANGED <<db, clock, work, claim_lock, target, retries>>

-----------------------------------------------------------------------------
ShippingDeadlinePasses(o) ==
    /\ ~overdue[o]
    /\ overdue' = [overdue EXCEPT ![o] = TRUE]
    /\ UNCHANGED <<db, release_due, work, tasks>>

AutoReleaseTimePasses(o) ==
    /\ ~release_due[o]
    /\ release_due' = [release_due EXCEPT ![o] = TRUE]
    /\ UNCHANGED <<db, overdue, work, tasks>>

Read(s) ==
    \/ \E o \in Order : \/ ship_order(s, o) \/ confirm_delivery(s, o)
                        \/ cancel_order(s, o) \/ process_overdue_shipments(s, o)
                        \/ raise_dispute(s, o)
    \/ \E d \in Dispute : \/ mark_under_review(s, d)
                          \/ \E x \in Outcome : resolve_dispute(s, d, x)

Write(s) ==
    \/ Ship(s) \/ ConfirmDelivery(s) \/ CancelOrder(s)
    \/ RaiseDispute(s) \/ MarkUnderReview(s) \/ ResolveDispute(s)

ClaimStep(o) == (\E t \in Task : claim_for_release(o, t)) \/ CommitClaim(o)
Run(t) == release_single_escrow(t) \/ ReleaseRefused(t) \/ NotifyRelease(t)

Next ==
    \/ \E s \in Session : Read(s) \/ Write(s) \/ Abort(s)
    \/ \E d \in Dispute : AdminMarkUnderReview(d) \/ AdminResolve(d)
    \/ \E o \in Order : \/ ClaimStep(o) \/ LoseClaim(o)
                        \/ ShippingDeadlinePasses(o) \/ AutoReleaseTimePasses(o)
    \/ \E t \in Task : Run(t) \/ Fail(t) \/ Crash(t)

Spec == Init /\ [][Next]_vars

\* Celery beat fires every five minutes and workers take what is queued.  People,
\* the clock, failures and crashes owe nothing.
Fairness ==
    /\ \A o \in Order : WF_vars(ClaimStep(o))
    /\ \A t \in Task : SF_vars(Run(t))

FairSpec == Spec /\ Fairness

-----------------------------------------------------------------------------
\* Every variable holds a value of its kind; no balance goes below zero.
TypeOK ==
    /\ order \in [Order -> OrderStatus]
    /\ escrow \in [Order -> EscrowStatus]
    /\ dispute \in [Dispute -> {NoDispute} \union [order: Order, status: DisputeStatus]]
    /\ wallet \in [User -> [available: Nat, escrow: Nat]]
    /\ payouts \in [Order -> [Outcome -> Nat]]
    /\ overdue \in [Order -> BOOLEAN]
    /\ release_due \in [Order -> BOOLEAN]
    /\ work \in [Session -> {NoWork} \union
                    [op: Operation, order: Order, dispute: Dispute \union {None},
                     outcome: Outcome \union {None}]]
    /\ claim_lock \in [Order -> Task \union {None}]
    /\ pc \in [Task -> {"unused", "queued", "notify", "done", "lost"}]
    /\ target \in [Task -> Order \union {None}]
    /\ retries \in [Task -> 0..MaxRetries]
    /\ spent \in [Event -> Nat]

PaymentsOf(o) == payouts[o]["RELEASED"] + payouts[o]["REFUNDED"]

\* Whatever is paid twice, no money appears or vanishes: wallets and the commission
\* of the releases add up to what was in escrow.
MoneyConserved ==
    SumFunction([u \in User |-> wallet[u].available + wallet[u].escrow])
      + SumFunction([o \in Order |-> payouts[o]["RELEASED"] * Commission[o]])
      = SumFunction(EscrowFunds)

\* An escrow reads HOLDING or PROCESSING exactly while its money has not left it,
\* although claims, releases and refunds race: no payment is made that the status
\* does not show, and no claim hides one.
HeldUntilPaid ==
    \A o \in Order : escrow[o] \in {"HOLDING", "PROCESSING"} <=> PaymentsOf(o) = 0

\* An order is closed only with its money: COMPLETED when the seller has been
\* paid, CANCELLED and REFUNDED when the buyer has been.
ClosedIsPaid ==
    \A o \in Order :
        /\ order[o] = "COMPLETED" => payouts[o]["RELEASED"] > 0
        /\ order[o] \in {"CANCELLED", "REFUNDED"} => payouts[o]["REFUNDED"] > 0

\* An escrow is paid out once: claim_for_release is there for "preventing
\* double-release by concurrent workers".
PaidOnce == \A o \in Order : PaymentsOf(o) <= 1

\* "auto_release_at: Timestamp when funds auto-release if no dispute": the funds of
\* an order with an open dispute stay where they are until it is resolved.
OpenDisputeHoldsFunds ==
    \A d \in Dispute :
        dispute[d].status \in {"OPEN", "UNDER_REVIEW"} => PaymentsOf(dispute[d].order) = 0

\* When its time has come the escrow is paid out, as long as no worker dies and no
\* task fails more often than it may be retried.
DueIsPaid ==
    \A o \in Order : release_due[o] ~> escrow[o] \in Outcome
=============================================================================
