------------------------------ MODULE Wallets ------------------------------
(***************************************************************************)
(* Money that enters and leaves a wallet (apps/wallet): funding through    *)
(* Paystack and its webhook, withdrawals and the task that makes the bank  *)
(* transfer.                                                               *)
(*                                                                         *)
(* Wallets are locked from their first read to the commit, so a change of  *)
(* available_funds is part of the committing step.  Payments and the daily *)
(* total of withdrawals are read without a lock, each in a step of its     *)
(* own.  All withdrawals are made on one day.                              *)
(***************************************************************************)
EXTENDS Integers, FiniteSets, Functions

CONSTANTS
    User, None,
    Payment,         \* bound: fundings
    Withdrawal,      \* bound: withdrawals, each with its row and its message
    Owner,           \* user of each payment and withdrawal
    Amount,          \* its amount
    Opening,         \* available_funds of each user at the start
    WalletLimit,     \* max_wallet_balance of each user's KYC tier
    DailyLimit,      \* max_daily_withdrawal of each user's tier, 0 for TIER_1
    Session,         \* requests being served at a time
    MaxRetries,      \* Celery's max_retries
    MaxFailures,     \* bound: attempts at a transfer that fail
    MaxCrashes       \* bound: processes that die with a message

PaymentStatus == {"PENDING", "COMPLETED", "FAILED"}
TransactionStatus == {"PENDING", "COMPLETED", "FAILED"}
Verdict == {"success", "reversed"}
Step == {"verify", "record", "debit", "enqueue"}
Event == {"failure", "crash"}

ASSUME WalletAssumption ==
    /\ None \notin Payment \union Withdrawal \union Step \union PaymentStatus
                   \union TransactionStatus
    /\ Payment \intersect Withdrawal = {}
    /\ IsFiniteSet(Payment) /\ IsFiniteSet(Withdrawal)
    /\ Owner \in [Payment \union Withdrawal -> User]
    /\ Amount \in [Payment \union Withdrawal -> Nat \ {0}]
    /\ {Opening, WalletLimit, DailyLimit} \subseteq [User -> Nat]
    /\ {MaxRetries, MaxFailures, MaxCrashes} \subseteq Nat

VARIABLES
    funds,        \* wallets.available_funds
    payment,      \* payments.status
    credits,      \* DEPOSIT transactions of each payment
    charge,       \* what Paystack knows of each payment
    withdrawal,   \* status of each WITHDRAWAL transaction
    work,         \* what each session is doing
    pc,           \* where each process_withdrawal_transfer message stands
    transfers,    \* transfers Paystack has made for each withdrawal
    retries,      \* retries of each message so far
    spent         \* occurrences of each bounded event

funding == <<payment, credits, charge>>
tasks == <<pc, transfers, retries, spent>>
vars == <<funds, funding, withdrawal, work, tasks>>

Idle == [step |-> None, on |-> None, verdict |-> None]

Init ==
    /\ funds = Opening
    /\ payment = [p \in Payment |-> None]
    /\ credits = [p \in Payment |-> 0]
    /\ charge = [p \in Payment |-> "open"]
    /\ withdrawal = [w \in Withdrawal |-> None]
    /\ work = [s \in Session |-> Idle]
    /\ pc = [w \in Withdrawal |-> "unused"]
    /\ transfers = [w \in Withdrawal |-> 0]
    /\ retries = [w \in Withdrawal |-> 0]
    /\ spent = [e \in Event |-> 0]

Spend(e, bound) ==
    /\ spent[e] < bound
    /\ spent' = [spent EXCEPT ![e] = @ + 1]

Go(s, step, on, verdict) ==
    work' = [work EXCEPT ![s] = [step |-> step, on |-> on, verdict |-> verdict]]

Rest(s) == work' = [work EXCEPT ![s] = Idle]

-----------------------------------------------------------------------------
(***************************************************************************)
(* Funding.                                                                *)
(***************************************************************************)

check_funding_limit(p) == funds[Owner[p]] + Amount[p] <= WalletLimit[Owner[p]]

\* The limit is checked here, against the balance of now, and never again.  That
\* Paystack may give no link changes nothing: the payment stays PENDING, uncharged.
initiate_funding(p) ==
    /\ payment[p] = None
    /\ check_funding_limit(p)
    /\ payment' = [payment EXCEPT ![p] = "PENDING"]
    /\ UNCHANGED <<funds, credits, charge, withdrawal, work, tasks>>

\* Paystack: the user pays enough or too little; a charge is reversed.
Charge(p, result) ==
    /\ payment[p] # None
    /\ \/ charge[p] = "open" /\ result \in {"success", "short"}
       \/ charge[p] = "success" /\ result = "reversed"
    /\ charge' = [charge EXCEPT ![p] = result]
    /\ UNCHANGED <<funds, payment, credits, withdrawal, work, tasks>>

\* handle_webhook leaves it alone.
AlreadyCompleted(p) == payment[p] = "COMPLETED"

\* The charge.success event is delivered, for the first time or again.
ReceiveWebhook(s, p) ==
    /\ work[s] = Idle
    /\ charge[p] # "open"
    /\ ~AlreadyCompleted(p)
    /\ Go(s, "verify", p, None)
    /\ UNCHANGED <<funds, funding, withdrawal, tasks>>

\* Too low an amount raises: the request can only abort.
verify_payment(s) ==
    /\ work[s].step = "verify"
    /\ charge[work[s].on] \in Verdict
    /\ Go(s, "record", work[s].on, charge[work[s].on])
    /\ UNCHANGED <<funds, funding, withdrawal, tasks>>

\* Mutant: the payment is marked COMPLETED before it is known to have succeeded.
StatusOfAny(verdict) == IF verdict \in Verdict THEN "COMPLETED" ELSE "FAILED"

StatusOf(verdict) == IF verdict = "success" THEN "COMPLETED" ELSE "FAILED"

update_payment_status(p, status) == payment' = [payment EXCEPT ![p] = status]

RecordPayment(s) ==
    LET p == work[s].on
        credit == IF work[s].verdict = "success" THEN 1 ELSE 0
    IN /\ work[s].step = "record"
       /\ update_payment_status(p, StatusOf(work[s].verdict))
       /\ credits' = [credits EXCEPT ![p] = @ + credit]
       /\ funds' = [funds EXCEPT ![Owner[p]] = @ + credit * Amount[p]]
       /\ Rest(s)
       /\ UNCHANGED <<charge, withdrawal, tasks>>

-----------------------------------------------------------------------------
(***************************************************************************)
(* Withdrawals.                                                            *)
(***************************************************************************)

Debits(u) == {w \in Withdrawal : withdrawal[w] # None /\ Owner[w] = u}
get_daily_withdrawal_total(u) == SumFunctionOnSet(Amount, Debits(u))

\* Against the withdrawals of the day, before the wallet is locked.
check_withdrawal_limit(w) ==
    get_daily_withdrawal_total(Owner[w]) + Amount[w] <= DailyLimit[Owner[w]]

initiate_withdrawal(s, w) ==
    /\ work[s] = Idle
    /\ withdrawal[w] = None
    /\ \A t \in Session : work[t].on # w
    /\ check_withdrawal_limit(w)
    /\ Go(s, "debit", w, None)
    /\ UNCHANGED <<funds, funding, withdrawal, tasks>>

\* Mutant: neither the service nor update_balances checks the balance.
DebitUnchecked(s) ==
    LET w == work[s].on
    IN /\ work[s].step = "debit"
       /\ funds' = [funds EXCEPT ![Owner[w]] = @ - Amount[w]]
       /\ withdrawal' = [withdrawal EXCEPT ![w] = "PENDING"]
       /\ Go(s, "enqueue", w, None)
       /\ UNCHANGED <<funding, tasks>>

Debit(s) ==
    LET w == work[s].on
    IN /\ work[s].step = "debit"
       /\ funds[Owner[w]] >= Amount[w]
       /\ funds' = [funds EXCEPT ![Owner[w]] = @ - Amount[w]]
       /\ withdrawal' = [withdrawal EXCEPT ![w] = "PENDING"]
       /\ Go(s, "enqueue", w, None)
       /\ UNCHANGED <<funding, tasks>>

\* The message is sent after the commit.
Enqueue(s) ==
    /\ work[s].step = "enqueue"
    /\ pc' = [pc EXCEPT ![work[s].on] = "queued"]
    /\ Rest(s)
    /\ UNCHANGED <<funds, funding, withdrawal, transfers, retries, spent>>

LoseMessage(s) ==
    /\ work[s].step = "enqueue"
    /\ Spend("crash", MaxCrashes)
    /\ Rest(s)
    /\ UNCHANGED <<funds, funding, withdrawal, pc, transfers, retries>>

\* A check fails, a call fails or the process dies, before the commit.  Webhooks
\* answer 200 all the same; Paystack may still deliver the event again.
Abort(s) ==
    /\ work[s].step \in {"verify", "record", "debit"}
    /\ Rest(s)
    /\ UNCHANGED <<funds, funding, withdrawal, tasks>>

-----------------------------------------------------------------------------
(***************************************************************************)
(* process_withdrawal_transfer.                                            *)
(***************************************************************************)

Goto(w, l) == pc' = [pc EXCEPT ![w] = l]

Pending(w) == pc[w] = "queued" /\ withdrawal[w] = "PENDING"

\* The status is COMPLETED in the session only.
initiate_transfer(w) ==
    /\ Pending(w)
    /\ transfers' = [transfers EXCEPT ![w] = @ + 1]
    /\ Goto(w, "transferred")
    /\ UNCHANGED <<funds, funding, withdrawal, work, retries, spent>>

\* Mutant: the task gives up at its first exception.
RetryNever(w) ==
    /\ Goto(w, "lost")
    /\ UNCHANGED retries

Retry(w) ==
    /\ retries' = [retries EXCEPT ![w] = IF @ < MaxRetries THEN @ + 1 ELSE @]
    /\ Goto(w, IF retries[w] < MaxRetries THEN "queued" ELSE "lost")

\* Mutant: the refund is committed, although its transaction row is not.
RefundKept(w) == funds' = [funds EXCEPT ![Owner[w]] = @ + Amount[w]]

\* _refund_failed_withdrawal credits the wallet and marks the row FAILED, and the
\* exception that is raised again rolls both back.
RefundRolledBack(w) == UNCHANGED funds

\* No bank details, or Paystack answers with an error, or its answer is lost
\* although it made the transfer.
TransferFails(w) ==
    /\ Pending(w)
    /\ Spend("failure", MaxFailures)
    /\ \E made \in {0, 1} : transfers' = [transfers EXCEPT ![w] = @ + made]
    /\ RefundRolledBack(w)
    /\ Retry(w)
    /\ UNCHANGED <<funding, withdrawal, work>>

\* The notification is queued, then the task's session commits.
CompleteWithdrawal(w) ==
    /\ pc[w] = "transferred"
    /\ withdrawal' = [withdrawal EXCEPT ![w] = "COMPLETED"]
    /\ Goto(w, "done")
    /\ UNCHANGED <<funds, funding, work, transfers, retries, spent>>

\* The notification cannot be queued, or the commit fails.
CompletionFails(w) ==
    /\ pc[w] = "transferred"
    /\ Spend("failure", MaxFailures)
    /\ Retry(w)
    /\ UNCHANGED <<funds, funding, withdrawal, work, transfers>>

\* The message was acknowledged when the task started: nobody runs it again.
Crash(w) ==
    /\ pc[w] \in {"queued", "transferred"}
    /\ Spend("crash", MaxCrashes)
    /\ Goto(w, "lost")
    /\ UNCHANGED <<funds, funding, withdrawal, work, transfers, retries>>

-----------------------------------------------------------------------------
Webhook(s) == verify_payment(s) \/ RecordPayment(s)
Withdraw(s) == Debit(s) \/ Enqueue(s)
Transfer(w) == initiate_transfer(w) \/ CompleteWithdrawal(w)

Next ==
    \/ \E p \in Payment : \/ initiate_funding(p)
                          \/ \E result \in {"success", "short", "reversed"} : Charge(p, result)
                          \/ \E s \in Session : ReceiveWebhook(s, p)
    \/ \E s \in Session : \/ Webhook(s) \/ Withdraw(s) \/ LoseMessage(s) \/ Abort(s)
                          \/ \E w \in Withdrawal : initiate_withdrawal(s, w)
    \/ \E w \in Withdrawal : \/ Transfer(w) \/ TransferFails(w)
                             \/ CompletionFails(w) \/ Crash(w)

Spec == Init /\ [][Next]_vars

\* A request that has committed sends its message unless it dies, and workers take
\* what is queued.  Users, Paystack and failures owe nothing.
Fairness ==
    /\ \A s \in Session : WF_vars(Enqueue(s))
    /\ \A w \in Withdrawal : WF_vars(Transfer(w))

FairSpec == Spec /\ Fairness

-----------------------------------------------------------------------------
\* Every variable holds a value of its kind; available_funds is never negative,
\* whatever requests debit the wallet at a time.
TypeOK ==
    /\ funds \in [User -> Nat]
    /\ payment \in [Payment -> PaymentStatus \union {None}]
    /\ credits \in [Payment -> Nat]
    /\ charge \in [Payment -> {"open", "short"} \union Verdict]
    /\ withdrawal \in [Withdrawal -> TransactionStatus \union {None}]
    /\ work \in [Session -> {Idle} \union
                    [step: Step, on: Payment \union Withdrawal,
                     verdict: Verdict \union {None}]]
    /\ pc \in [Withdrawal -> {"unused", "queued", "transferred", "done", "lost"}]
    /\ transfers \in [Withdrawal -> Nat]
    /\ retries \in [Withdrawal -> 0..MaxRetries]
    /\ spent \in [Event -> Nat]

Paid(u) == SumFunctionOnSet([p \in Payment |-> credits[p] * Amount[p]],
                            {p \in Payment : Owner[p] = u})

\* The transactions of a wallet explain its balance: however webhooks, withdrawals
\* and failed transfers interleave, no credit or debit is lost and no half of a
\* refund survives the other.
LedgerExplains ==
    \A u \in User : funds[u] = Opening[u] + Paid(u) - get_daily_withdrawal_total(u)

\* What is recorded as COMPLETED happened: a payment's charge succeeded and its
\* wallet was credited, a withdrawal's transfer was made.
CompletedHappened ==
    /\ \A p \in Payment :
          payment[p] = "COMPLETED" => credits[p] > 0 /\ charge[p] \in Verdict
    /\ \A w \in Withdrawal : withdrawal[w] = "COMPLETED" => transfers[w] > 0

\* A payment is credited once, however often its webhook is delivered:
\* "Idempotency guard - don't reprocess a payment that already completed".
CreditedOnce == \A p \in Payment : credits[p] <= 1

\* A wallet that was debited gets its transfer recorded in the end, unless a
\* process dies with the message, when no more attempts fail than may be retried.
DebitedIsCompleted ==
    \A w \in Withdrawal :
        (withdrawal[w] = "PENDING") ~> (withdrawal[w] = "COMPLETED" \/ spent["crash"] > 0)
=============================================================================
