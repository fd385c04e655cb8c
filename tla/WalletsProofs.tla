--------------------------- MODULE WalletsProofs ---------------------------
(***************************************************************************)
(* Theorems of Wallets, for any users, payments, withdrawals and sessions, *)
(* and any number of failures and crashes.                                 *)
(***************************************************************************)
EXTENDS Wallets, Sums

\* A session works on a row of the kind its step is about, and a verdict that it
\* has heard was Paystack's: a charge that succeeded never becomes uncharged.
WorkOK ==
    \A s \in Session :
        /\ work[s].step \in {"verify", "record"} => work[s].on \in Payment
        /\ work[s].step = "record" =>
              work[s].verdict \in Verdict /\ charge[work[s].on] \in Verdict
        /\ work[s].step \in {"debit", "enqueue"} => work[s].on \in Withdrawal

\* A task that is about to record a transfer has made one.
TransferMade == \A w \in Withdrawal : pc[w] = "transferred" => transfers[w] > 0

IInv ==
    /\ TypeOK
    /\ WorkOK
    /\ TransferMade
    /\ CompletedHappened

WorkType ==
    [Session -> {Idle} \union
        [step: Step, on: Payment \union Withdrawal, verdict: Verdict \union {None}]]

-----------------------------------------------------------------------------
LEMMA ConstantFacts ==
    /\ None \notin Payment /\ None \notin Withdrawal /\ None \notin Step
    /\ None # "COMPLETED"
    /\ \A x \in Payment \union Withdrawal : Owner[x] \in User /\ Amount[x] \in Nat \ {0}
    /\ Opening \in [User -> Nat]
    /\ MaxRetries \in Nat /\ MaxFailures \in Nat /\ MaxCrashes \in Nat
<1>1. None \notin Payment \union Withdrawal \union Step \union PaymentStatus
                  \union TransactionStatus
  BY Zenon, WalletAssumption
<1>2. /\ Owner \in [Payment \union Withdrawal -> User]
      /\ Amount \in [Payment \union Withdrawal -> Nat \ {0}]
  BY Zenon, WalletAssumption
<1>3. /\ {Opening, WalletLimit, DailyLimit} \subseteq [User -> Nat]
      /\ {MaxRetries, MaxFailures, MaxCrashes} \subseteq Nat
  BY Zenon, WalletAssumption
<1>4. "COMPLETED" \in PaymentStatus
  BY DEF PaymentStatus
<1> QED
  BY <1>1, <1>2, <1>3, <1>4

LEMMA InitInv == Init => IInv
<1> SUFFICES ASSUME Init PROVE IInv
  OBVIOUS
<1>1. TypeOK
  <2>1. funds \in [User -> Nat] /\ retries \in [Withdrawal -> 0..MaxRetries]
    BY ConstantFacts DEF Init
  <2>2. charge \in [Payment -> {"open", "short"} \union Verdict]
    BY DEF Init
  <2> QED
    BY <2>1, <2>2 DEF Init, TypeOK
<1>2. WorkOK
  BY ConstantFacts DEF Init, WorkOK, Idle, Step
<1>3. TransferMade /\ CompletedHappened
  BY ConstantFacts DEF Init, TransferMade, CompletedHappened
<1> QED
  BY <1>1, <1>2, <1>3 DEF IInv

-----------------------------------------------------------------------------
(***************************************************************************)
(* Sessions.                                                               *)
(***************************************************************************)

\* A session takes its next step while charges may only become reversed.
LEMMA WorkAfter ==
    ASSUME IInv, NEW s \in Session,
           NEW r \in {Idle} \union
               [step: Step, on: Payment \union Withdrawal, verdict: Verdict \union {None}],
           work' = [work EXCEPT ![s] = r],
           charge' = charge,
           r.step \in {"verify", "record"} => r.on \in Payment,
           r.step = "record" => r.verdict \in Verdict /\ charge[r.on] \in Verdict,
           r.step \in {"debit", "enqueue"} => r.on \in Withdrawal
    PROVE  WorkOK' /\ work' \in WorkType
<1>1. work \in WorkType
  BY DEF IInv, TypeOK, WorkType
<1>2. work' \in WorkType
  BY <1>1 DEF WorkType
<1>3. ASSUME NEW t \in Session
      PROVE  /\ work'[t].step \in {"verify", "record"} => work'[t].on \in Payment
             /\ work'[t].step = "record" =>
                   work'[t].verdict \in Verdict /\ charge[work'[t].on] \in Verdict
             /\ work'[t].step \in {"debit", "enqueue"} => work'[t].on \in Withdrawal
  <2>1. CASE t = s
    BY <1>1, <2>1 DEF WorkType
  <2>2. CASE t # s
    <3>1. work'[t] = work[t]
      BY <1>1, <2>2 DEF WorkType
    <3> QED
      BY <3>1 DEF IInv, WorkOK
  <2> QED
    BY <2>1, <2>2
<1> QED
  BY <1>2, <1>3 DEF WorkOK

LEMMA RestAfter ==
    ASSUME IInv, NEW s \in Session, Rest(s), charge' = charge
    PROVE  WorkOK' /\ work' \in WorkType
<1>1. Idle.step \notin Step
  BY ConstantFacts DEF Idle
<1> QED
  BY <1>1, WorkAfter DEF Rest, Step

\* Only the session moves.
LEMMA WorkOnly ==
    ASSUME IInv, WorkOK', work' \in WorkType,
           UNCHANGED <<funds, funding, withdrawal, tasks>>
    PROVE  IInv'
<1>1. TypeOK'
  BY DEF IInv, TypeOK, WorkType, funding, tasks
<1>2. TransferMade' /\ CompletedHappened'
  BY DEF IInv, TransferMade, CompletedHappened, funding, tasks
<1> QED
  BY <1>1, <1>2 DEF IInv

LEMMA SessionInv ==
    ASSUME IInv, NEW s \in Session,
           \/ \E p \in Payment : ReceiveWebhook(s, p)
           \/ \E w \in Withdrawal : initiate_withdrawal(s, w)
           \/ verify_payment(s)
           \/ Abort(s)
    PROVE  IInv'
<1>1. ASSUME NEW p \in Payment, ReceiveWebhook(s, p)
      PROVE  IInv'
  <2> DEFINE r == [step |-> "verify", on |-> p, verdict |-> None]
  <2>1. /\ r \in [step: Step, on: Payment \union Withdrawal, verdict: Verdict \union {None}]
        /\ r.step = "verify" /\ r.on = p
    BY DEF Step
  <2>2. work' = [work EXCEPT ![s] = r] /\ UNCHANGED <<funds, funding, withdrawal, tasks>>
    BY <1>1 DEF ReceiveWebhook, Go
  <2>3. charge' = charge
    BY <2>2 DEF funding
  <2>4. WorkOK' /\ work' \in WorkType
    BY <2>1, <2>2, <2>3, WorkAfter
  <2> QED
    BY <2>2, <2>4, WorkOnly
<1>2. ASSUME NEW w \in Withdrawal, initiate_withdrawal(s, w)
      PROVE  IInv'
  <2> DEFINE r == [step |-> "debit", on |-> w, verdict |-> None]
  <2>1. /\ r \in [step: Step, on: Payment \union Withdrawal, verdict: Verdict \union {None}]
        /\ r.step = "debit" /\ r.on = w
    BY DEF Step
  <2>2. work' = [work EXCEPT ![s] = r] /\ UNCHANGED <<funds, funding, withdrawal, tasks>>
    BY <1>2 DEF initiate_withdrawal, Go
  <2>3. charge' = charge
    BY <2>2 DEF funding
  <2>4. WorkOK' /\ work' \in WorkType
    BY <2>1, <2>2, <2>3, WorkAfter
  <2> QED
    BY <2>2, <2>4, WorkOnly
<1>3. CASE verify_payment(s)
  <2> DEFINE p == work[s].on
             r == [step |-> "record", on |-> p, verdict |-> charge[p]]
  <2>1. p \in Payment /\ charge[p] \in Verdict
    BY <1>3 DEF verify_payment, IInv, WorkOK
  <2>2. /\ r \in [step: Step, on: Payment \union Withdrawal, verdict: Verdict \union {None}]
        /\ r.step = "record" /\ r.on = p /\ r.verdict = charge[p]
    BY <2>1 DEF Step
  <2>3. work' = [work EXCEPT ![s] = r] /\ UNCHANGED <<funds, funding, withdrawal, tasks>>
    BY <1>3 DEF verify_payment, Go
  <2>4. charge' = charge
    BY <2>3 DEF funding
  <2> HIDE DEF r
  <2>5. WorkOK' /\ work' \in WorkType
    BY <2>1, <2>2, <2>3, <2>4, WorkAfter
  <2> QED
    BY <2>3, <2>5, WorkOnly
<1>4. CASE Abort(s)
  <2>1. Rest(s) /\ charge' = charge /\ UNCHANGED <<funds, funding, withdrawal, tasks>>
    BY <1>4 DEF Abort, funding
  <2> QED
    BY <2>1, RestAfter, WorkOnly
<1> QED
  BY <1>1, <1>2, <1>3, <1>4

-----------------------------------------------------------------------------
(***************************************************************************)
(* Funding.                                                                *)
(***************************************************************************)

LEMMA initiate_fundingInv ==
    ASSUME IInv, NEW p \in Payment, initiate_funding(p)
    PROVE  IInv'
<1>1. /\ payment' = [payment EXCEPT ![p] = "PENDING"]
      /\ UNCHANGED <<funds, credits, charge, withdrawal, work, pc, transfers, retries, spent>>
  BY DEF initiate_funding, tasks
<1>2. TypeOK'
  BY <1>1 DEF IInv, TypeOK, PaymentStatus
<1>3. WorkOK' /\ TransferMade'
  BY <1>1 DEF IInv, WorkOK, TransferMade
<1>4. CompletedHappened'
  BY <1>1 DEF IInv, TypeOK, CompletedHappened
<1> QED
  BY <1>2, <1>3, <1>4 DEF IInv

\* A charge that succeeded stays a verdict: it can only be reversed.
LEMMA ChargeInv ==
    ASSUME IInv, NEW p \in Payment, NEW result \in {"success", "short", "reversed"},
           Charge(p, result)
    PROVE  IInv'
<1>1. /\ charge' = [charge EXCEPT ![p] = result]
      /\ UNCHANGED <<funds, payment, credits, withdrawal, work, pc, transfers, retries, spent>>
  BY DEF Charge, tasks
<1>2. charge \in [Payment -> {"open", "short"} \union Verdict]
  BY DEF IInv, TypeOK
<1>3. charge' \in [Payment -> {"open", "short"} \union Verdict]
  BY <1>1, <1>2 DEF Verdict
<1>4. \A q \in Payment : charge[q] \in Verdict => charge'[q] \in Verdict
  <2>1. charge[p] \in Verdict => result \in Verdict
    BY DEF Charge, Verdict
  <2> QED
    BY <1>1, <1>2, <2>1
<1>5. TypeOK'
  BY <1>1, <1>3 DEF IInv, TypeOK
<1>6. WorkOK'
  BY <1>1, <1>4 DEF IInv, WorkOK
<1>7. TransferMade' /\ CompletedHappened'
  BY <1>1, <1>4 DEF IInv, TransferMade, CompletedHappened
<1> QED
  BY <1>5, <1>6, <1>7 DEF IInv

LEMMA RecordPaymentInv ==
    ASSUME IInv, NEW s \in Session, RecordPayment(s)
    PROVE  IInv'
<1> DEFINE p == work[s].on
           verdict == work[s].verdict
           credit == IF verdict = "success" THEN 1 ELSE 0
<1>1. /\ p \in Payment /\ charge[p] \in Verdict
      /\ Owner[p] \in User /\ Amount[p] \in Nat \ {0}
  BY ConstantFacts DEF RecordPayment, update_payment_status, IInv, WorkOK
<1>2. /\ payment' = [payment EXCEPT ![p] = StatusOf(verdict)]
      /\ credits' = [credits EXCEPT ![p] = @ + credit]
      /\ funds' = [funds EXCEPT ![Owner[p]] = @ + credit * Amount[p]]
      /\ Rest(s)
      /\ UNCHANGED <<charge, withdrawal, pc, transfers, retries, spent>>
  BY DEF RecordPayment, update_payment_status, tasks
<1>3. credit \in Nat /\ credit * Amount[p] \in Nat
  BY <1>1
<1>4. /\ funds \in [User -> Nat] /\ credits \in [Payment -> Nat]
      /\ payment \in [Payment -> PaymentStatus \union {None}]
  BY DEF IInv, TypeOK
<1>5. funds' \in [User -> Nat]
  <2> DEFINE gain == credit * Amount[p]
  <2>1. gain \in Nat /\ funds' = [funds EXCEPT ![Owner[p]] = @ + gain]
    BY <1>2, <1>3
  <2> HIDE DEF gain
  <2> QED
    BY <1>1, <1>4, <2>1
<1>6. credits' \in [Payment -> Nat]
  <2> HIDE DEF credit
  <2> QED
    BY <1>1, <1>2, <1>3, <1>4
<1>7. payment' \in [Payment -> PaymentStatus \union {None}]
  BY <1>2, <1>4 DEF StatusOf, PaymentStatus
<1>8. WorkOK' /\ work' \in WorkType
  BY <1>2, RestAfter
<1>9. TypeOK'
  BY <1>2, <1>5, <1>6, <1>7, <1>8 DEF IInv, TypeOK, WorkType
<1>10. CompletedHappened'
  <2>1. ASSUME NEW q \in Payment, payment'[q] = "COMPLETED"
        PROVE  credits'[q] > 0 /\ charge[q] \in Verdict
    <3>1. CASE q = p
      <4>1. verdict = "success"
        BY <1>1, <1>2, <1>4, <2>1, <3>1 DEF StatusOf
      <4>2. credits'[p] = credits[p] + 1
        BY <1>1, <1>2, <1>4, <4>1
      <4> QED
        BY <1>1, <1>4, <3>1, <4>2
    <3>2. CASE q # p
      <4>1. payment'[q] = payment[q] /\ credits'[q] = credits[q]
        BY <1>2, <1>4, <3>2
      <4> QED
        BY <2>1, <4>1 DEF IInv, CompletedHappened
    <3> QED
      BY <3>1, <3>2
  <2> QED
    BY <1>2, <2>1 DEF IInv, CompletedHappened
<1>11. TransferMade'
  BY <1>2 DEF IInv, TransferMade
<1> QED
  BY <1>8, <1>9, <1>10, <1>11 DEF IInv

-----------------------------------------------------------------------------
(***************************************************************************)
(* Withdrawals.                                                            *)
(***************************************************************************)

LEMMA DebitInv ==
    ASSUME IInv, NEW s \in Session, Debit(s)
    PROVE  IInv'
<1> DEFINE w == work[s].on
           r == [step |-> "enqueue", on |-> w, verdict |-> None]
<1>1. /\ w \in Withdrawal /\ Owner[w] \in User /\ Amount[w] \in Nat
      /\ funds[Owner[w]] >= Amount[w]
  BY ConstantFacts DEF Debit, IInv, WorkOK
<1>2. /\ funds' = [funds EXCEPT ![Owner[w]] = @ - Amount[w]]
      /\ withdrawal' = [withdrawal EXCEPT ![w] = "PENDING"]
      /\ work' = [work EXCEPT ![s] = r]
      /\ UNCHANGED <<payment, credits, charge, pc, transfers, retries, spent>>
  BY DEF Debit, Go, funding, tasks
<1>3. /\ r \in [step: Step, on: Payment \union Withdrawal, verdict: Verdict \union {None}]
      /\ r.step = "enqueue" /\ r.on = w
  BY <1>1 DEF Step
<1>4. WorkOK' /\ work' \in WorkType
  <2> HIDE DEF r
  <2> QED
    BY <1>1, <1>2, <1>3, WorkAfter
<1>5. funds' \in [User -> Nat]
  <2>1. funds \in [User -> Nat]
    BY DEF IInv, TypeOK
  <2> QED
    BY <1>1, <1>2, <2>1
<1>6. TypeOK'
  BY <1>2, <1>4, <1>5 DEF IInv, TypeOK, WorkType, TransactionStatus
<1>7. TransferMade' /\ CompletedHappened'
  BY <1>2 DEF IInv, TypeOK, TransferMade, CompletedHappened
<1> QED
  BY <1>4, <1>6, <1>7 DEF IInv

LEMMA EnqueueInv ==
    ASSUME IInv, NEW s \in Session, Enqueue(s) \/ LoseMessage(s)
    PROVE  IInv'
<1>1. /\ Rest(s) /\ charge' = charge
      /\ pc' \in [Withdrawal -> {"unused", "queued", "transferred", "done", "lost"}]
      /\ \A w \in Withdrawal : pc'[w] = "transferred" => pc[w] = "transferred"
      /\ spent' \in [Event -> Nat]
      /\ UNCHANGED <<funds, payment, credits, withdrawal, transfers, retries>>
  <2>1. CASE Enqueue(s)
    BY <2>1 DEF Enqueue, funding, IInv, TypeOK
  <2>2. CASE LoseMessage(s)
    <3>1. spent' = [spent EXCEPT !["crash"] = @ + 1] /\ spent \in [Event -> Nat]
      BY <2>2 DEF LoseMessage, Spend, IInv, TypeOK
    <3>2. spent' \in [Event -> Nat]
      BY <3>1 DEF Event
    <3> QED
      BY <2>2, <3>2 DEF LoseMessage, funding, IInv, TypeOK
  <2> QED
    BY <2>1, <2>2
<1>2. WorkOK' /\ work' \in WorkType
  BY <1>1, RestAfter
<1>3. TypeOK'
  BY <1>1, <1>2 DEF IInv, TypeOK, WorkType
<1>4. TransferMade' /\ CompletedHappened'
  BY <1>1 DEF IInv, TransferMade, CompletedHappened
<1> QED
  BY <1>2, <1>3, <1>4 DEF IInv

-----------------------------------------------------------------------------
(***************************************************************************)
(* The transfer task.                                                      *)
(***************************************************************************)

\* A message moves on; transfers are only added.
LEMMA TaskAfter ==
    ASSUME IInv, NEW w \in Withdrawal,
           NEW l \in {"queued", "transferred", "done", "lost"}, Goto(w, l),
           NEW n \in {0, 1}, transfers' = [transfers EXCEPT ![w] = @ + n],
           l = "transferred" => transfers'[w] > 0,
           withdrawal' \in [Withdrawal -> TransactionStatus \union {None}],
           \A v \in Withdrawal : withdrawal'[v] = "COMPLETED" =>
               withdrawal[v] = "COMPLETED" \/ transfers[v] > 0,
           retries' \in [Withdrawal -> 0..MaxRetries],
           spent' \in [Event -> Nat],
           UNCHANGED <<funds, funding, work>>
    PROVE  IInv'
<1>1. transfers \in [Withdrawal -> Nat]
  BY DEF IInv, TypeOK
<1>2. /\ transfers' \in [Withdrawal -> Nat]
      /\ \A v \in Withdrawal : transfers'[v] >= transfers[v]
  BY <1>1
<1>3. /\ pc \in [Withdrawal -> {"unused", "queued", "transferred", "done", "lost"}]
      /\ pc' = [pc EXCEPT ![w] = l]
  BY DEF Goto, IInv, TypeOK
<1>4. pc' \in [Withdrawal -> {"unused", "queued", "transferred", "done", "lost"}]
  BY <1>3
<1>5. TypeOK'
  BY <1>2, <1>4 DEF IInv, TypeOK, funding
<1>6. WorkOK'
  BY DEF IInv, WorkOK, funding
<1>7. TransferMade'
  <2> SUFFICES ASSUME NEW v \in Withdrawal, pc'[v] = "transferred"
               PROVE  transfers'[v] > 0
    BY DEF TransferMade
  <2>1. CASE v = w
    BY <1>3, <2>1
  <2>2. CASE v # w
    BY <1>1, <1>2, <1>3, <2>2 DEF IInv, TransferMade
  <2> QED
    BY <2>1, <2>2
<1>8. CompletedHappened'
  <2>1. ASSUME NEW v \in Withdrawal, withdrawal'[v] = "COMPLETED"
        PROVE  transfers'[v] > 0
    <3>1. transfers[v] > 0
      BY <2>1 DEF IInv, CompletedHappened
    <3> QED
      BY <1>1, <1>2, <3>1
  <2> QED
    BY <2>1 DEF IInv, CompletedHappened, funding
<1> QED
  BY <1>5, <1>6, <1>7, <1>8 DEF IInv

LEMMA RetryFacts ==
    ASSUME IInv, NEW w \in Withdrawal, Retry(w)
    PROVE  /\ retries' \in [Withdrawal -> 0..MaxRetries]
           /\ \E l \in {"queued", "lost"} : Goto(w, l)
<1>1. MaxRetries \in Nat /\ retries \in [Withdrawal -> 0..MaxRetries]
  BY ConstantFacts DEF IInv, TypeOK
<1>2. retries' \in [Withdrawal -> 0..MaxRetries]
  BY <1>1 DEF Retry
<1>3. CASE retries[w] < MaxRetries
  BY <1>2, <1>3 DEF Retry
<1>4. CASE ~(retries[w] < MaxRetries)
  BY <1>2, <1>4 DEF Retry
<1> QED
  BY <1>3, <1>4

LEMMA TaskInv ==
    ASSUME IInv, NEW w \in Withdrawal,
           Transfer(w) \/ TransferFails(w) \/ CompletionFails(w) \/ Crash(w)
    PROVE  IInv'
<1>1. /\ transfers \in [Withdrawal -> Nat]
      /\ withdrawal \in [Withdrawal -> TransactionStatus \union {None}]
      /\ retries \in [Withdrawal -> 0..MaxRetries]
      /\ spent \in [Event -> Nat]
  BY DEF IInv, TypeOK
<1>2. UNCHANGED transfers => transfers' = [transfers EXCEPT ![w] = @ + 0]
  BY <1>1
<1>3. \A e \in Event, bound \in Nat : Spend(e, bound) => spent' \in [Event -> Nat]
  BY <1>1 DEF Spend
<1>4. "failure" \in Event /\ "crash" \in Event /\ MaxFailures \in Nat /\ MaxCrashes \in Nat
  BY ConstantFacts DEF Event
<1>5. CASE initiate_transfer(w)
  <2>1. transfers'[w] > 0
    BY <1>1, <1>5 DEF initiate_transfer
  <2>2. /\ transfers' = [transfers EXCEPT ![w] = @ + 1] /\ Goto(w, "transferred")
        /\ UNCHANGED <<funds, funding, work>> /\ UNCHANGED <<withdrawal, retries, spent>>
    BY <1>5 DEF initiate_transfer
  <2> QED
    BY <1>1, <2>1, <2>2, TaskAfter
<1>6. CASE CompleteWithdrawal(w)
  <2>1. /\ pc[w] = "transferred" /\ withdrawal' = [withdrawal EXCEPT ![w] = "COMPLETED"]
        /\ Goto(w, "done")
        /\ UNCHANGED <<funds, funding, work>> /\ UNCHANGED <<transfers, retries, spent>>
    BY <1>6 DEF CompleteWithdrawal
  <2>2. transfers[w] > 0
    BY <2>1 DEF IInv, TransferMade
  <2>3. withdrawal' \in [Withdrawal -> TransactionStatus \union {None}]
    BY <1>1, <2>1 DEF TransactionStatus
  <2>4. \A v \in Withdrawal : withdrawal'[v] = "COMPLETED" =>
            withdrawal[v] = "COMPLETED" \/ transfers[v] > 0
    BY <1>1, <2>1, <2>2
  <2> QED
    BY <1>1, <1>2, <2>1, <2>3, <2>4, TaskAfter
<1>7. CASE TransferFails(w)
  <2>1. PICK n \in {0, 1} : transfers' = [transfers EXCEPT ![w] = @ + n]
    BY <1>7 DEF TransferFails
  <2>2. PICK l \in {"queued", "lost"} : Goto(w, l)
    BY <1>7, RetryFacts DEF TransferFails
  <2>3. /\ retries' \in [Withdrawal -> 0..MaxRetries] /\ spent' \in [Event -> Nat]
        /\ UNCHANGED <<funds, funding, work>> /\ UNCHANGED withdrawal
    BY <1>3, <1>4, <1>7, RetryFacts DEF TransferFails, RefundRolledBack
  <2> QED
    BY <1>1, <2>1, <2>2, <2>3, TaskAfter
<1>8. CASE CompletionFails(w)
  <2>1. PICK l \in {"queued", "lost"} : Goto(w, l)
    BY <1>8, RetryFacts DEF CompletionFails
  <2>2. /\ retries' \in [Withdrawal -> 0..MaxRetries] /\ spent' \in [Event -> Nat]
        /\ UNCHANGED <<funds, funding, work>> /\ UNCHANGED <<withdrawal, transfers>>
    BY <1>3, <1>4, <1>8, RetryFacts DEF CompletionFails
  <2> QED
    BY <1>1, <1>2, <2>1, <2>2, TaskAfter
<1>9. CASE Crash(w)
  <2>1. /\ Goto(w, "lost") /\ spent' \in [Event -> Nat]
        /\ UNCHANGED <<funds, funding, work>> /\ UNCHANGED <<withdrawal, transfers, retries>>
    BY <1>3, <1>4, <1>9 DEF Crash
  <2> QED
    BY <1>1, <1>2, <2>1, TaskAfter
<1> QED
  BY <1>5, <1>6, <1>7, <1>8, <1>9 DEF Transfer

-----------------------------------------------------------------------------
LEMMA NextInv == IInv /\ [Next]_vars => IInv'
<1> SUFFICES ASSUME IInv, [Next]_vars
             PROVE  IInv'
  OBVIOUS
<1>1. ASSUME NEW p \in Payment,
             \/ initiate_funding(p)
             \/ \E result \in {"success", "short", "reversed"} : Charge(p, result)
      PROVE  IInv'
  BY <1>1, initiate_fundingInv, ChargeInv
<1>2. ASSUME NEW s \in Session,
             \/ \E p \in Payment : ReceiveWebhook(s, p)
             \/ Webhook(s) \/ Withdraw(s) \/ LoseMessage(s) \/ Abort(s)
             \/ \E w \in Withdrawal : initiate_withdrawal(s, w)
      PROVE  IInv'
  BY <1>2, SessionInv, RecordPaymentInv, DebitInv, EnqueueInv DEF Webhook, Withdraw
<1>3. ASSUME NEW w \in Withdrawal,
             Transfer(w) \/ TransferFails(w) \/ CompletionFails(w) \/ Crash(w)
      PROVE  IInv'
  BY <1>3, TaskInv
<1>4. CASE UNCHANGED vars
  BY <1>4 DEF vars, funding, tasks, IInv, TypeOK, WorkOK, TransferMade, CompletedHappened
<1> QED
  BY <1>1, <1>2, <1>3, <1>4 DEF Next

LEMMA Invariance == Spec => []IInv
<1> QED
  BY InitInv, NextInv, PTL DEF Spec

\* Every state is well typed: in particular no withdrawal overdraws a wallet, however
\* many requests debit it at a time.
THEOREM TypeCorrect == Spec => []TypeOK
<1>1. IInv => TypeOK
  BY DEF IInv
<1> QED
  BY <1>1, Invariance, PTL

\* A COMPLETED payment was charged and credited, and a COMPLETED withdrawal was
\* transferred, however webhooks and retries overtake one another.
THEOREM CompletedIsReal == Spec => []CompletedHappened
<1>1. IInv => CompletedHappened
  BY DEF IInv
<1> QED
  BY <1>1, Invariance, PTL
-----------------------------------------------------------------------------
(***************************************************************************)
(* The ledger: what each wallet was opened with, its credits and its       *)
(* debits add up to its balance.  A withdrawal is debited once because one *)
(* request is about it, and it is not yet there when it is debited.        *)
(***************************************************************************)

DebitedOnce ==
    \A s \in Session : work[s].step = "debit" =>
        /\ withdrawal[work[s].on] = None
        /\ \A t \in Session : work[t].step = "debit" /\ work[t].on = work[s].on => t = s

\* A transfer that is to be recorded has a row to record it in.
TransferHasRow == \A w \in Withdrawal : pc[w] = "transferred" => withdrawal[w] # None

LInv ==
    /\ DebitedOnce
    /\ TransferHasRow
    /\ LedgerExplains

LEMMA StatusIsSome == /\ None \notin TransactionStatus
                      /\ None # "PENDING" /\ None # "COMPLETED"
<1>1. None \notin Payment \union Withdrawal \union Step \union PaymentStatus
                  \union TransactionStatus
  BY Zenon, WalletAssumption
<1>2. "PENDING" \in TransactionStatus /\ "COMPLETED" \in TransactionStatus
  BY DEF TransactionStatus
<1> QED
  BY <1>1, <1>2

LEMMA InitLedger == Init => LInv
<1> SUFFICES ASSUME Init PROVE LInv
  OBVIOUS
<1>1. DebitedOnce /\ TransferHasRow
  <2>1. None # "debit"
    BY ConstantFacts DEF Step
  <2> QED
    BY <2>1 DEF Init, DebitedOnce, TransferHasRow, Idle
<1>2. ASSUME NEW u \in User
      PROVE  funds[u] = Opening[u] + Paid(u) - get_daily_withdrawal_total(u)
  <2> DEFINE Mine == {p \in Payment : Owner[p] = u}
             F == [p \in Payment |-> credits[p] * Amount[p]]
  <2>1. IsFiniteSet(Mine)
    BY FS_Subset, WalletAssumption
  <2>2. \A p \in Mine : F[p] = 0
    BY ConstantFacts DEF Init
  <2>3. Paid(u) = 0
    <3> HIDE DEF Mine, F
    <3>1. SumFunctionOnSet(F, Mine) = 0
      BY <2>1, <2>2, SumZero
    <3> QED
      BY <3>1 DEF Paid, Mine, F
  <2>4. Debits(u) = {}
    BY DEF Init, Debits
  <2>5. get_daily_withdrawal_total(u) = 0
    BY <2>4, SumEmpty DEF get_daily_withdrawal_total
  <2> QED
    BY <2>3, <2>5, ConstantFacts DEF Init
<1> QED
  BY <1>1, <1>2 DEF LInv, LedgerExplains

\* What a step is to the ledger: a debit, a payment recorded, or nothing.
LEMMA LedgerSteps ==
    ASSUME IInv, LInv, [Next]_vars
    PROVE  \/ \E s \in Session : Debit(s)
           \/ \E s \in Session : RecordPayment(s)
           \/ /\ UNCHANGED <<funds, credits>>
              /\ \A w \in Withdrawal : withdrawal'[w] # None <=> withdrawal[w] # None
<1>1. ASSUME NEW p \in Payment,
             \/ initiate_funding(p)
             \/ \E result \in {"success", "short", "reversed"} : Charge(p, result)
      PROVE  UNCHANGED <<funds, credits, withdrawal>>
  BY <1>1 DEF initiate_funding, Charge
<1>2. ASSUME NEW s \in Session,
             \/ \E p \in Payment : ReceiveWebhook(s, p)
             \/ Webhook(s) \/ Withdraw(s) \/ LoseMessage(s) \/ Abort(s)
             \/ \E w \in Withdrawal : initiate_withdrawal(s, w)
      PROVE  Debit(s) \/ RecordPayment(s) \/ UNCHANGED <<funds, credits, withdrawal>>
  BY <1>2 DEF ReceiveWebhook, Webhook, verify_payment, Withdraw, Enqueue, LoseMessage,
              Abort, initiate_withdrawal, funding
<1>3. ASSUME NEW w \in Withdrawal, initiate_transfer(w) \/ TransferFails(w)
                                   \/ CompletionFails(w) \/ Crash(w)
      PROVE  UNCHANGED <<funds, credits, withdrawal>>
  BY <1>3 DEF initiate_transfer, TransferFails, CompletionFails, Crash, funding,
              RefundRolledBack
<1>4. ASSUME NEW w \in Withdrawal, CompleteWithdrawal(w)
      PROVE  /\ UNCHANGED <<funds, credits>>
             /\ \A v \in Withdrawal : withdrawal'[v] # None <=> withdrawal[v] # None
  <2>1. withdrawal[w] # None
    BY <1>4 DEF CompleteWithdrawal, LInv, TransferHasRow
  <2>2. withdrawal' = [withdrawal EXCEPT ![w] = "COMPLETED"] /\ UNCHANGED <<funds, credits>>
    BY <1>4 DEF CompleteWithdrawal, funding
  <2>3. withdrawal \in [Withdrawal -> TransactionStatus \union {None}]
    BY DEF IInv, TypeOK
  <2> QED
    BY <2>1, <2>2, <2>3, StatusIsSome
<1>5. CASE UNCHANGED vars
  BY <1>5 DEF vars, funding
<1> QED
  BY <1>1, <1>2, <1>3, <1>4, <1>5 DEF Next, Transfer

LEMMA LedgerKept ==
    ASSUME LedgerExplains, UNCHANGED <<funds, credits>>,
           \A w \in Withdrawal : withdrawal'[w] # None <=> withdrawal[w] # None
    PROVE  LedgerExplains'
<1>1. \A u \in User : Debits(u)' = Debits(u)
  BY DEF Debits
<1>2. \A u \in User : get_daily_withdrawal_total(u)' = get_daily_withdrawal_total(u)
  BY <1>1 DEF get_daily_withdrawal_total
<1>3. \A u \in User : Paid(u)' = Paid(u)
  BY DEF Paid
<1> QED
  BY <1>2, <1>3 DEF LedgerExplains

\* The sums of a wallet are numbers.
LEMMA LedgerType ==
    ASSUME TypeOK, NEW u \in User
    PROVE  Paid(u) \in Nat /\ get_daily_withdrawal_total(u) \in Nat
<1> DEFINE Mine == {p \in Payment : Owner[p] = u}
           F == [p \in Payment |-> credits[p] * Amount[p]]
<1>1. IsFiniteSet(Mine) /\ IsFiniteSet(Debits(u))
  BY FS_Subset, WalletAssumption DEF Debits
<1>2. \A p \in Mine : F[p] \in Nat
  BY ConstantFacts DEF TypeOK
<1>3. \A w \in Debits(u) : Amount[w] \in Nat
  BY ConstantFacts DEF Debits
<1>4. SumFunctionOnSet(Amount, Debits(u)) \in Nat
  BY <1>1, <1>3, SumType
<1>5. SumFunctionOnSet(F, Mine) \in Nat
  <2> HIDE DEF F, Mine
  <2> QED
    BY <1>1, <1>2, SumType
<1> QED
  BY <1>4, <1>5 DEF Paid, get_daily_withdrawal_total

\* One debit: the amount leaves the wallet and joins its withdrawals.
LEMMA DebitLedger ==
    ASSUME IInv, LInv, NEW s \in Session, Debit(s)
    PROVE  LedgerExplains'
<1> DEFINE w == work[s].on
<1>1. /\ w \in Withdrawal /\ Owner[w] \in User /\ Amount[w] \in Nat
      /\ withdrawal[w] = None
  BY ConstantFacts DEF Debit, IInv, WorkOK, LInv, DebitedOnce
<1>2. /\ funds' = [funds EXCEPT ![Owner[w]] = @ - Amount[w]]
      /\ withdrawal' = [withdrawal EXCEPT ![w] = "PENDING"]
      /\ UNCHANGED credits
  BY DEF Debit, funding
<1>3. /\ funds \in [User -> Nat]
      /\ withdrawal \in [Withdrawal -> TransactionStatus \union {None}]
  BY DEF IInv, TypeOK
<1> HIDE DEF w
<1> SUFFICES ASSUME NEW u \in User
             PROVE  funds'[u] = Opening[u] + Paid(u)' - get_daily_withdrawal_total(u)'
  BY DEF LedgerExplains
<1>4. /\ funds[u] = Opening[u] + Paid(u) - get_daily_withdrawal_total(u)
      /\ Paid(u) \in Nat /\ get_daily_withdrawal_total(u) \in Nat /\ Opening[u] \in Nat
  BY LedgerType, ConstantFacts DEF LInv, LedgerExplains, IInv
<1>5. Paid(u)' = Paid(u)
  BY <1>2 DEF Paid
<1>6. CASE u = Owner[w]
  <2>1. Debits(u)' = Debits(u) \union {w} /\ w \notin Debits(u)
    BY <1>1, <1>2, <1>3, <1>6, StatusIsSome DEF Debits
  <2>2. IsFiniteSet(Debits(u)) /\ \A v \in Debits(u) \union {w} : Amount[v] \in Int
    BY <1>1, ConstantFacts, FS_Subset, WalletAssumption DEF Debits
  <2>3. get_daily_withdrawal_total(u)' = Amount[w] + get_daily_withdrawal_total(u)
    BY <2>1, <2>2, SumAdd DEF get_daily_withdrawal_total
  <2>4. funds'[u] = funds[u] - Amount[w]
    BY <1>2, <1>3, <1>6
  <2> QED
    BY <1>1, <1>4, <1>5, <2>3, <2>4
<1>7. CASE u # Owner[w]
  <2>1. Debits(u)' = Debits(u)
    BY <1>2, <1>3, <1>7 DEF Debits
  <2>2. funds'[u] = funds[u]
    BY <1>2, <1>3, <1>7
  <2> QED
    BY <1>4, <1>5, <2>1, <2>2 DEF get_daily_withdrawal_total
<1> QED
  BY <1>6, <1>7

\* One payment recorded: a charge that succeeded is credited and joins the deposits.
LEMMA CreditLedger ==
    ASSUME IInv, LInv, NEW s \in Session, RecordPayment(s)
    PROVE  LedgerExplains'
<1> DEFINE p == work[s].on
<1>1. p \in Payment /\ Owner[p] \in User /\ Amount[p] \in Nat
  BY ConstantFacts DEF RecordPayment, update_payment_status, IInv, WorkOK
<1>2. funds \in [User -> Nat] /\ credits \in [Payment -> Nat]
  BY DEF IInv, TypeOK
<1>3. CASE work[s].verdict # "success"
  <2>1. /\ funds' = [funds EXCEPT ![Owner[p]] = @ + 0 * Amount[p]]
        /\ credits' = [credits EXCEPT ![p] = @ + 0]
        /\ UNCHANGED withdrawal
    BY <1>3 DEF RecordPayment, update_payment_status
  <2>2. UNCHANGED <<funds, credits>>
    BY <1>1, <1>2, <2>1
  <2> QED
    BY <2>1, <2>2, LedgerKept DEF LInv
<1>4. CASE work[s].verdict = "success"
  <2>1. /\ funds' = [funds EXCEPT ![Owner[p]] = @ + 1 * Amount[p]]
        /\ credits' = [credits EXCEPT ![p] = @ + 1]
        /\ UNCHANGED withdrawal
    BY <1>4 DEF RecordPayment, update_payment_status
  <2> HIDE DEF p
  <2> SUFFICES ASSUME NEW u \in User
               PROVE  funds'[u] = Opening[u] + Paid(u)' - get_daily_withdrawal_total(u)'
    BY DEF LedgerExplains
  <2> DEFINE Mine == {q \in Payment : Owner[q] = u}
             F == [q \in Payment |-> credits[q] * Amount[q]]
             G == [q \in Payment |-> credits'[q] * Amount[q]]
  <2>2. /\ funds[u] = Opening[u] + Paid(u) - get_daily_withdrawal_total(u)
        /\ Paid(u) \in Nat /\ get_daily_withdrawal_total(u) \in Nat /\ Opening[u] \in Nat
    BY LedgerType, ConstantFacts DEF LInv, LedgerExplains, IInv
  <2>3. get_daily_withdrawal_total(u)' = get_daily_withdrawal_total(u)
    BY <2>1 DEF get_daily_withdrawal_total, Debits
  <2>4. Paid(u) = SumFunctionOnSet(F, Mine) /\ Paid(u)' = SumFunctionOnSet(G, Mine)
    BY DEF Paid
  <2>5. IsFiniteSet(Mine)
    BY FS_Subset, WalletAssumption
  <2>6. \A q \in Payment : q # p => F[q] = G[q]
    BY <1>2, <2>1
  <2>7. G[p] = F[p] + Amount[p]
    <3>1. credits'[p] = credits[p] + 1 /\ credits[p] \in Nat
      BY <1>1, <1>2, <2>1
    <3>2. (credits[p] + 1) * Amount[p] = credits[p] * Amount[p] + Amount[p]
      BY <1>1, <3>1
    <3> QED
      BY <1>1, <3>1, <3>2
  <2>8. \A q \in Payment : F[q] \in Int
    BY <1>2, ConstantFacts
  <2>9. \A q \in Payment : G[q] \in Int
    BY <1>1, <2>6, <2>7, <2>8
  <2>10. CASE u = Owner[p]
    <3>1. p \in Mine
      BY <1>1, <2>10
    <3> HIDE DEF F, G, Mine
    <3>2. Mine \subseteq Payment
      BY DEF Mine
    <3>3. SumFunctionOnSet(G, Mine) = SumFunctionOnSet(F, Mine) - F[p] + G[p]
      BY <2>5, <2>6, <2>8, <2>9, <3>1, <3>2, SumChange
    <3>4. funds'[u] = funds[u] + Amount[p]
      BY <1>1, <1>2, <2>1, <2>10
    <3>5. F[p] \in Int
      BY <1>1, <2>8
    <3> QED
      BY <1>1, <2>2, <2>3, <2>4, <2>7, <3>3, <3>4, <3>5
  <2>11. CASE u # Owner[p]
    <3>1. \A q \in Mine : F[q] = G[q]
      BY <2>6, <2>11
    <3> HIDE DEF F, G, Mine
    <3>2. SumFunctionOnSet(G, Mine) = SumFunctionOnSet(F, Mine)
      BY <2>5, <3>1, SumEqual
    <3>3. funds'[u] = funds[u]
      BY <1>2, <2>1, <2>11
    <3> QED
      BY <2>2, <2>3, <2>4, <3>2, <3>3
  <2> QED
    BY <2>10, <2>11
<1> QED
  BY <1>3, <1>4

\* A withdrawal has one request about it until it is debited.
LEMMA DebitedOnceKept ==
    ASSUME IInv, LInv, [Next]_vars
    PROVE  DebitedOnce'
<1>1. /\ work \in WorkType
      /\ withdrawal \in [Withdrawal -> TransactionStatus \union {None}]
  BY DEF IInv, TypeOK, WorkType
<1>2. None # "debit"
  BY ConstantFacts DEF Step
<1>3. ASSUME UNCHANGED withdrawal,
             \A t \in Session : work'[t].step = "debit" => work'[t] = work[t]
      PROVE  DebitedOnce'
  BY <1>3 DEF LInv, DebitedOnce
<1>4. ASSUME NEW s \in Session, NEW step, NEW on, NEW verdict, step # "debit",
             Go(s, step, on, verdict), UNCHANGED withdrawal
      PROVE  DebitedOnce'
  BY <1>1, <1>3, <1>4 DEF Go, WorkType
<1>5. ASSUME NEW s \in Session, Rest(s), UNCHANGED withdrawal
      PROVE  DebitedOnce'
  BY <1>1, <1>2, <1>3, <1>5 DEF Rest, WorkType, Idle
<1>6. ASSUME UNCHANGED work, UNCHANGED withdrawal
      PROVE  DebitedOnce'
  BY <1>3, <1>6
<1>7. ASSUME NEW p \in Payment,
             \/ initiate_funding(p)
             \/ \E result \in {"success", "short", "reversed"} : Charge(p, result)
      PROVE  DebitedOnce'
  BY <1>6, <1>7 DEF initiate_funding, Charge
<1>8. ASSUME NEW s \in Session,
             \/ \E p \in Payment : ReceiveWebhook(s, p)
             \/ Webhook(s) \/ Enqueue(s) \/ LoseMessage(s) \/ Abort(s)
      PROVE  DebitedOnce'
  BY <1>4, <1>5, <1>8 DEF ReceiveWebhook, Webhook, verify_payment, RecordPayment, Enqueue,
                          LoseMessage, Abort
<1>9. ASSUME NEW s \in Session, NEW w \in Withdrawal, initiate_withdrawal(s, w)
      PROVE  DebitedOnce'
  <2> DEFINE r == [step |-> "debit", on |-> w, verdict |-> None]
  <2>1. /\ withdrawal[w] = None /\ (\A t \in Session : work[t].on # w)
        /\ work' = [work EXCEPT ![s] = r]
        /\ UNCHANGED withdrawal
    BY <1>9 DEF initiate_withdrawal, Go
  <2>2. work'[s] = r /\ \A t \in Session : t # s => work'[t] = work[t]
    BY <1>1, <2>1 DEF WorkType
  <2>3. r.step = "debit" /\ r.on = w
    OBVIOUS
  <2> HIDE DEF r
  <2> QED
    BY <2>1, <2>2, <2>3 DEF LInv, DebitedOnce
<1>10. ASSUME NEW s \in Session, Debit(s)
       PROVE  DebitedOnce'
  <2> DEFINE r == [step |-> "enqueue", on |-> work[s].on, verdict |-> None]
  <2>1. /\ work' = [work EXCEPT ![s] = r]
        /\ withdrawal' = [withdrawal EXCEPT ![work[s].on] = "PENDING"]
        /\ work[s].step = "debit" /\ work[s].on \in Withdrawal
    BY <1>10 DEF Debit, Go, IInv, WorkOK
  <2>2. work'[s] = r /\ \A t \in Session : t # s => work'[t] = work[t]
    BY <1>1, <2>1 DEF WorkType
  <2>3. r.step # "debit"
    OBVIOUS
  <2> HIDE DEF r
  <2> SUFFICES ASSUME NEW q \in Session, work'[q].step = "debit"
               PROVE  /\ withdrawal'[work'[q].on] = None
                      /\ \A t \in Session :
                            work'[t].step = "debit" /\ work'[t].on = work'[q].on => t = q
    BY DEF DebitedOnce
  <2>4. q # s /\ work'[q] = work[q]
    BY <2>2, <2>3
  <2>5. work[q].on # work[s].on /\ withdrawal[work[q].on] = None
    BY <2>1, <2>4 DEF LInv, DebitedOnce
  <2>6. work[q].on \in Withdrawal
    BY <2>4 DEF IInv, WorkOK
  <2>7. withdrawal'[work[q].on] = None
    BY <1>1, <2>1, <2>5, <2>6
  <2>8. ASSUME NEW t \in Session, work'[t].step = "debit", work'[t].on = work'[q].on
        PROVE  t = q
    <3>1. work'[t] = work[t]
      BY <2>2, <2>3, <2>8
    <3> QED
      BY <2>4, <2>8, <3>1 DEF LInv, DebitedOnce
  <2> QED
    BY <2>4, <2>7, <2>8
<1>11. ASSUME NEW w \in Withdrawal, initiate_transfer(w) \/ TransferFails(w)
                                    \/ CompletionFails(w) \/ Crash(w)
       PROVE  DebitedOnce'
  BY <1>6, <1>11 DEF initiate_transfer, TransferFails, CompletionFails, Crash
<1>12. ASSUME NEW w \in Withdrawal, CompleteWithdrawal(w)
       PROVE  DebitedOnce'
  <2>1. /\ withdrawal[w] # None /\ UNCHANGED work
        /\ withdrawal' = [withdrawal EXCEPT ![w] = "COMPLETED"]
    BY <1>12 DEF CompleteWithdrawal, LInv, TransferHasRow
  <2>2. \A v \in Withdrawal : withdrawal[v] = None => withdrawal'[v] = None
    BY <1>1, <2>1
  <2>3. \A s \in Session : work[s].step = "debit" => work[s].on \in Withdrawal
    BY DEF IInv, WorkOK
  <2> QED
    BY <2>1, <2>2, <2>3 DEF LInv, DebitedOnce
<1>13. CASE UNCHANGED vars
  BY <1>6, <1>13 DEF vars
<1> QED
  BY <1>7, <1>8, <1>9, <1>10, <1>11, <1>12, <1>13 DEF Next, Withdraw, Transfer

LEMMA TransferHasRowKept ==
    ASSUME IInv, LInv, [Next]_vars
    PROVE  TransferHasRow'
<1>1. /\ withdrawal \in [Withdrawal -> TransactionStatus \union {None}]
      /\ pc \in [Withdrawal -> {"unused", "queued", "transferred", "done", "lost"}]
  BY DEF IInv, TypeOK
<1>2. ASSUME \A w \in Withdrawal : withdrawal[w] # None => withdrawal'[w] # None,
             \A w \in Withdrawal :
                 pc'[w] = "transferred" => pc[w] = "transferred" \/ withdrawal[w] # None
      PROVE  TransferHasRow'
  BY <1>2 DEF LInv, TransferHasRow
<1>3. ASSUME NEW p \in Payment,
             \/ initiate_funding(p)
             \/ \E result \in {"success", "short", "reversed"} : Charge(p, result)
      PROVE  TransferHasRow'
  BY <1>2, <1>3 DEF initiate_funding, Charge, tasks
<1>4. ASSUME NEW s \in Session,
             \/ \E p \in Payment : ReceiveWebhook(s, p)
             \/ Webhook(s) \/ LoseMessage(s) \/ Abort(s)
             \/ \E w \in Withdrawal : initiate_withdrawal(s, w)
      PROVE  TransferHasRow'
  BY <1>2, <1>4 DEF ReceiveWebhook, Webhook, verify_payment, RecordPayment, LoseMessage,
                    Abort, initiate_withdrawal, tasks
<1>5. ASSUME NEW s \in Session, Enqueue(s)
      PROVE  TransferHasRow'
  <2>1. pc' = [pc EXCEPT ![work[s].on] = "queued"] /\ UNCHANGED withdrawal
    BY <1>5 DEF Enqueue
  <2> QED
    BY <1>1, <1>2, <2>1
<1>6. ASSUME NEW s \in Session, Debit(s)
      PROVE  TransferHasRow'
  <2>1. withdrawal' = [withdrawal EXCEPT ![work[s].on] = "PENDING"] /\ UNCHANGED pc
    BY <1>6 DEF Debit, tasks
  <2> QED
    BY <1>1, <1>2, <2>1, StatusIsSome
<1>7. ASSUME NEW w \in Withdrawal, initiate_transfer(w)
      PROVE  TransferHasRow'
  <2>1. /\ withdrawal[w] = "PENDING" /\ UNCHANGED withdrawal
        /\ pc' = [pc EXCEPT ![w] = "transferred"]
    BY <1>7 DEF initiate_transfer, Pending, Goto
  <2> QED
    BY <1>1, <1>2, <2>1, StatusIsSome
<1>8. ASSUME NEW w \in Withdrawal, TransferFails(w) \/ CompletionFails(w) \/ Crash(w)
      PROVE  TransferHasRow'
  <2>1. UNCHANGED withdrawal
    BY <1>8 DEF TransferFails, CompletionFails, Crash
  <2>2. PICK l \in {"queued", "lost"} : Goto(w, l)
    BY <1>8, RetryFacts DEF TransferFails, CompletionFails, Crash
  <2> QED
    BY <1>1, <1>2, <2>1, <2>2 DEF Goto
<1>9. ASSUME NEW w \in Withdrawal, CompleteWithdrawal(w)
      PROVE  TransferHasRow'
  <2>1. /\ withdrawal' = [withdrawal EXCEPT ![w] = "COMPLETED"]
        /\ pc' = [pc EXCEPT ![w] = "done"]
    BY <1>9 DEF CompleteWithdrawal, Goto
  <2> QED
    BY <1>1, <1>2, <2>1, StatusIsSome
<1>10. CASE UNCHANGED vars
  BY <1>2, <1>10 DEF vars, tasks
<1> QED
  BY <1>3, <1>4, <1>5, <1>6, <1>7, <1>8, <1>9, <1>10 DEF Next, Withdraw, Transfer

\* The transactions of every wallet explain its balance: no interleaving of webhooks,
\* withdrawals, failed transfers and retries loses a credit or a debit, and the
\* refund that is rolled back leaves nothing behind.
THEOREM LedgerIsTrue == Spec => []LedgerExplains
<1>1. IInv /\ LInv /\ [Next]_vars => LInv'
  <2> SUFFICES ASSUME IInv, LInv, [Next]_vars
               PROVE  LInv'
    OBVIOUS
  <2>1. LedgerExplains'
    BY LedgerSteps, LedgerKept, DebitLedger, CreditLedger DEF LInv
  <2> QED
    BY <2>1, DebitedOnceKept, TransferHasRowKept DEF LInv
<1>2. LInv => LedgerExplains
  BY DEF LInv
<1> QED
  BY <1>1, <1>2, InitLedger, Invariance, PTL DEF Spec
=============================================================================
