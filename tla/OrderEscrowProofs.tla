-------------------------- MODULE OrderEscrowProofs --------------------------
(***************************************************************************)
(* Theorems of OrderEscrow, for any orders, users, requests and messages,  *)
(* and any number of failures, crashes and lost claims.                    *)
(***************************************************************************)
EXTENDS OrderEscrow, Sums

WorkType ==
    [Session -> {NoWork} \union
        [op: Operation, order: Order, dispute: Dispute \union {None},
         outcome: Outcome \union {None}]]

\* What a session has read names rows that exist, and an outcome that its
\* operation pays.
WorkOK ==
    \A s \in Session :
        /\ work[s].op \in Operation => work[s].order \in Order
        /\ work[s].op = "confirm" => work[s].outcome = "RELEASED"
        /\ work[s].op = "cancel" => work[s].outcome = "REFUNDED"
        /\ work[s].op = "resolve" => work[s].outcome \in Outcome
        /\ work[s].op \in {"review", "resolve"} =>
              work[s].dispute \in Dispute /\ dispute[work[s].dispute] # NoDispute

\* A message that is queued or has run names an escrow.
TargetOK == \A t \in Task : pc[t] # "unused" => target[t] \in Order

\* An escrow whose claim is still open is HOLDING: nobody can change it.
ClaimOK == \A o \in Order : claim_lock[o] # None => escrow[o] = "HOLDING"

IInv ==
    /\ TypeOK
    /\ WorkOK
    /\ TargetOK
    /\ ClaimOK
    /\ HeldUntilPaid
    /\ ClosedIsPaid

-----------------------------------------------------------------------------
LEMMA NoneFacts ==
    /\ None \notin Order /\ None \notin Dispute /\ None \notin Task
    /\ None \notin Operation /\ None \notin DisputeStatus
<1>1. None \notin Order \union Dispute \union Task \union Operation \union DisputeStatus
  BY Zenon, OrderAssumption
<1> QED
  BY <1>1

LEMMA AmountFacts ==
    ASSUME NEW o \in Order
    PROVE  /\ Buyer[o] \in User /\ Seller[o] \in User /\ Buyer[o] # Seller[o]
           /\ Amount[o] \in Nat /\ Commission[o] \in Nat /\ Commission[o] <= Amount[o]
BY OrderAssumption

LEMMA InitInv == Init => IInv
<1> SUFFICES ASSUME Init PROVE IInv
  OBVIOUS
<1>1. TypeOK
  <2>1. wallet \in [User -> [available: Nat, escrow: Nat]]
    BY OrderAssumption DEF Init
  <2>2. retries \in [Task -> 0..MaxRetries]
    BY OrderAssumption DEF Init
  <2> QED
    BY <2>1, <2>2 DEF Init, TypeOK, OrderStatus, EscrowStatus
<1>2. WorkOK /\ TargetOK
  BY NoneFacts DEF Init, WorkOK, TargetOK, NoWork, Operation
<1>3. ClaimOK /\ HeldUntilPaid /\ ClosedIsPaid
  BY DEF Init, ClaimOK, HeldUntilPaid, ClosedIsPaid, PaymentsOf, Outcome
<1> QED
  BY <1>1, <1>2, <1>3 DEF IInv

-----------------------------------------------------------------------------
(***************************************************************************)
(* Paying an escrow out.                                                   *)
(***************************************************************************)

LEMMA PayOutFacts ==
    ASSUME IInv, NEW o \in Order, NEW x \in Outcome, PayOut(o, x)
    PROVE  /\ wallet' \in [User -> [available: Nat, escrow: Nat]]
           /\ payouts' \in [Order -> [Outcome -> Nat]]
           /\ escrow' \in [Order -> EscrowStatus]
           /\ HeldUntilPaid'
           /\ payouts'[o][x] > 0
           /\ \A p \in Order, y \in Outcome : payouts'[p][y] >= payouts[p][y]
           /\ \A p \in Order : claim_lock[p] # None => escrow'[p] = "HOLDING"
<1>1. wallet' \in [User -> [available: Nat, escrow: Nat]]
  <2>1. wallet \in [User -> [available: Nat, escrow: Nat]]
    BY DEF IInv, TypeOK
  <2>2. Payment(o, x) \in Nat /\ wallet[Buyer[o]].escrow >= Amount[o]
    BY AmountFacts DEF Payment, PayOut, SetEscrow, Covered
  <2>3. ASSUME NEW u \in User
        PROVE  /\ wallet[u].available + (IF u = Payee(o, x) THEN Payment(o, x) ELSE 0) \in Nat
               /\ wallet[u].escrow - (IF u = Buyer[o] THEN Amount[o] ELSE 0) \in Nat
    BY <2>1, <2>2, AmountFacts
  <2> QED
    BY <2>3 DEF PayOut, SetEscrow, Paid
<1>2. payouts \in [Order -> [Outcome -> Nat]] /\ escrow \in [Order -> EscrowStatus]
  BY DEF IInv, TypeOK
<1>3. payouts' \in [Order -> [Outcome -> Nat]]
  BY <1>2 DEF PayOut, SetEscrow
<1>4. escrow' = [escrow EXCEPT ![o] = x] /\ claim_lock[o] = None
  BY DEF PayOut, SetEscrow
<1>5. escrow' \in [Order -> EscrowStatus]
  BY <1>2, <1>4 DEF EscrowStatus
<1>6. payouts'[o][x] = payouts[o][x] + 1
  BY <1>2 DEF PayOut, SetEscrow
<1>7. \A p \in Order, y \in Outcome : payouts'[p][y] >= payouts[p][y]
  BY <1>2 DEF PayOut, SetEscrow
<1>8. payouts'[o][x] > 0
  BY <1>2, <1>6
<1>9. \A p \in Order : claim_lock[p] # None => escrow'[p] = "HOLDING"
  BY <1>2, <1>4 DEF IInv, ClaimOK
<1>10. HeldUntilPaid'
  <2> SUFFICES ASSUME NEW p \in Order
               PROVE  escrow'[p] \in {"HOLDING", "PROCESSING"} <=> PaymentsOf(p)' = 0
    BY DEF HeldUntilPaid
  <2>1. CASE p = o
    <3>1. PaymentsOf(o)' > 0
      BY <1>3, <1>8 DEF PaymentsOf, Outcome
    <3>2. escrow'[o] = x
      BY <1>2, <1>4
    <3> QED
      BY <2>1, <3>1, <3>2 DEF Outcome
  <2>2. CASE p # o
    <3>1. escrow'[p] = escrow[p] /\ payouts'[p] = payouts[p]
      BY <1>2, <1>4, <2>2 DEF PayOut, SetEscrow
    <3> QED
      BY <3>1 DEF IInv, HeldUntilPaid, PaymentsOf
  <2> QED
    BY <2>1, <2>2
<1> QED
  BY <1>1, <1>3, <1>5, <1>7, <1>8, <1>9, <1>10

\* An order that takes a new status after a payment, and the others.
LEMMA ClosedAfter ==
    ASSUME IInv, NEW o \in Order, NEW x \in Outcome, PayOut(o, x),
           NEW to \in OrderStatus, order' = [order EXCEPT ![o] = to],
           to = "COMPLETED" => x = "RELEASED",
           to \in {"CANCELLED", "REFUNDED"} => x = "REFUNDED"
    PROVE  ClosedIsPaid' /\ order' \in [Order -> OrderStatus]
<1>1. order \in [Order -> OrderStatus]
  BY DEF IInv, TypeOK
<1>2. order' \in [Order -> OrderStatus]
  BY <1>1
<1>3. /\ \A p \in Order, y \in Outcome : payouts'[p][y] >= payouts[p][y]
      /\ payouts'[o][x] > 0
      /\ payouts \in [Order -> [Outcome -> Nat]]
      /\ payouts' \in [Order -> [Outcome -> Nat]]
  BY PayOutFacts DEF IInv, TypeOK
<1>4. ASSUME NEW p \in Order
      PROVE  /\ order'[p] = "COMPLETED" => payouts'[p]["RELEASED"] > 0
             /\ order'[p] \in {"CANCELLED", "REFUNDED"} => payouts'[p]["REFUNDED"] > 0
  <2>1. CASE p = o
    BY <1>1, <1>3, <2>1
  <2>2. CASE p # o
    <3>1. order'[p] = order[p]
      BY <1>1, <2>2
    <3>2. /\ order[p] = "COMPLETED" => payouts[p]["RELEASED"] > 0
          /\ order[p] \in {"CANCELLED", "REFUNDED"} => payouts[p]["REFUNDED"] > 0
      BY DEF IInv, ClosedIsPaid
    <3>3. /\ payouts'[p]["RELEASED"] >= payouts[p]["RELEASED"]
          /\ payouts'[p]["REFUNDED"] >= payouts[p]["REFUNDED"]
          /\ payouts[p]["RELEASED"] \in Nat /\ payouts'[p]["RELEASED"] \in Nat
          /\ payouts[p]["REFUNDED"] \in Nat /\ payouts'[p]["REFUNDED"] \in Nat
      BY <1>3 DEF Outcome
    <3> QED
      BY <3>1, <3>2, <3>3
  <2> QED
    BY <2>1, <2>2
<1> QED
  BY <1>2, <1>4 DEF ClosedIsPaid

-----------------------------------------------------------------------------
(***************************************************************************)
(* Requests.                                                               *)
(***************************************************************************)

LEMMA BeginInv ==
    ASSUME IInv, NEW s \in Session, NEW op \in Operation, NEW o \in Order,
           NEW d \in Dispute \union {None}, NEW x \in Outcome \union {None},
           Begin(s, op, o, d, x),
           op = "confirm" => x = "RELEASED",
           op = "cancel" => x = "REFUNDED",
           op = "resolve" => x \in Outcome,
           op \in {"review", "resolve"} => d \in Dispute /\ dispute[d] # NoDispute
    PROVE  IInv'
<1> DEFINE call == [op |-> op, order |-> o, dispute |-> d, outcome |-> x]
<1>1. work' = [work EXCEPT ![s] = call] /\ UNCHANGED <<db, clock, tasks>>
  BY DEF Begin
<1>2. TypeOK'
  BY <1>1 DEF IInv, TypeOK, db, clock, tasks
<1>3. WorkOK'
  <2> SUFFICES ASSUME NEW q \in Session
               PROVE  /\ work'[q].op \in Operation => work'[q].order \in Order
                      /\ work'[q].op = "confirm" => work'[q].outcome = "RELEASED"
                      /\ work'[q].op = "cancel" => work'[q].outcome = "REFUNDED"
                      /\ work'[q].op = "resolve" => work'[q].outcome \in Outcome
                      /\ work'[q].op \in {"review", "resolve"} =>
                            /\ work'[q].dispute \in Dispute
                            /\ dispute[work'[q].dispute] # NoDispute
    BY <1>1 DEF WorkOK, db
  <2>1. CASE q = s
    BY <1>1, <2>1 DEF IInv, TypeOK
  <2>2. CASE q # s
    BY <1>1, <2>2 DEF IInv, TypeOK, WorkOK
  <2> QED
    BY <2>1, <2>2
<1>4. TargetOK' /\ ClaimOK' /\ HeldUntilPaid' /\ ClosedIsPaid'
  BY <1>1 DEF IInv, TargetOK, ClaimOK, HeldUntilPaid, ClosedIsPaid, PaymentsOf, db, tasks
<1> QED
  BY <1>2, <1>3, <1>4 DEF IInv

\* A dispute with a status has an order.
LEMMA DisputeType ==
    ASSUME IInv, NEW d \in Dispute, dispute[d].status \in DisputeStatus
    PROVE  dispute[d] # NoDispute /\ dispute[d].order \in Order
BY NoneFacts DEF IInv, TypeOK, NoDispute

LEMMA ReadInv ==
    ASSUME IInv, NEW s \in Session, Read(s)
    PROVE  IInv'
<1>1. ASSUME NEW o \in Order, ship_order(s, o)
      PROVE  IInv'
  BY <1>1, BeginInv DEF ship_order, Operation
<1>2. ASSUME NEW o \in Order, confirm_delivery(s, o)
      PROVE  IInv'
  BY <1>2, BeginInv DEF confirm_delivery, Operation, Outcome
<1>3. ASSUME NEW o \in Order, cancel_order(s, o) \/ process_overdue_shipments(s, o)
      PROVE  IInv'
  BY <1>3, BeginInv DEF cancel_order, process_overdue_shipments, Operation, Outcome
<1>4. ASSUME NEW o \in Order, raise_dispute(s, o)
      PROVE  IInv'
  BY <1>4, BeginInv DEF raise_dispute, Operation
<1>5. ASSUME NEW d \in Dispute, mark_under_review(s, d)
      PROVE  IInv'
  <2>1. dispute[d] # NoDispute /\ dispute[d].order \in Order
    BY <1>5, DisputeType DEF mark_under_review, DisputeStatus
  <2> QED
    BY <1>5, <2>1, BeginInv DEF mark_under_review, Operation
<1>6. ASSUME NEW d \in Dispute, NEW x \in Outcome, resolve_dispute(s, d, x)
      PROVE  IInv'
  <2>1. dispute[d] # NoDispute /\ dispute[d].order \in Order
    BY <1>6, DisputeType DEF resolve_dispute, DisputeStatus
  <2> QED
    BY <1>6, <2>1, BeginInv DEF resolve_dispute, Operation
<1> QED
  BY <1>1, <1>2, <1>3, <1>4, <1>5, <1>6 DEF Read
-----------------------------------------------------------------------------
\* What a session that finishes leaves behind.
LEMMA FinishFacts ==
    ASSUME IInv, NEW s \in Session, NEW op \in Operation, Finish(s, op)
    PROVE  /\ work[s].order \in Order
           /\ work' = [work EXCEPT ![s] = NoWork]
           /\ UNCHANGED <<overdue, release_due, claim_lock, pc, target, retries, spent>>
BY DEF IInv, WorkOK, Finish, clock, tasks

\* Sessions only lose work, and dispute rows stay, when one finishes or aborts.
LEMMA WorkAfter ==
    ASSUME IInv, NEW s \in Session, work' = [work EXCEPT ![s] = NoWork],
           \A d \in Dispute : dispute[d] # NoDispute => dispute'[d] # NoDispute
    PROVE  WorkOK' /\ work' \in WorkType
<1>1. work' \in WorkType
  BY DEF IInv, TypeOK, WorkType
<1>2. ASSUME NEW q \in Session
      PROVE  /\ work'[q].op \in Operation => work'[q].order \in Order
             /\ work'[q].op = "confirm" => work'[q].outcome = "RELEASED"
             /\ work'[q].op = "cancel" => work'[q].outcome = "REFUNDED"
             /\ work'[q].op = "resolve" => work'[q].outcome \in Outcome
             /\ work'[q].op \in {"review", "resolve"} =>
                   /\ work'[q].dispute \in Dispute
                   /\ dispute'[work'[q].dispute] # NoDispute
  <2>1. CASE q = s
    BY <2>1, NoneFacts DEF IInv, TypeOK, NoWork, Operation
  <2>2. CASE q # s
    BY <2>2 DEF IInv, TypeOK, WorkOK
  <2> QED
    BY <2>1, <2>2
<1> QED
  BY <1>1, <1>2 DEF WorkOK

LEMMA DisputeAfter ==
    ASSUME IInv, NEW d \in Dispute, dispute[d] # NoDispute,
           NEW to \in DisputeStatus, SetDispute(d, to)
    PROVE  /\ dispute' \in [Dispute -> {NoDispute} \union [order: Order, status: DisputeStatus]]
           /\ \A e \in Dispute : dispute[e] # NoDispute => dispute'[e] # NoDispute
<1>1. dispute \in [Dispute -> {NoDispute} \union [order: Order, status: DisputeStatus]]
  BY DEF IInv, TypeOK
<1>2. dispute[d].order \in Order
  BY <1>1
<1>3. [order |-> dispute[d].order, status |-> to] # NoDispute
  BY NoneFacts DEF NoDispute
<1> QED
  BY <1>1, <1>2, <1>3 DEF SetDispute

\* A request that changes the order or the dispute and pays nothing.
LEMMA ShipInv ==
    ASSUME IInv, NEW s \in Session, Ship(s)
    PROVE  IInv'
<1>1. /\ work[s].order \in Order
      /\ work' = [work EXCEPT ![s] = NoWork]
      /\ UNCHANGED <<overdue, release_due, claim_lock, pc, target, retries, spent>>
  BY FinishFacts DEF Ship, Operation
<1>2. /\ order' = [order EXCEPT ![work[s].order] = "SHIPPED"]
      /\ UNCHANGED <<escrow, dispute, wallet, payouts>>
  BY DEF Ship, SetOrder
<1>3. WorkOK' /\ work' \in WorkType
  BY <1>1, <1>2, WorkAfter
<1>4. order' \in [Order -> OrderStatus]
  BY <1>1, <1>2 DEF IInv, TypeOK, OrderStatus
<1>5. TypeOK'
  BY <1>1, <1>2, <1>3, <1>4 DEF IInv, TypeOK, WorkType
<1>6. TargetOK' /\ ClaimOK' /\ HeldUntilPaid'
  BY <1>1, <1>2 DEF IInv, TargetOK, ClaimOK, HeldUntilPaid, PaymentsOf
<1>7. ClosedIsPaid'
  BY <1>1, <1>2 DEF IInv, TypeOK, ClosedIsPaid
<1> QED
  BY <1>3, <1>5, <1>6, <1>7 DEF IInv

LEMMA RaiseDisputeInv ==
    ASSUME IInv, NEW s \in Session, RaiseDispute(s)
    PROVE  IInv'
<1>1. /\ work[s].order \in Order
      /\ work' = [work EXCEPT ![s] = NoWork]
      /\ UNCHANGED <<overdue, release_due, claim_lock, pc, target, retries, spent>>
  BY FinishFacts DEF RaiseDispute, Operation
<1>2. /\ order' = [order EXCEPT ![work[s].order] = "DISPUTED"]
      /\ UNCHANGED <<escrow, wallet, payouts>>
  BY DEF RaiseDispute, SetOrder
<1>3. /\ dispute' \in [Dispute -> {NoDispute} \union [order: Order, status: DisputeStatus]]
      /\ \A e \in Dispute : dispute[e] # NoDispute => dispute'[e] # NoDispute
  <2> DEFINE row == [order |-> work[s].order, status |-> "OPEN"]
  <2>1. PICK d \in Dispute : dispute' = [dispute EXCEPT ![d] = row]
    BY DEF RaiseDispute
  <2>2. row # NoDispute
    BY NoneFacts DEF NoDispute, DisputeStatus
  <2> QED
    BY <1>1, <2>1, <2>2 DEF IInv, TypeOK, DisputeStatus
<1>4. WorkOK' /\ work' \in WorkType
  BY <1>1, <1>3, WorkAfter
<1>5. order' \in [Order -> OrderStatus]
  BY <1>1, <1>2 DEF IInv, TypeOK, OrderStatus
<1>6. TypeOK'
  BY <1>1, <1>2, <1>3, <1>4, <1>5 DEF IInv, TypeOK, WorkType
<1>7. TargetOK' /\ ClaimOK' /\ HeldUntilPaid'
  BY <1>1, <1>2 DEF IInv, TargetOK, ClaimOK, HeldUntilPaid, PaymentsOf
<1>8. ClosedIsPaid'
  BY <1>1, <1>2 DEF IInv, TypeOK, ClosedIsPaid
<1> QED
  BY <1>4, <1>6, <1>7, <1>8 DEF IInv

\* Only the dispute changes, and the session that may have asked for it.
LEMMA DisputeOnly ==
    ASSUME IInv, NEW d \in Dispute, dispute[d] # NoDispute,
           NEW to \in DisputeStatus, SetDispute(d, to),
           \/ UNCHANGED work
           \/ \E s \in Session : work' = [work EXCEPT ![s] = NoWork],
           UNCHANGED <<order, escrow, wallet, payouts, clock, tasks>>
    PROVE  IInv'
<1>1. /\ dispute' \in [Dispute -> {NoDispute} \union [order: Order, status: DisputeStatus]]
      /\ \A e \in Dispute : dispute[e] # NoDispute => dispute'[e] # NoDispute
  BY DisputeAfter
<1>2. WorkOK' /\ work' \in WorkType
  <2>1. CASE UNCHANGED work
    BY <1>1, <2>1 DEF IInv, TypeOK, WorkOK, WorkType
  <2>2. ASSUME NEW s \in Session, work' = [work EXCEPT ![s] = NoWork]
        PROVE  WorkOK' /\ work' \in WorkType
    BY <1>1, <2>2, WorkAfter
  <2> QED
    BY <2>1, <2>2
<1>3. TypeOK'
  BY <1>1, <1>2 DEF IInv, TypeOK, WorkType, clock, tasks
<1>4. TargetOK' /\ ClaimOK' /\ HeldUntilPaid' /\ ClosedIsPaid'
  BY DEF IInv, TargetOK, ClaimOK, HeldUntilPaid, ClosedIsPaid, PaymentsOf, tasks
<1> QED
  BY <1>2, <1>3, <1>4 DEF IInv
-----------------------------------------------------------------------------
\* A session pays the escrow it has read and closes the order.
LEMMA PaidInv ==
    ASSUME IInv, NEW s \in Session, NEW op \in Operation, Finish(s, op),
           NEW x \in Outcome, PayOut(work[s].order, x),
           NEW to \in OrderStatus, SetOrder(s, to),
           to = "COMPLETED" => x = "RELEASED",
           to \in {"CANCELLED", "REFUNDED"} => x = "REFUNDED",
           dispute' \in [Dispute -> {NoDispute} \union [order: Order, status: DisputeStatus]],
           \A e \in Dispute : dispute[e] # NoDispute => dispute'[e] # NoDispute
    PROVE  IInv'
<1>1. /\ work[s].order \in Order
      /\ work' = [work EXCEPT ![s] = NoWork]
      /\ UNCHANGED <<overdue, release_due, claim_lock, pc, target, retries, spent>>
  BY FinishFacts
<1>2. /\ wallet' \in [User -> [available: Nat, escrow: Nat]]
      /\ payouts' \in [Order -> [Outcome -> Nat]]
      /\ escrow' \in [Order -> EscrowStatus]
      /\ HeldUntilPaid'
      /\ \A p \in Order : claim_lock[p] # None => escrow'[p] = "HOLDING"
  BY <1>1, PayOutFacts
<1>3. order' = [order EXCEPT ![work[s].order] = to]
  BY DEF SetOrder
<1>4. ClosedIsPaid' /\ order' \in [Order -> OrderStatus]
  BY <1>1, <1>3, ClosedAfter
<1>5. WorkOK' /\ work' \in WorkType
  BY <1>1, WorkAfter
<1>6. TypeOK'
  BY <1>1, <1>2, <1>4, <1>5 DEF IInv, TypeOK, WorkType
<1>7. TargetOK' /\ ClaimOK'
  BY <1>1, <1>2 DEF IInv, TargetOK, ClaimOK
<1> QED
  BY <1>2, <1>4, <1>5, <1>6, <1>7 DEF IInv

LEMMA ConfirmDeliveryInv ==
    ASSUME IInv, NEW s \in Session, ConfirmDelivery(s)
    PROVE  IInv'
<1>1. /\ work[s].outcome = "RELEASED" /\ Finish(s, "confirm") /\ UNCHANGED dispute
      /\ PayOut(work[s].order, work[s].outcome) /\ SetOrder(s, "COMPLETED")
  BY DEF ConfirmDelivery, Finish, IInv, WorkOK
<1>2. "RELEASED" \in Outcome /\ "COMPLETED" \in OrderStatus /\ "confirm" \in Operation
  BY DEF Outcome, OrderStatus, Operation
<1>3. dispute' \in [Dispute -> {NoDispute} \union [order: Order, status: DisputeStatus]]
  BY <1>1 DEF IInv, TypeOK
<1> QED
  BY <1>1, <1>2, <1>3, PaidInv

LEMMA CancelOrderInv ==
    ASSUME IInv, NEW s \in Session, CancelOrder(s)
    PROVE  IInv'
<1>1. /\ work[s].outcome = "REFUNDED" /\ Finish(s, "cancel") /\ UNCHANGED dispute
      /\ PayOut(work[s].order, work[s].outcome) /\ SetOrder(s, "CANCELLED")
  BY DEF CancelOrder, Finish, IInv, WorkOK
<1>2. "REFUNDED" \in Outcome /\ "CANCELLED" \in OrderStatus /\ "cancel" \in Operation
  BY DEF Outcome, OrderStatus, Operation
<1>3. dispute' \in [Dispute -> {NoDispute} \union [order: Order, status: DisputeStatus]]
  BY <1>1 DEF IInv, TypeOK
<1> QED
  BY <1>1, <1>2, <1>3, PaidInv

LEMMA ResolveDisputeInv ==
    ASSUME IInv, NEW s \in Session, ResolveDispute(s)
    PROVE  IInv'
<1> DEFINE x == work[s].outcome
           d == work[s].dispute
           to == IF x = "RELEASED" THEN "COMPLETED" ELSE "REFUNDED"
<1>1. /\ x \in Outcome /\ d \in Dispute /\ dispute[d] # NoDispute
      /\ Finish(s, "resolve") /\ PayOut(work[s].order, x)
      /\ SetOrder(s, to) /\ SetDispute(d, "RESOLVED")
  BY DEF ResolveDispute, Finish, IInv, WorkOK
<1>2. to \in OrderStatus /\ "resolve" \in Operation /\ "RESOLVED" \in DisputeStatus
  BY DEF OrderStatus, Operation, DisputeStatus
<1>3. /\ to = "COMPLETED" => x = "RELEASED"
      /\ to \in {"CANCELLED", "REFUNDED"} => x = "REFUNDED"
  BY <1>1 DEF Outcome
<1>4. /\ dispute' \in [Dispute -> {NoDispute} \union [order: Order, status: DisputeStatus]]
      /\ \A e \in Dispute : dispute[e] # NoDispute => dispute'[e] # NoDispute
  BY <1>1, <1>2, DisputeAfter
<1> QED
  BY <1>1, <1>2, <1>3, <1>4, PaidInv

LEMMA MarkUnderReviewInv ==
    ASSUME IInv, NEW s \in Session, MarkUnderReview(s)
    PROVE  IInv'
<1>1. /\ work[s].dispute \in Dispute /\ dispute[work[s].dispute] # NoDispute
      /\ SetDispute(work[s].dispute, "UNDER_REVIEW")
      /\ work' = [work EXCEPT ![s] = NoWork]
      /\ UNCHANGED <<order, escrow, wallet, payouts, clock, tasks>>
  BY DEF MarkUnderReview, Finish, IInv, WorkOK
<1>2. "UNDER_REVIEW" \in DisputeStatus
  BY DEF DisputeStatus
<1> QED
  BY <1>1, <1>2, DisputeOnly

LEMMA AdminInv ==
    ASSUME IInv, NEW d \in Dispute, AdminMarkUnderReview(d) \/ AdminResolve(d)
    PROVE  IInv'
<1>1. "UNDER_REVIEW" \in DisputeStatus /\ "RESOLVED" \in DisputeStatus
  BY DEF DisputeStatus
<1> QED
  BY <1>1, DisputeOnly DEF AdminMarkUnderReview, AdminResolve, AdminSetDispute

LEMMA AbortInv ==
    ASSUME IInv, NEW s \in Session, Abort(s)
    PROVE  IInv'
<1>1. work' = [work EXCEPT ![s] = NoWork] /\ UNCHANGED <<db, clock, tasks>>
  BY DEF Abort
<1>2. WorkOK' /\ work' \in WorkType
  BY <1>1, WorkAfter DEF db
<1>3. TypeOK'
  BY <1>1, <1>2 DEF IInv, TypeOK, WorkType, db, clock, tasks
<1>4. TargetOK' /\ ClaimOK' /\ HeldUntilPaid' /\ ClosedIsPaid'
  BY <1>1 DEF IInv, TargetOK, ClaimOK, HeldUntilPaid, ClosedIsPaid, PaymentsOf, db, tasks
<1> QED
  BY <1>2, <1>3, <1>4 DEF IInv

-----------------------------------------------------------------------------
(***************************************************************************)
(* The claim and the release task.                                         *)
(***************************************************************************)

LEMMA claim_for_releaseInv ==
    ASSUME IInv, NEW o \in Order, NEW t \in Task, claim_for_release(o, t)
    PROVE  IInv'
<1>1. /\ claim_lock' = [claim_lock EXCEPT ![o] = t]
      /\ pc' = [pc EXCEPT ![t] = "queued"]
      /\ target' = [target EXCEPT ![t] = o]
      /\ escrow[o] = "HOLDING"
      /\ UNCHANGED <<order, escrow, dispute, wallet, payouts, overdue, release_due,
                     work, retries, spent>>
  BY DEF claim_for_release, Claimed, db, clock
<1>2. TypeOK'
  BY <1>1 DEF IInv, TypeOK
<1>3. TargetOK' /\ ClaimOK'
  BY <1>1 DEF IInv, TypeOK, TargetOK, ClaimOK
<1>4. WorkOK' /\ HeldUntilPaid' /\ ClosedIsPaid'
  BY <1>1 DEF IInv, WorkOK, HeldUntilPaid, ClosedIsPaid, PaymentsOf
<1> QED
  BY <1>2, <1>3, <1>4 DEF IInv

LEMMA CommitClaimInv ==
    ASSUME IInv, NEW o \in Order, CommitClaim(o)
    PROVE  IInv'
<1>1. /\ claim_lock[o] # None
      /\ claim_lock' = [claim_lock EXCEPT ![o] = None]
      /\ escrow' = [escrow EXCEPT ![o] = "PROCESSING"]
      /\ UNCHANGED <<order, dispute, wallet, payouts, overdue, release_due, work, pc,
                     target, retries, spent>>
  BY DEF CommitClaim, EndClaim, clock
<1>2. TypeOK'
  BY <1>1 DEF IInv, TypeOK, EscrowStatus
<1>3. ClaimOK'
  BY <1>1 DEF IInv, TypeOK, ClaimOK
<1>4. HeldUntilPaid'
  <2>1. PaymentsOf(o) = 0
    BY <1>1 DEF IInv, ClaimOK, HeldUntilPaid
  <2> QED
    BY <1>1, <2>1 DEF IInv, TypeOK, HeldUntilPaid, PaymentsOf
<1>5. WorkOK' /\ TargetOK' /\ ClosedIsPaid'
  BY <1>1 DEF IInv, WorkOK, TargetOK, ClosedIsPaid
<1> QED
  BY <1>2, <1>3, <1>4, <1>5 DEF IInv

LEMMA LoseClaimInv ==
    ASSUME IInv, NEW o \in Order, LoseClaim(o)
    PROVE  IInv'
<1>1. /\ claim_lock' = [claim_lock EXCEPT ![o] = None]
      /\ spent' = [spent EXCEPT !["claim_loss"] = @ + 1]
      /\ UNCHANGED <<order, escrow, dispute, wallet, payouts, overdue, release_due, work,
                     pc, target, retries>>
  BY DEF LoseClaim, EndClaim, Spend, db, clock
<1>2. TypeOK'
  BY <1>1 DEF IInv, TypeOK, Event
<1>3. ClaimOK'
  BY <1>1 DEF IInv, TypeOK, ClaimOK
<1>4. WorkOK' /\ TargetOK' /\ HeldUntilPaid' /\ ClosedIsPaid'
  BY <1>1 DEF IInv, WorkOK, TargetOK, HeldUntilPaid, ClosedIsPaid, PaymentsOf
<1> QED
  BY <1>2, <1>3, <1>4 DEF IInv

LEMMA release_single_escrowInv ==
    ASSUME IInv, NEW t \in Task, release_single_escrow(t)
    PROVE  IInv'
<1> DEFINE o == target[t]
<1>1. /\ o \in Order
      /\ PayOut(o, "RELEASED")
      /\ order' = [order EXCEPT ![o] = "COMPLETED"]
      /\ pc[t] = "queued" /\ pc' = [pc EXCEPT ![t] = "notify"]
      /\ UNCHANGED <<dispute, overdue, release_due, work, claim_lock, target, retries, spent>>
  BY DEF release_single_escrow, Goto, clock, IInv, TargetOK
<1>2. "RELEASED" \in Outcome /\ "COMPLETED" \in OrderStatus
  BY DEF Outcome, OrderStatus
<1>3. /\ wallet' \in [User -> [available: Nat, escrow: Nat]]
      /\ payouts' \in [Order -> [Outcome -> Nat]]
      /\ escrow' \in [Order -> EscrowStatus]
      /\ HeldUntilPaid'
      /\ \A p \in Order : claim_lock[p] # None => escrow'[p] = "HOLDING"
  BY <1>1, <1>2, PayOutFacts
<1>4. ClosedIsPaid' /\ order' \in [Order -> OrderStatus]
  BY <1>1, <1>2, ClosedAfter
<1>5. TypeOK'
  BY <1>1, <1>3, <1>4 DEF IInv, TypeOK
<1>6. WorkOK' /\ TargetOK' /\ ClaimOK'
  BY <1>1, <1>3 DEF IInv, TypeOK, WorkOK, TargetOK, ClaimOK
<1> QED
  BY <1>3, <1>4, <1>5, <1>6 DEF IInv

\* Where a message stands changes, and how often it was retried; no row does.
LEMMA TaskOnly ==
    ASSUME IInv, NEW t \in Task, pc[t] # "unused",
           NEW l \in {"queued", "done", "lost"}, Goto(t, l),
           UNCHANGED <<db, clock, work, claim_lock, target>>,
           retries' \in [Task -> 0..MaxRetries],
           spent' \in [Event -> Nat]
    PROVE  IInv'
<1>1. /\ pc' = [pc EXCEPT ![t] = l]
      /\ UNCHANGED <<order, escrow, dispute, wallet, payouts, overdue, release_due, work,
                     claim_lock, target>>
  BY DEF Goto, db, clock
<1>2. TypeOK'
  BY <1>1 DEF IInv, TypeOK
<1>3. WorkOK' /\ TargetOK' /\ ClaimOK' /\ HeldUntilPaid' /\ ClosedIsPaid'
  BY <1>1 DEF IInv, TypeOK, WorkOK, TargetOK, ClaimOK, HeldUntilPaid, ClosedIsPaid,
              PaymentsOf
<1> QED
  BY <1>2, <1>3 DEF IInv

LEMMA SpendType ==
    ASSUME IInv, NEW e \in Event, NEW bound, Spend(e, bound)
    PROVE  spent' \in [Event -> Nat]
BY DEF IInv, TypeOK, Spend

LEMMA RetryInv ==
    ASSUME IInv, NEW t \in Task, pc[t] # "unused", Retry(t), spent' \in [Event -> Nat]
    PROVE  IInv'
<1>1. retries' \in [Task -> 0..MaxRetries]
  <2>1. MaxRetries \in Nat /\ retries \in [Task -> 0..MaxRetries]
    BY OrderAssumption DEF IInv, TypeOK
  <2> QED
    BY <2>1 DEF Retry
<1>2. CASE retries[t] < MaxRetries
  BY <1>1, <1>2, TaskOnly DEF Retry
<1>3. CASE ~(retries[t] < MaxRetries)
  BY <1>1, <1>3, TaskOnly DEF Retry
<1> QED
  BY <1>2, <1>3

LEMMA TaskInv ==
    ASSUME IInv, NEW t \in Task, Run(t) \/ Fail(t) \/ Crash(t)
    PROVE  IInv'
<1>1. spent \in [Event -> Nat] /\ retries \in [Task -> 0..MaxRetries]
  BY DEF IInv, TypeOK
<1>2. CASE release_single_escrow(t)
  BY <1>2, release_single_escrowInv
<1>3. CASE ReleaseRefused(t)
  BY <1>1, <1>3, RetryInv DEF ReleaseRefused
<1>4. CASE NotifyRelease(t)
  BY <1>1, <1>4, TaskOnly DEF NotifyRelease
<1>5. CASE Fail(t)
  <2>1. spent' \in [Event -> Nat]
    BY <1>5, SpendType DEF Fail, Event
  <2> QED
    BY <1>5, <2>1, RetryInv DEF Fail
<1>6. CASE Crash(t)
  <2>1. spent' \in [Event -> Nat]
    BY <1>6, SpendType DEF Crash, Event
  <2> QED
    BY <1>1, <1>6, <2>1, TaskOnly DEF Crash
<1> QED
  BY <1>2, <1>3, <1>4, <1>5, <1>6 DEF Run

LEMMA ClockInv ==
    ASSUME IInv, NEW o \in Order, ShippingDeadlinePasses(o) \/ AutoReleaseTimePasses(o)
    PROVE  IInv'
<1>1. /\ overdue' \in [Order -> BOOLEAN] /\ release_due' \in [Order -> BOOLEAN]
      /\ UNCHANGED <<order, escrow, dispute, wallet, payouts, work, claim_lock, pc, target,
                     retries, spent>>
  <2>1. overdue \in [Order -> BOOLEAN] /\ release_due \in [Order -> BOOLEAN]
    BY DEF IInv, TypeOK
  <2>2. CASE ShippingDeadlinePasses(o)
    BY <2>1, <2>2, Zenon DEF ShippingDeadlinePasses, db, tasks
  <2>3. CASE AutoReleaseTimePasses(o)
    BY <2>1, <2>3, Zenon DEF AutoReleaseTimePasses, db, tasks
  <2> QED
    BY <2>2, <2>3
<1>2. TypeOK'
  BY <1>1 DEF IInv, TypeOK
<1>3. WorkOK' /\ TargetOK' /\ ClaimOK' /\ HeldUntilPaid' /\ ClosedIsPaid'
  BY <1>1 DEF IInv, WorkOK, TargetOK, ClaimOK, HeldUntilPaid, ClosedIsPaid, PaymentsOf
<1> QED
  BY <1>2, <1>3 DEF IInv

-----------------------------------------------------------------------------
LEMMA NextInv == IInv /\ [Next]_vars => IInv'
<1> SUFFICES ASSUME IInv, [Next]_vars
             PROVE  IInv'
  OBVIOUS
<1>1. ASSUME NEW s \in Session, Read(s) \/ Abort(s)
      PROVE  IInv'
  BY <1>1, ReadInv, AbortInv
<1>2. ASSUME NEW s \in Session, Write(s)
      PROVE  IInv'
  BY <1>2, ShipInv, ConfirmDeliveryInv, CancelOrderInv, RaiseDisputeInv,
     MarkUnderReviewInv, ResolveDisputeInv DEF Write
<1>3. ASSUME NEW d \in Dispute, AdminMarkUnderReview(d) \/ AdminResolve(d)
      PROVE  IInv'
  BY <1>3, AdminInv
<1>4. ASSUME NEW o \in Order, ClaimStep(o) \/ LoseClaim(o)
      PROVE  IInv'
  BY <1>4, claim_for_releaseInv, CommitClaimInv, LoseClaimInv DEF ClaimStep
<1>5. ASSUME NEW o \in Order, ShippingDeadlinePasses(o) \/ AutoReleaseTimePasses(o)
      PROVE  IInv'
  BY <1>5, ClockInv
<1>6. ASSUME NEW t \in Task, Run(t) \/ Fail(t) \/ Crash(t)
      PROVE  IInv'
  BY <1>6, TaskInv
<1>7. CASE UNCHANGED vars
  BY <1>7 DEF vars, db, clock, tasks, IInv, TypeOK, WorkOK, TargetOK, ClaimOK,
              HeldUntilPaid, ClosedIsPaid, PaymentsOf
<1> QED
  BY <1>1, <1>2, <1>3, <1>4, <1>5, <1>6, <1>7 DEF Next

LEMMA Invariance == Spec => []IInv
<1> QED
  BY InitInv, NextInv, PTL DEF Spec

\* Every state is well typed, and no request or release takes a wallet below
\* zero, whatever races with it.
THEOREM TypeCorrect == Spec => []TypeOK
<1>1. IInv => TypeOK
  BY DEF IInv
<1> QED
  BY <1>1, Invariance, PTL

\* The status of an escrow tells whether it has been paid: the claim's UPDATE,
\* held open while its message is already out, cannot hide a payment.
THEOREM StatusTellsPayment == Spec => []HeldUntilPaid
<1>1. IInv => HeldUntilPaid
  BY DEF IInv
<1> QED
  BY <1>1, Invariance, PTL

\* No order is closed without its money: whoever overtakes whom, a COMPLETED
\* order's seller and a CANCELLED or REFUNDED order's buyer have been paid.
THEOREM NoCloseUnpaid == Spec => []ClosedIsPaid
<1>1. IInv => ClosedIsPaid
  BY DEF IInv
<1> QED
  BY <1>1, Invariance, PTL
-----------------------------------------------------------------------------
(***************************************************************************)
(* Conservation of the money: a payment moves it between two terms of one  *)
(* sum, and no other step touches a wallet or a payment.                   *)
(***************************************************************************)

\* What each wallet holds, and what the platform has kept of each order.
Held == [u \in User |-> wallet[u].available + wallet[u].escrow]
Kept == [o \in Order |-> payouts[o]["RELEASED"] * Commission[o]]

LEMMA OneMore ==
    ASSUME NEW n \in Nat, NEW c \in Nat
    PROVE  n * c \in Nat /\ (n + 1) * c = n * c + c
OBVIOUS

LEMMA HeldType ==
    ASSUME TypeOK
    PROVE  /\ \A u \in User : Held[u] \in Nat
           /\ \A o \in Order : Kept[o] \in Nat
<1>1. ASSUME NEW u \in User PROVE Held[u] \in Nat
  BY DEF TypeOK, Held
<1>2. ASSUME NEW o \in Order PROVE Kept[o] \in Nat
  <2>1. payouts[o]["RELEASED"] \in Nat /\ Commission[o] \in Nat
    BY AmountFacts DEF TypeOK, Outcome
  <2> QED
    BY <2>1, OneMore DEF Kept
<1> QED
  BY <1>1, <1>2

LEMMA HeldTypeAfter ==
    ASSUME TypeOK'
    PROVE  /\ \A u \in User : Held'[u] \in Nat
           /\ \A o \in Order : Kept'[o] \in Nat
<1>1. ASSUME NEW u \in User PROVE Held'[u] \in Nat
  BY DEF TypeOK, Held
<1>2. ASSUME NEW o \in Order PROVE Kept'[o] \in Nat
  <2>1. payouts'[o]["RELEASED"] \in Nat /\ Commission[o] \in Nat
    BY AmountFacts DEF TypeOK, Outcome
  <2> QED
    BY <2>1, OneMore DEF Kept
<1> QED
  BY <1>1, <1>2

\* The statement, with the sums named.
LEMMA ConservedIs ==
    MoneyConserved <=>
        SumFunctionOnSet(Held, User) + SumFunctionOnSet(Kept, Order)
            = SumFunction(EscrowFunds)
<1>1. DOMAIN Held = User /\ DOMAIN Kept = Order
  BY DEF Held, Kept
<1>2. MoneyConserved <=> SumFunction(Held) + SumFunction(Kept) = SumFunction(EscrowFunds)
  BY DEF MoneyConserved, Held, Kept
<1> QED
  BY <1>1, <1>2 DEF SumFunction

LEMMA ConservedAfter ==
    MoneyConserved' <=>
        SumFunctionOnSet(Held', User) + SumFunctionOnSet(Kept', Order)
            = SumFunction(EscrowFunds)
<1>1. DOMAIN Held' = User /\ DOMAIN Kept' = Order
  BY DEF Held, Kept
<1>2. MoneyConserved' <=> SumFunction(Held') + SumFunction(Kept') = SumFunction(EscrowFunds)
  BY DEF MoneyConserved, Held, Kept
<1> QED
  BY <1>1, <1>2 DEF SumFunction

\* What a payment does to each wallet and to each commission.
LEMMA PaidHeld ==
    ASSUME TypeOK, NEW o \in Order, NEW x \in Outcome, PayOut(o, x)
    PROVE  /\ \A u \in User :
                 Held'[u] = Held[u] + (IF u = Payee(o, x) THEN Payment(o, x) ELSE 0)
                                    - (IF u = Buyer[o] THEN Amount[o] ELSE 0)
           /\ \A p \in Order \ {o} : Kept'[p] = Kept[p]
           /\ Kept'[o] = Kept[o] + IF x = "RELEASED" THEN Commission[o] ELSE 0
<1>1. wallet' = Paid(o, x) /\ payouts' = [payouts EXCEPT ![o][x] = @ + 1]
  BY DEF PayOut, SetEscrow
<1>2. Payment(o, x) \in Int /\ Amount[o] \in Nat
  BY AmountFacts DEF Payment
<1>3. ASSUME NEW u \in User
      PROVE  Held'[u] = Held[u] + (IF u = Payee(o, x) THEN Payment(o, x) ELSE 0)
                                - (IF u = Buyer[o] THEN Amount[o] ELSE 0)
  <2>1. wallet[u].available \in Nat /\ wallet[u].escrow \in Nat
    BY DEF TypeOK
  <2>2. /\ wallet'[u].available =
              wallet[u].available + IF u = Payee(o, x) THEN Payment(o, x) ELSE 0
        /\ wallet'[u].escrow = wallet[u].escrow - IF u = Buyer[o] THEN Amount[o] ELSE 0
    BY <1>1 DEF Paid
  <2>3. Held[u] = wallet[u].available + wallet[u].escrow
    BY DEF Held
  <2>4. Held'[u] = wallet'[u].available + wallet'[u].escrow
    BY DEF Held
  <2> QED
    BY <1>2, <2>1, <2>2, <2>3, <2>4
<1>4. payouts \in [Order -> [Outcome -> Nat]] /\ "RELEASED" \in Outcome
  BY DEF TypeOK, Outcome
<1>5. \A p \in Order \ {o} : Kept'[p] = Kept[p]
  BY <1>1, <1>4 DEF Kept
<1>6. Kept'[o] = Kept[o] + IF x = "RELEASED" THEN Commission[o] ELSE 0
  <2>1. CASE x = "RELEASED"
    <3>1. payouts'[o]["RELEASED"] = payouts[o]["RELEASED"] + 1
      BY <1>1, <1>4, <2>1
    <3>2. payouts[o]["RELEASED"] \in Nat /\ Commission[o] \in Nat
      BY <1>4, AmountFacts
    <3>3. (payouts[o]["RELEASED"] + 1) * Commission[o] =
             payouts[o]["RELEASED"] * Commission[o] + Commission[o]
      BY <3>2, OneMore
    <3> QED
      BY <2>1, <3>1, <3>3 DEF Kept
  <2>2. CASE x # "RELEASED"
    <3>1. payouts'[o]["RELEASED"] = payouts[o]["RELEASED"]
      BY <1>1, <1>4, <2>2
    <3>2. Kept'[o] = Kept[o]
      BY <3>1 DEF Kept
    <3>3. Kept[o] \in Nat
      BY HeldType
    <3> QED
      BY <2>2, <3>2, <3>3
  <2> QED
    BY <2>1, <2>2
<1> QED
  BY <1>3, <1>5, <1>6

LEMMA PayOutConserves ==
    ASSUME TypeOK, TypeOK', NEW o \in Order, NEW x \in Outcome, PayOut(o, x),
           MoneyConserved
    PROVE  MoneyConserved'
<1> DEFINE b == Buyer[o]
           s == Seller[o]
           H == Held
           G == Held'
           K == Kept
           L == Kept'
<1>1. IsFiniteSet(User) /\ IsFiniteSet(Order)
  BY OrderAssumption
<1>2. /\ b \in User /\ s \in User /\ b # s
      /\ Amount[o] \in Nat /\ Commission[o] \in Nat
  BY AmountFacts
<1>3. /\ \A u \in User : H[u] \in Int /\ G[u] \in Int
      /\ \A p \in Order : K[p] \in Int /\ L[p] \in Int
  BY HeldType, HeldTypeAfter
<1>4. /\ \A u \in User :
            G[u] = H[u] + (IF u = Payee(o, x) THEN Payment(o, x) ELSE 0)
                        - (IF u = b THEN Amount[o] ELSE 0)
      /\ \A p \in Order \ {o} : L[p] = K[p]
      /\ L[o] = K[o] + IF x = "RELEASED" THEN Commission[o] ELSE 0
  BY PaidHeld
<1>5. SumFunctionOnSet(H, User) \in Int /\ SumFunctionOnSet(K, Order) \in Int
  <2> HIDE DEF H, K
  <2> QED
    BY <1>1, <1>3, SumType
<1>6. SumFunctionOnSet(L, Order) =
         SumFunctionOnSet(K, Order) + IF x = "RELEASED" THEN Commission[o] ELSE 0
  <2> HIDE DEF K, L
  <2>1. \A p \in Order \ {o} : K[p] = L[p]
    BY <1>4
  <2>2. SumFunctionOnSet(L, Order) = SumFunctionOnSet(K, Order) - K[o] + L[o]
    BY <1>1, <1>3, <2>1, SumChange
  <2> QED
    BY <1>2, <1>3, <1>4, <1>5, <2>2
<1>7. SumFunctionOnSet(G, User) =
         SumFunctionOnSet(H, User) - IF x = "RELEASED" THEN Commission[o] ELSE 0
  <2> HIDE DEF H, G
  <2>1. CASE x = "RELEASED"
    <3> DEFINE M == [u \in User |-> IF u = b THEN H[u] - Amount[o] ELSE H[u]]
    <3>1. \A u \in User : G[u] = H[u] + (IF u = s THEN Amount[o] - Commission[o] ELSE 0)
                                      - (IF u = b THEN Amount[o] ELSE 0)
      BY <1>4, <2>1 DEF Payee, Payment
    <3>2. \A u \in User : M[u] \in Int
      BY <1>2, <1>3
    <3>3. M[b] = H[b] - Amount[o] /\ M[s] = H[s] /\ \A u \in User \ {b} : H[u] = M[u]
      BY <1>2
    <3>4. \A u \in User \ {s} : M[u] = G[u]
      BY <1>2, <1>3, <3>1
    <3>5. G[s] = H[s] + Amount[o] - Commission[o]
      BY <1>2, <1>3, <3>1
    <3> HIDE DEF M, b, s
    <3>6. SumFunctionOnSet(M, User) = SumFunctionOnSet(H, User) - H[b] + M[b]
      BY <1>1, <1>2, <1>3, <3>2, <3>3, SumChange
    <3>7. SumFunctionOnSet(G, User) = SumFunctionOnSet(M, User) - M[s] + G[s]
      BY <1>1, <1>2, <1>3, <3>2, <3>4, SumChange
    <3>8. H[b] \in Int /\ H[s] \in Int
      BY <1>2, <1>3
    <3> QED
      BY <1>2, <1>5, <2>1, <3>3, <3>5, <3>6, <3>7, <3>8
  <2>2. CASE x # "RELEASED"
    <3>1. Payee(o, x) = b /\ Payment(o, x) = Amount[o]
      BY <2>2 DEF Payee, Payment
    <3>2. \A u \in User : G[u] = H[u]
      BY <1>2, <1>3, <1>4, <3>1
    <3>3. SumFunctionOnSet(G, User) = SumFunctionOnSet(H, User)
      BY <1>1, <3>2, SumEqual
    <3> QED
      BY <1>5, <2>2, <3>3
  <2> QED
    BY <2>1, <2>2
<1>8. SumFunctionOnSet(H, User) + SumFunctionOnSet(K, Order) = SumFunction(EscrowFunds)
  BY ConservedIs
<1>9. SumFunctionOnSet(G, User) + SumFunctionOnSet(L, Order) = SumFunction(EscrowFunds)
  <2> HIDE DEF H, G, K, L
  <2> QED
    BY <1>2, <1>5, <1>6, <1>7, <1>8
<1> QED
  BY <1>9, ConservedAfter

\* Every step pays one escrow out or leaves wallets and payments alone.
LEMMA PaysOrKeeps ==
    ASSUME IInv, [Next]_vars
    PROVE  \/ UNCHANGED <<wallet, payouts>>
           \/ \E o \in Order, x \in Outcome : PayOut(o, x)
<1>1. ASSUME NEW s \in Session, Read(s) \/ Abort(s)
      PROVE  UNCHANGED <<wallet, payouts>>
  BY <1>1 DEF Read, ship_order, confirm_delivery, cancel_order, process_overdue_shipments,
              raise_dispute, mark_under_review, resolve_dispute, Begin, Abort, db
<1>2. ASSUME NEW s \in Session, Write(s)
      PROVE  \/ UNCHANGED <<wallet, payouts>>
             \/ \E o \in Order, x \in Outcome : PayOut(o, x)
  <2>1. CASE Ship(s) \/ RaiseDispute(s) \/ MarkUnderReview(s)
    BY <2>1 DEF Ship, RaiseDispute, MarkUnderReview
  <2>2. CASE ConfirmDelivery(s) \/ CancelOrder(s) \/ ResolveDispute(s)
    <3>1. work[s].order \in Order /\ work[s].outcome \in Outcome
      BY <2>2 DEF ConfirmDelivery, CancelOrder, ResolveDispute, Finish, IInv, WorkOK,
                  Operation, Outcome
    <3>2. PayOut(work[s].order, work[s].outcome)
      BY <2>2 DEF ConfirmDelivery, CancelOrder, ResolveDispute
    <3> QED
      BY <3>1, <3>2
  <2> QED
    BY <1>2, <2>1, <2>2 DEF Write
<1>3. ASSUME NEW d \in Dispute, AdminMarkUnderReview(d) \/ AdminResolve(d)
      PROVE  UNCHANGED <<wallet, payouts>>
  BY <1>3 DEF AdminMarkUnderReview, AdminResolve, AdminSetDispute
<1>4. ASSUME NEW o \in Order, ClaimStep(o) \/ LoseClaim(o)
      PROVE  UNCHANGED <<wallet, payouts>>
  BY <1>4 DEF ClaimStep, claim_for_release, Claimed, CommitClaim, LoseClaim, db
<1>5. ASSUME NEW o \in Order, ShippingDeadlinePasses(o) \/ AutoReleaseTimePasses(o)
      PROVE  UNCHANGED <<wallet, payouts>>
  BY <1>5 DEF ShippingDeadlinePasses, AutoReleaseTimePasses, db
<1>6. ASSUME NEW t \in Task, Run(t) \/ Fail(t) \/ Crash(t)
      PROVE  \/ UNCHANGED <<wallet, payouts>>
             \/ \E o \in Order, x \in Outcome : PayOut(o, x)
  <2>1. CASE release_single_escrow(t)
    <3>1. target[t] \in Order /\ "RELEASED" \in Outcome
      BY <2>1 DEF release_single_escrow, IInv, TargetOK, Outcome
    <3> QED
      BY <2>1, <3>1 DEF release_single_escrow
  <2>2. CASE ReleaseRefused(t) \/ NotifyRelease(t) \/ Fail(t) \/ Crash(t)
    BY <2>2 DEF ReleaseRefused, NotifyRelease, Fail, Crash, Retry, db
  <2> QED
    BY <1>6, <2>1, <2>2 DEF Run
<1>7. CASE UNCHANGED vars
  BY <1>7 DEF vars, db
<1> QED
  BY <1>1, <1>2, <1>3, <1>4, <1>5, <1>6, <1>7 DEF Next

LEMMA InitConserved == Init => MoneyConserved
<1> SUFFICES ASSUME Init PROVE MoneyConserved
  OBVIOUS
<1>1. IsFiniteSet(Order) /\ IsFiniteSet(User) /\ EscrowFunds \in [User -> Nat]
  BY OrderAssumption
<1>2. \A u \in User : Held[u] = EscrowFunds[u]
  BY <1>1 DEF Init, Held
<1>3. SumFunctionOnSet(Held, User) = SumFunctionOnSet(EscrowFunds, User)
  BY <1>1, <1>2, SumEqual
<1>4. \A o \in Order : Kept[o] = 0
  BY AmountFacts DEF Init, Kept, Outcome
<1>5. SumFunctionOnSet(Kept, Order) = 0
  BY <1>1, <1>4, SumZero
<1>6. SumFunctionOnSet(EscrowFunds, User) \in Int
  BY <1>1, SumType
<1>7. SumFunction(EscrowFunds) = SumFunctionOnSet(EscrowFunds, User)
  BY <1>1 DEF SumFunction
<1> QED
  BY <1>3, <1>5, <1>6, <1>7, ConservedIs

\* No money appears or vanishes, however often an escrow is paid: after any number
\* of releases, refunds, retries and crashes the wallets and the commissions add
\* up to what was in escrow.
THEOREM MoneyIsKept == Spec => []MoneyConserved
<1>1. IInv /\ IInv' /\ MoneyConserved /\ [Next]_vars => MoneyConserved'
  <2> SUFFICES ASSUME IInv, IInv', MoneyConserved, [Next]_vars
               PROVE  MoneyConserved'
    OBVIOUS
  <2>1. CASE UNCHANGED <<wallet, payouts>>
    BY <2>1 DEF MoneyConserved
  <2>2. ASSUME NEW o \in Order, NEW x \in Outcome, PayOut(o, x)
        PROVE  MoneyConserved'
    BY <2>2, PayOutConserves DEF IInv
  <2> QED
    BY <2>1, <2>2, PaysOrKeeps
<1> QED
  BY <1>1, InitConserved, Invariance, PTL DEF Spec
=============================================================================
