--------------------------- MODULE Notifications ---------------------------
(***************************************************************************)
(* E-mails and in-app notifications (apps/notifications): Celery tasks     *)
(* that other components queue, each sending one e-mail through Resend     *)
(* and, for some, then inserting a row that the user sees in the           *)
(* application.                                                            *)
(*                                                                         *)
(* A message is acknowledged when a worker takes it, is queued again       *)
(* when its task raises, and is gone when its worker dies.                 *)
(***************************************************************************)
EXTENDS Naturals

CONSTANTS
    User, None,
    Sent,         \* bound: the messages of other components, pairs of a task and a user
    MaxMessages,  \* bound: messages
    MaxRetries,   \* max_retries of the tasks
    MaxFaults     \* bound: failures of Resend or the database, dead processes

AccountMails == {"send_verification_email", "send_password_reset_email",
                 "send_seller_verification_approved",
                 "send_seller_verification_rejected"}
ItemMails == {"send_item_approved_notification", "send_item_rejected_notification"}
SettlementMails == {"send_reserve_not_met_seller", "send_reserve_not_met_bidder"}
WalletMails == {"send_wallet_funded_email", "send_withdrawal_notification"}
BidNotices == {"notify_outbid_user"}
SaleNotices == {"notify_item_shipped", "notify_payment_released"}
ClosingNotices == {"notify_transaction_completed", "notify_order_cancelled_buyer"}
CancellationMails == {"notify_order_cancelled_seller"}
DisputeNotices == {"notify_dispute_raised_seller", "notify_dispute_resolved_buyer"}
ResolutionNotices == {"notify_dispute_resolved_seller"}
ReviewMails == {"notify_dispute_under_review"}

\* The tasks that insert a row when they are given the user's id.
WithRow == BidNotices \union SaleNotices \union ClosingNotices
           \union DisputeNotices \union ResolutionNotices
Task == AccountMails \union ItemMails \union SettlementMails \union WalletMails
        \union CancellationMails \union ReviewMails \union WithRow

ASSUME NotificationsAssumption ==
    /\ None \notin User
    /\ None \notin Task \union {"unread", "read"}
    /\ Sent \subseteq Task \X User
    /\ {MaxMessages, MaxRetries, MaxFaults} \subseteq Nat

VARIABLES
    message,       \* the messages in the order in which they were queued
    notification,  \* the row a message has inserted: None, unread or read
    faults         \* faults of each kind

mail == <<message, notification, faults>>

Message == 1..MaxMessages
State == {"unused", "queued", "mailed", "done", "failed", "lost"}

Unused == [task |-> None, to |-> None, state |-> "unused", retries |-> 0, mails |-> 0]

InitMail ==
    /\ message = [m \in Message |-> Unused]
    /\ notification = [m \in Message |-> None]
    /\ faults = [failure |-> 0, crash |-> 0]

Fault(e) ==
    /\ faults["failure"] + faults["crash"] < MaxFaults
    /\ faults' = [faults EXCEPT ![e] = @ + 1]

\* The next message, as task.delay() queues it.
Delay(m, task, u) ==
    /\ message[m].state = "unused"
    /\ \A k \in Message : k < m => message[k].state # "unused"
    /\ message' = [message EXCEPT ![m] =
                      [Unused EXCEPT !.task = task, !.to = u, !.state = "queued"]]

\* Another component does.
NotifyEvent ==
    /\ \E m \in Message, s \in Sent : Delay(m, s[1], s[2])
    /\ UNCHANGED <<notification, faults>>

-----------------------------------------------------------------------------
Become(m, state) == message' = [message EXCEPT ![m].state = state]

\* Mutant: the task does not ask for the e-mail before it goes on.
send_email_skipped(m) ==
    /\ message[m].state = "queued"
    /\ message' = [message EXCEPT ![m].state = "mailed"]
    /\ UNCHANGED <<notification, faults>>

\* Resend takes the e-mail; a task without a row is done.
send_email(m) ==
    /\ message[m].state = "queued"
    /\ message' = [message EXCEPT
                      ![m].mails = @ + 1,
                      ![m].state = IF message[m].task \in WithRow THEN "mailed" ELSE "done"]
    /\ UNCHANGED <<notification, faults>>

\* Mutant: the last attempt does not raise.
RetryDone(m, mails) ==
    message' = [message EXCEPT
                   ![m].mails = mails,
                   ![m].retries = IF @ < MaxRetries THEN @ + 1 ELSE @,
                   ![m].state = "done"]

\* autoretry_for queues the message again, until max_retries.
Retry(m, mails) ==
    message' = [message EXCEPT
                   ![m].mails = mails,
                   ![m].retries = IF @ < MaxRetries THEN @ + 1 ELSE @,
                   ![m].state = IF message[m].retries < MaxRetries THEN "queued" ELSE "failed"]

\* Resend refuses; or it does not answer within ten seconds, when the thread that
\* asked it may still deliver the e-mail.
EmailFails(m) ==
    /\ message[m].state = "queued"
    /\ Fault("failure")
    /\ \E sent \in 0..1 : Retry(m, message[m].mails + sent)
    /\ UNCHANGED notification

\* In a session of its own, which commits.
_create_notification(m) ==
    /\ message[m].state = "mailed"
    /\ notification' = [notification EXCEPT ![m] = "unread"]
    /\ Become(m, "done")
    /\ UNCHANGED faults

\* An error is only logged: the task succeeds without its row.
RowFails(m) ==
    /\ message[m].state = "mailed"
    /\ Fault("failure")
    /\ Become(m, "done")
    /\ UNCHANGED notification

Crash(m) ==
    /\ message[m].state \in {"queued", "mailed"}
    /\ Fault("crash")
    /\ Become(m, "lost")
    /\ UNCHANGED notification

-----------------------------------------------------------------------------
mark_read(m) ==
    /\ notification[m] = "unread"
    /\ notification' = [notification EXCEPT ![m] = "read"]
    /\ UNCHANGED <<message, faults>>

mark_all_read(u) ==
    /\ \E m \in Message : notification[m] = "unread" /\ message[m].to = u
    /\ notification' = [m \in Message |->
                           IF notification[m] = "unread" /\ message[m].to = u
                           THEN "read" ELSE notification[m]]
    /\ UNCHANGED <<message, faults>>

Run(m) == send_email(m) \/ _create_notification(m)

NextMail ==
    \/ \E m \in Message : Run(m) \/ EmailFails(m) \/ RowFails(m) \/ Crash(m) \/ mark_read(m)
    \/ \E u \in User : mark_all_read(u)

-----------------------------------------------------------------------------
\* Every variable holds a value of its kind.
MailTypeOK ==
    /\ message \in [Message -> [task : Task \union {None}, to : User \union {None},
                                state : State, retries : 0..MaxRetries, mails : Nat]]
    /\ notification \in [Message -> {None, "unread", "read"}]
    /\ faults \in [{"failure", "crash"} -> Nat]

\* What a task that has ended leaves: an e-mail at least when it succeeded, and
\* all its retries used when it failed; never more e-mails than attempts.  A row
\* is inserted behind the e-mail only, so that a retry cannot insert it again.
TaskOutcome ==
    \A m \in Message :
        /\ message[m].state \in {"mailed", "done"} => message[m].mails > 0
        /\ message[m].state = "failed" => message[m].retries = MaxRetries
        /\ message[m].mails <= message[m].retries + 1
        /\ notification[m] # None => message[m].state = "done" /\ message[m].task \in WithRow

\* A message is answered by an e-mail, although Resend fails as often as it may
\* be retried, unless its worker dies.
MailArrives ==
    \A m \in Message :
        message[m].state = "queued" ~> (message[m].mails > 0 \/ faults["crash"] > 0)
=============================================================================
