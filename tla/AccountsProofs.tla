--------------------------- MODULE AccountsProofs ---------------------------
(***************************************************************************)
(* Theorems of Accounts and of the messages it queues, for any users,      *)
(* requests, messages and BVNs, and any bounds.                            *)
(***************************************************************************)
EXTENDS Accounts, TLAPS

LEMMA Constants ==
    /\ None \notin User /\ None \notin Task /\ None \notin Message
    /\ None \notin {"unread", "read"}
    /\ None \notin {"pending", "valid", "used", "expired", "void"}
    /\ None \notin AccountStatus \union SellerStatus \union Tier \union Op \union BVN
    /\ Sent \subseteq Task \X User
    /\ Applicants \subseteq Members /\ Members \subseteq User
    /\ {MaxMessages, MaxRetries, MaxFaults} \subseteq Nat
<1>1. None \notin User /\ None \notin Task \union {"unread", "read"} /\ Sent \subseteq Task \X User
      /\ {MaxMessages, MaxRetries, MaxFaults} \subseteq Nat
  BY Zenon, NotificationsAssumption
<1>2. /\ None \notin AccountStatus \union SellerStatus \union Tier \union Op \union BVN
      /\ Applicants \subseteq Members /\ Members \subseteq User
  BY Zenon, AccountsAssumption
<1>3. None \notin {"pending", "valid", "used", "expired", "void"} \union Nat
  BY Zenon, AccountsAssumption
<1> QED
  BY <1>1, <1>2, <1>3 DEF Message

-----------------------------------------------------------------------------
(***************************************************************************)
(* The inductive invariant.                                                *)
(***************************************************************************)

\* Where a message stands fits what it has sent.
MailFits ==
    \A m \in Message :
        /\ message[m].state = "queued" => message[m].mails <= message[m].retries
        /\ message[m].state = "mailed" => message[m].task \in WithRow
        /\ message[m].state # "unused" => message[m].to \in User

Sending == {"register", "forgot_password", "resend"}
Opening == {"verify_email", "reset_password"}
Stored == {"valid", "used", "expired", "void"}
LinkTask(op) == IF op = "verify_email" THEN "send_verification_email"
                                       ELSE "send_password_reset_email"

\* A link that a request opens came by e-mail to that request's user.
Opened(w) ==
    /\ w.link \in Message
    /\ token[w.link] \in Stored
    /\ message[w.link].mails > 0
    /\ message[w.link].to = w.user
    /\ Carries(w.link, LinkTask(w.op))

\* A request that sends a link owns its token until it ends.
LinksFit ==
    /\ \A m \in Message : message[m].state = "unused" => token[m] = None
    /\ \A r \in Request :
          /\ req[r].op \in Sending => req[r].link \in Message /\ token[req[r].link] = "pending"
          /\ req[r].op \in Opening => Opened(req[r])
          /\ req[r].op \notin Sending \union Opening =>
                req[r].link = None /\ req[r].links = {}
          /\ \A m \in req[r].links : token[m] \in Stored
    /\ \A q, r \in Request :
          req[q].op \in Sending /\ req[r].op \in Sending /\ req[q].link = req[r].link => q = r

\* As long as no admin sets tiers, a request that verifies a BVN knows its user's
\* tier, and the account that is being registered, once at a time, has no BVN.
TiersFit ==
    spent["by_hand"] = 0 =>
        /\ \A u \in User : ~Registered(u) => kyc[u].bvn = None
        /\ \A r \in Request :
              /\ req[r].op \in {"verify_bvn", "bvn_attempt"} =>
                    /\ Registered(req[r].user)
                    /\ req[r].tier = "TIER_2" => user[req[r].user].tier = "TIER_2"
              /\ req[r].op = "deactivate" => Registered(req[r].user)
              /\ req[r].op = "register" => ~Registered(req[r].user)
              /\ req[r].op # "upgrade_tier"
        /\ \A q, r \in Request :
              req[q].op = "register" /\ req[r].op = "register" /\ req[q].user = req[r].user
              => q = r

Sellers == [status : SellerStatus \union {None}, is_verified : BOOLEAN]

\* A request that has begun has a user, and its decision a profile.
Complete(w) ==
    /\ w.op # "idle" => w.user \in User
    /\ w.op \in Decision => w.seller \in Sellers
    /\ w.op \in {"verify_bvn", "bvn_attempt"} => w.target \in BVN
    /\ w.op = "upgrade_tier" => w.target \in Tier

WorkFits == \A r \in Request : Complete(req[r])

IInv ==
    /\ TypeOK /\ WorkFits
    /\ MailFits /\ TaskOutcome
    /\ LinksFit /\ VerifiedByMail /\ ResetByMail
    /\ TiersFit /\ TierFollowsBVN

-----------------------------------------------------------------------------
(***************************************************************************)
(* Messages.                                                               *)
(***************************************************************************)

MessageType == [task : Task \union {None}, to : User \union {None},
                state : State, retries : 0..MaxRetries, mails : Nat]

MailOK == MailTypeOK /\ MailFits /\ TaskOutcome

\* A message that is out keeps its task and its user, and its e-mails.
Grows ==
    \A m \in Message :
        /\ message'[m].state = "unused" => message[m].state = "unused"
        /\ message[m].state # "unused" =>
              /\ message'[m].task = message[m].task
              /\ message'[m].to = message[m].to
              /\ message'[m].mails >= message[m].mails

\* What one message becomes.
Fit(x, row) ==
    /\ x.state = "queued" => x.mails <= x.retries
    /\ x.state = "mailed" => x.task \in WithRow
    /\ x.state # "unused" => x.to \in User
    /\ x.state \in {"mailed", "done"} => x.mails > 0
    /\ x.state = "failed" => x.retries = MaxRetries
    /\ x.mails <= x.retries + 1
    /\ row # None => x.state = "done" /\ x.task \in WithRow

LEMMA OneMessage ==
    ASSUME MailOK, NEW m \in Message, NEW x \in MessageType,
           NEW row \in {None, "unread", "read"},
           message' = [message EXCEPT ![m] = x],
           notification' = [notification EXCEPT ![m] = row],
           faults' \in [{"failure", "crash"} -> Nat],
           Fit(x, row),
           x.state # "unused",
           message[m].state # "unused" =>
              x.task = message[m].task /\ x.to = message[m].to /\ x.mails >= message[m].mails
    PROVE  MailOK' /\ Grows
<1>1. message \in [Message -> MessageType] /\ notification \in [Message -> {None, "unread", "read"}]
  BY DEF MailOK, MailTypeOK, MessageType
<1>2. \A k \in Message : /\ message'[k] = IF k = m THEN x ELSE message[k]
                         /\ notification'[k] = IF k = m THEN row ELSE notification[k]
  BY <1>1
<1>3. MailTypeOK'
  BY <1>1 DEF MailTypeOK, MessageType
<1>4. \A k \in Message : Fit(message'[k], notification'[k])
  BY <1>2 DEF MailOK, MailFits, TaskOutcome, Fit
<1>5. MailFits' /\ TaskOutcome'
  BY <1>4 DEF MailFits, TaskOutcome, Fit
<1>6. Grows
  <2>1. \A k \in Message : message[k].mails \in Nat
    BY <1>1 DEF MessageType
  <2> QED
    BY <1>2, <2>1 DEF Grows
<1> QED
  BY <1>3, <1>5, <1>6 DEF MailOK

LEMMA Stutters ==
    ASSUME MailOK, UNCHANGED <<message, notification>>,
           faults' \in [{"failure", "crash"} -> Nat]
    PROVE  MailOK' /\ Grows
<1>1. \A k \in Message : message[k].mails \in Nat
  BY DEF MailOK, MailTypeOK
<1> QED
  BY <1>1 DEF MailOK, MailTypeOK, MailFits, TaskOutcome, Grows

LEMMA Tasks == /\ AccountMails \subseteq Task
               /\ \A op : Verdict(op) \in Task
BY DEF Verdict, Task, AccountMails

LEMMA DelayKeeps ==
    ASSUME MailOK, NEW m \in Message, NEW task \in Task, NEW u \in User,
           Delay(m, task, u), UNCHANGED notification,
           faults' \in [{"failure", "crash"} -> Nat]
    PROVE  MailOK' /\ Grows
<1> DEFINE x == [Unused EXCEPT !.task = task, !.to = u, !.state = "queued"]
<1>1. Unused \in MessageType /\ Unused.retries = 0 /\ Unused.mails = 0
  BY Constants DEF Unused, MessageType, State
<1>2. /\ x \in MessageType
      /\ x.state = "queued" /\ x.retries = 0 /\ x.mails = 0
  BY <1>1 DEF MessageType, State
<1>3. message' = [message EXCEPT ![m] = x] /\ message[m].state = "unused"
  BY DEF Delay
<1>4. notification[m] = None
  BY <1>3 DEF MailOK, TaskOutcome
<1>5. notification' = [notification EXCEPT ![m] = None]
  BY <1>4 DEF MailOK, MailTypeOK
<1>6. Fit(x, None) /\ x.state # "unused"
  BY <1>2 DEF Fit
<1> HIDE DEF x
<1> QED
  BY <1>2, <1>3, <1>5, <1>6, OneMessage

LEMMA FaultTyped ==
    ASSUME MailOK, NEW e \in {"failure", "crash"}, Fault(e)
    PROVE  faults' \in [{"failure", "crash"} -> Nat]
BY DEF MailOK, MailTypeOK, Fault

LEMMA RetryKeeps ==
    ASSUME MailOK, NEW m \in Message, message[m].state = "queued",
           NEW n \in Nat, n >= message[m].mails, n <= message[m].mails + 1,
           Retry(m, n), UNCHANGED notification,
           faults' \in [{"failure", "crash"} -> Nat]
    PROVE  MailOK' /\ Grows
<1> DEFINE more == message[m].retries < MaxRetries
           k == IF more THEN message[m].retries + 1 ELSE message[m].retries
           l == IF more THEN "queued" ELSE "failed"
           x == [message[m] EXCEPT !.mails = n, !.retries = k, !.state = l]
<1>1. message \in [Message -> MessageType] /\ MaxRetries \in Nat
  BY Constants DEF MailOK, MailTypeOK, MessageType
<1>2. k \in 0..MaxRetries /\ l \in State
  BY <1>1 DEF MessageType, State
<1>3. message' = [message EXCEPT ![m] = x]
  BY <1>1 DEF Retry, MessageType
<1>4. /\ notification[m] = None /\ message[m].mails <= message[m].retries
      /\ message[m].to \in User
  BY DEF MailOK, MailFits, TaskOutcome
<1>5. notification' = [notification EXCEPT ![m] = None]
  BY <1>4 DEF MailOK, MailTypeOK
<1>6. /\ l = "queued" => n <= k
      /\ l = "failed" => k = MaxRetries
      /\ n <= k + 1
      /\ l \in {"queued", "failed"}
  BY <1>1, <1>4 DEF MessageType
<1> HIDE DEF k, l, more
<1>7. /\ x \in MessageType /\ x.task = message[m].task /\ x.to = message[m].to
      /\ x.mails = n /\ x.retries = k /\ x.state = l
  BY <1>1, <1>2 DEF MessageType
<1> HIDE DEF x
<1>8. Fit(x, None) /\ x.state # "unused"
  BY <1>4, <1>6, <1>7 DEF Fit
<1> QED
  BY <1>3, <1>5, <1>7, <1>8, OneMessage

LEMMA MailStep == ASSUME MailOK, NextMail PROVE MailOK' /\ Grows
<1>1. /\ message \in [Message -> MessageType]
      /\ notification \in [Message -> {None, "unread", "read"}]
      /\ faults \in [{"failure", "crash"} -> Nat]
  BY DEF MailOK, MailTypeOK, MessageType
<1>2. ASSUME NEW m \in Message, NEW l \in State, Become(m, l), l # "unused",
             NEW row \in {None, "unread", "read"},
             notification' = [notification EXCEPT ![m] = row],
             faults' \in [{"failure", "crash"} -> Nat],
             Fit([message[m] EXCEPT !.state = l], row)
      PROVE  MailOK' /\ Grows
  <2> DEFINE x == [message[m] EXCEPT !.state = l]
  <2>1. /\ x \in MessageType /\ x.state = l
        /\ x.task = message[m].task /\ x.to = message[m].to /\ x.mails >= message[m].mails
    BY <1>1 DEF MessageType
  <2>2. message' = [message EXCEPT ![m] = x] /\ Fit(x, row)
    BY <1>1, <1>2 DEF Become
  <2> HIDE DEF x
  <2> QED
    BY <1>2, <2>1, <2>2, OneMessage
<1>3. ASSUME NEW m \in Message, send_email(m) PROVE MailOK' /\ Grows
  <2> DEFINE l == IF message[m].task \in WithRow THEN "mailed" ELSE "done"
             x == [message[m] EXCEPT !.mails = @ + 1, !.state = l]
  <2>1. l \in State /\ message[m].mails + 1 \in Nat
    BY <1>1 DEF MessageType, State
  <2>2. message' = [message EXCEPT ![m] = x]
    BY <1>1, <1>3 DEF send_email, MessageType
  <2>3. message[m].state = "queued" /\ UNCHANGED <<notification, faults>>
    BY <1>3 DEF send_email
  <2>4. /\ notification[m] = None /\ message[m].mails <= message[m].retries
        /\ message[m].to \in User
    BY <2>3 DEF MailOK, MailFits, TaskOutcome
  <2>5. notification' = [notification EXCEPT ![m] = None]
    BY <1>1, <2>3, <2>4
  <2>6. message[m].mails \in Nat /\ message[m].retries \in Nat
    BY <1>1 DEF MessageType
  <2>7. l = "mailed" => message[m].task \in WithRow
    OBVIOUS
  <2>8. l \in {"mailed", "done"}
    OBVIOUS
  <2> HIDE DEF l
  <2>9. /\ x \in MessageType /\ x.state = l /\ x.mails = message[m].mails + 1
        /\ x.task = message[m].task /\ x.to = message[m].to /\ x.retries = message[m].retries
    BY <1>1, <2>1 DEF MessageType
  <2> HIDE DEF x
  <2>10. /\ Fit(x, None) /\ x.state # "unused" /\ x.mails >= message[m].mails
    BY <2>4, <2>6, <2>7, <2>8, <2>9 DEF Fit
  <2> QED
    BY <1>1, <2>2, <2>3, <2>5, <2>9, <2>10, OneMessage
<1>4. ASSUME NEW m \in Message, EmailFails(m) PROVE MailOK' /\ Grows
  <2> PICK sent \in 0..1 : Retry(m, message[m].mails + sent)
    BY <1>4 DEF EmailFails
  <2>1. message[m].state = "queued" /\ Fault("failure") /\ UNCHANGED notification
    BY <1>4 DEF EmailFails
  <2>2. message[m].mails \in Nat
    BY <1>1 DEF MessageType
  <2> QED
    BY <2>1, <2>2, FaultTyped, RetryKeeps
<1>5. ASSUME NEW m \in Message, _create_notification(m) PROVE MailOK' /\ Grows
  <2>1. /\ message[m].state = "mailed" /\ Become(m, "done") /\ UNCHANGED faults
        /\ notification' = [notification EXCEPT ![m] = "unread"]
    BY <1>5 DEF _create_notification
  <2>2. Fit([message[m] EXCEPT !.state = "done"], "unread")
    BY <1>1, <2>1 DEF MailOK, MailFits, TaskOutcome, Fit, MessageType
  <2> QED
    BY <1>1, <1>2, <2>1, <2>2 DEF State
<1>6. ASSUME NEW m \in Message, RowFails(m) PROVE MailOK' /\ Grows
  <2>1. /\ message[m].state = "mailed" /\ Become(m, "done") /\ Fault("failure")
        /\ UNCHANGED notification
    BY <1>6 DEF RowFails
  <2>2. notification[m] = None
    BY <2>1 DEF MailOK, TaskOutcome
  <2>3. notification' = [notification EXCEPT ![m] = None]
    BY <1>1, <2>1, <2>2
  <2>4. Fit([message[m] EXCEPT !.state = "done"], None)
    BY <1>1, <2>1 DEF MailOK, MailFits, TaskOutcome, Fit, MessageType
  <2> QED
    BY <1>2, <2>1, <2>3, <2>4, FaultTyped DEF State
<1>7. ASSUME NEW m \in Message, Crash(m) PROVE MailOK' /\ Grows
  <2>1. /\ message[m].state \in {"queued", "mailed"} /\ Become(m, "lost") /\ Fault("crash")
        /\ UNCHANGED notification
    BY <1>7 DEF Crash
  <2>2. notification[m] = None
    BY <2>1 DEF MailOK, TaskOutcome
  <2>3. notification' = [notification EXCEPT ![m] = None]
    BY <1>1, <2>1, <2>2
  <2>4. Fit([message[m] EXCEPT !.state = "lost"], None)
    BY <1>1, <2>1 DEF MailOK, MailFits, TaskOutcome, Fit, MessageType
  <2> QED
    BY <1>2, <2>1, <2>3, <2>4, FaultTyped DEF State
<1>8. ASSUME UNCHANGED <<message, faults>>,
             \A k \in Message : notification'[k] # None => notification[k] # None,
             notification' \in [Message -> {None, "unread", "read"}]
      PROVE  MailOK' /\ Grows
  <2>1. \A k \in Message : message[k].mails \in Nat
    BY <1>1 DEF MessageType
  <2> QED
    BY <1>8, <2>1 DEF MailOK, MailTypeOK, MailFits, TaskOutcome, Grows
<1>9. ASSUME NEW m \in Message, mark_read(m) PROVE MailOK' /\ Grows
  <2>1. /\ \A k \in Message : notification'[k] # None => notification[k] # None
        /\ notification' \in [Message -> {None, "unread", "read"}]
    BY <1>1, <1>9, Constants DEF mark_read
  <2> QED
    BY <1>8, <1>9, <2>1 DEF mark_read
<1>10. ASSUME NEW u \in User, mark_all_read(u) PROVE MailOK' /\ Grows
  <2>1. notification' = [m \in Message |->
                           IF notification[m] = "unread" /\ message[m].to = u
                           THEN "read" ELSE notification[m]]
    BY <1>10 DEF mark_all_read
  <2>2. notification' \in [Message -> {None, "unread", "read"}]
    BY <1>1, <2>1
  <2>3. None # "unread"
    BY Constants
  <2> QED
    BY <1>8, <1>10, <2>1, <2>2, <2>3 DEF mark_all_read
<1> QED
  BY <1>3, <1>4, <1>5, <1>6, <1>7, <1>9, <1>10 DEF NextMail, Run

-----------------------------------------------------------------------------
(***************************************************************************)
(* Links.                                                                  *)
(***************************************************************************)

\* A token may leave "pending" when its request ends, and nothing revives a
\* token that is used.
TokensMove ==
    \A m \in Message :
        \/ token'[m] = token[m]
        \/ /\ token[m] # None
           /\ token'[m] \in Stored
           /\ token[m] = "used" => token'[m] = "used"

UsedStays == \A m \in Message : token[m] = "used" => token'[m] = "used"

\* The link m, sent to u for this task, is used up.
UsedUp(u, m, task) ==
    /\ Carries(m, task)
    /\ message[m].to = u /\ message[m].mails > 0
    /\ token[m] = "used"

LinksOK == LinksFit /\ VerifiedByMail /\ ResetByMail

\* Whatever else a step does to users, it verifies them and sets their passwords
\* with links that are used up.
UsersMove ==
    \A u \in User :
        /\ user'[u].verified =>
              user[u].verified \/ \E m \in Message : UsedUp(u, m, "send_verification_email")'
        /\ \A m \in Message : user'[u].password = m =>
              user[u].password = m \/ UsedUp(u, m, "send_password_reset_email")'

LEMMA UsedUpStays ==
    ASSUME TypeOK, MailTypeOK', LinksFit, Grows, UsedStays,
           NEW u \in User, NEW m \in Message, NEW task, UsedUp(u, m, task)
    PROVE  UsedUp(u, m, task)'
<1>1. message[m].state # "unused" /\ token[m] = "used" /\ message[m].mails \in Nat
  BY Constants DEF LinksFit, UsedUp, TypeOK, MailTypeOK
<1>2. /\ message'[m].task = message[m].task /\ message'[m].to = message[m].to
      /\ message'[m].mails >= message[m].mails
  BY <1>1 DEF Grows
<1>3. token'[m] = "used"
  BY <1>1 DEF UsedStays
<1>4. message'[m].mails \in Nat /\ message[m].mails > 0
  BY DEF MailTypeOK, UsedUp
<1>5. message'[m].mails > 0
  BY <1>1, <1>2, <1>4
<1> QED
  BY <1>2, <1>3, <1>5 DEF UsedUp, Carries

LEMMA UsersKeep ==
    ASSUME TypeOK, MailTypeOK', LinksOK, Grows, UsedStays, UsersMove
    PROVE  VerifiedByMail' /\ ResetByMail'
<1>1. \A u \in User, m \in Message, task \in {"send_verification_email", "send_password_reset_email"} :
         UsedUp(u, m, task) => UsedUp(u, m, task)'
  BY UsedUpStays DEF LinksOK
<1>2. \A u \in User \ Members : user[u].verified =>
         \E m \in Message : UsedUp(u, m, "send_verification_email")
  BY DEF LinksOK, VerifiedByMail, UsedUp
<1>3. \A u \in User \ Members : user'[u].verified =>
         \E m \in Message : UsedUp(u, m, "send_verification_email")'
  BY <1>1, <1>2 DEF UsersMove
<1>4. \A u \in User, m \in Message :
         user[u].password = m => UsedUp(u, m, "send_password_reset_email")
  BY DEF LinksOK, ResetByMail, UsedUp
<1>5. \A u \in User, m \in Message :
         user'[u].password = m => UsedUp(u, m, "send_password_reset_email")'
  BY <1>1, <1>4 DEF UsersMove
<1>6. VerifiedByMail'
  BY <1>3 DEF VerifiedByMail, UsedUp
<1>7. ResetByMail'
  BY <1>5 DEF ResetByMail, UsedUp
<1> QED
  BY <1>6, <1>7

\* A request without a link.
Plain(w) == w.op \notin Sending \union Opening /\ w.link = None /\ w.links = {}

LEMMA LinksKeep ==
    ASSUME TypeOK, MailTypeOK', LinksOK, Grows, TokensMove, UsersMove,
           \A r \in Request :
              \/ /\ req'[r] = req[r]
                 /\ req[r].op \in Sending => token'[req[r].link] = "pending"
              \/ Plain(req'[r])
              \/ /\ req'[r].op \in Opening /\ req'[r].links = {}
                 /\ req'[r].link \in Message
                 /\ token'[req'[r].link] \in Stored
                 /\ message'[req'[r].link].mails > 0
                 /\ message'[req'[r].link].to = req'[r].user
                 /\ message'[req'[r].link].task = LinkTask(req'[r].op)
    PROVE  LinksOK'
<1>1. VerifiedByMail' /\ ResetByMail'
  BY UsersKeep DEF TokensMove, UsedStays
<1>2. None \notin Stored
  BY Constants DEF Stored
<1>3. \A m \in Message : message'[m].state = "unused" => token'[m] = None
  BY DEF LinksOK, LinksFit, Grows, TokensMove
<1>4. \A m \in Message : token[m] \in Stored => token'[m] \in Stored
  BY DEF TokensMove
<1>5. ASSUME NEW r \in Request, req'[r] = req[r], req[r].op \in Opening
      PROVE  /\ req[r].link \in Message
             /\ token'[req[r].link] \in Stored
             /\ message'[req[r].link].mails > 0
             /\ message'[req[r].link].to = req[r].user
             /\ message'[req[r].link].task = LinkTask(req[r].op)
  <2>1. Opened(req[r])
    BY <1>5 DEF LinksOK, LinksFit
  <2> DEFINE m == req[r].link
  <2>2. m \in Message /\ token[m] \in Stored /\ message[m].state # "unused"
    BY <1>2, <2>1 DEF Opened, LinksOK, LinksFit
  <2>3. /\ message'[m].task = message[m].task /\ message'[m].to = message[m].to
        /\ message'[m].mails >= message[m].mails /\ message[m].mails \in Nat
    BY <2>2 DEF Grows, TypeOK, MailTypeOK
  <2>4. /\ message[m].mails > 0 /\ message[m].to = req[r].user
        /\ message[m].task = LinkTask(req[r].op)
    BY <2>1 DEF Opened, Carries
  <2>5. message'[m].mails > 0
    <3>1. message'[m].mails \in Nat
      BY <2>2 DEF MailTypeOK
    <3> QED
      BY <2>3, <2>4, <3>1
  <2> QED
    BY <1>4, <2>2, <2>3, <2>4, <2>5
<1>6. \A r \in Request :
         /\ req'[r].op \in Sending =>
               /\ req'[r] = req[r] /\ req[r].link \in Message
               /\ token'[req[r].link] = "pending"
         /\ req'[r].op \in Opening =>
               /\ req'[r].link \in Message
               /\ token'[req'[r].link] \in Stored
               /\ message'[req'[r].link].mails > 0
               /\ message'[req'[r].link].to = req'[r].user
               /\ message'[req'[r].link].task = LinkTask(req'[r].op)
         /\ req'[r].op \notin Sending \union Opening =>
               req'[r].link = None /\ req'[r].links = {}
         /\ \A m \in req'[r].links : token'[m] \in Stored
  <2> TAKE r \in Request
  <2>1. req[r].links \subseteq Message
    BY DEF TypeOK, Work
  <2>2. CASE req'[r] = req[r] /\ (req[r].op \in Sending => token'[req[r].link] = "pending")
    BY <1>4, <1>5, <2>1, <2>2 DEF LinksOK, LinksFit
  <2>3. CASE Plain(req'[r])
    BY <2>3 DEF Plain
  <2>4. CASE req'[r].op \in Opening /\ req'[r].links = {}
    BY <1>5, <2>2, <2>3, <2>4 DEF Opening, Sending
  <2> QED
    BY <2>2, <2>3, <2>4
<1>7. LinksFit'
  <2>1. \A r \in Request : req'[r].op \in Opening => Opened(req[r])'
    BY <1>6 DEF Opened, Carries
  <2>2. \A q, r \in Request :
           req'[q].op \in Sending /\ req'[r].op \in Sending /\ req'[q].link = req'[r].link
           => q = r
    BY <1>6 DEF LinksOK, LinksFit
  <2> QED
    BY <1>3, <1>6, <2>1, <2>2 DEF LinksFit
<1> QED
  BY <1>1, <1>7 DEF LinksOK

-----------------------------------------------------------------------------
(***************************************************************************)
(* Requests.                                                               *)
(***************************************************************************)

Users == [status : AccountStatus \union {None}, verified : BOOLEAN, tier : Tier, password : Nat]
Kycs == [tier : Tier, bvn : BVN \union {None}]
Tokens == {None, "pending", "valid", "used", "expired", "void"}
Events == {"request", "by_hand", "expiry"}

\* The part of the invariant that is not about tiers.
Sound == TypeOK /\ WorkFits /\ MailOK /\ LinksOK

LEMMA Typed ==
    TypeOK <=> /\ MailTypeOK
               /\ user \in [User -> Users] /\ seller \in [User -> Sellers]
               /\ kyc \in [User -> Kycs] /\ token \in [Message -> Tokens]
               /\ req \in [Request -> Work] /\ spent \in [Events -> Nat]
BY DEF TypeOK, Users, Sellers, Kycs, Tokens, Events

LEMMA IdleFits == Idle \in Work /\ Complete(Idle) /\ Plain(Idle)
<1>1. Idle \in Work
  BY DEF Idle, Work
<1>2. Idle.op = "idle" /\ Idle.link = None /\ Idle.links = {}
  BY DEF Idle
<1> QED
  BY <1>1, <1>2 DEF Complete, Plain, Sending, Opening, Decision

\* One request changes: what it becomes is complete, and has no link or opens one.
LEMMA OneRequest ==
    ASSUME Sound, NEW r \in Request, NEW w \in Work, Complete(w),
           req' = [req EXCEPT ![r] = w],
           MailOK', Grows, TokensMove, UsersMove,
           user' \in [User -> Users], seller' \in [User -> Sellers],
           kyc' \in [User -> Kycs], token' \in [Message -> Tokens],
           spent' \in [Events -> Nat],
           \A q \in Request \ {r} :
              req[q].op \in Sending => token'[req[q].link] = "pending",
           \/ Plain(w)
           \/ /\ w.op \in Opening /\ w.links = {}
              /\ w.link \in Message
              /\ token'[w.link] \in Stored
              /\ message'[w.link].mails > 0
              /\ message'[w.link].to = w.user
              /\ message'[w.link].task = LinkTask(w.op)
    PROVE  Sound'
<1>1. req \in [Request -> Work]
  BY Typed DEF Sound
<1>2. \A q \in Request : req'[q] = IF q = r THEN w ELSE req[q]
  BY <1>1
<1>3. TypeOK'
  BY <1>1, Typed DEF MailOK, TypeOK, Users, Sellers, Kycs, Tokens, Events
<1>4. WorkFits'
  <2>1. \A q \in Request : Complete(req'[q])
    BY <1>2 DEF Sound, WorkFits
  <2> QED
    BY <2>1 DEF WorkFits, Complete
<1>5. LinksOK'
  BY <1>2, LinksKeep DEF Sound, MailOK
<1> QED
  BY <1>3, <1>4, <1>5 DEF Sound

\* No request changes.
LEMMA NoRequest ==
    ASSUME Sound, UNCHANGED req,
           MailOK', Grows, TokensMove, UsersMove,
           user' \in [User -> Users], seller' \in [User -> Sellers],
           kyc' \in [User -> Kycs], token' \in [Message -> Tokens],
           spent' \in [Events -> Nat],
           \A q \in Request : req[q].op \in Sending => token'[req[q].link] = "pending"
    PROVE  Sound'
<1>1. TypeOK'
  BY Typed DEF Sound, MailOK, TypeOK, Users, Sellers, Kycs, Tokens, Events
<1>2. WorkFits'
  BY DEF Sound, WorkFits, Complete
<1>3. LinksOK'
  BY LinksKeep DEF Sound, MailOK
<1> QED
  BY <1>1, <1>2, <1>3 DEF Sound

LEMMA BeginTyped ==
    ASSUME Sound, NEW r \in Request, NEW w \in Work, Begin(r, w)
    PROVE  /\ req' = [req EXCEPT ![r] = w]
           /\ req[r].op = "idle"
           /\ spent' \in [Events -> Nat]
<1>1. spent \in [Events -> Nat]
  BY Typed DEF Sound
<1> QED
  BY <1>1 DEF Begin, Spend, Events

LEMMA ReadKeeps ==
    ASSUME Sound, NEW r \in Request, NEW w \in Work, Complete(w), Read(r, w),
           \/ Plain(w)
           \/ w.op \in Opening /\ w.links = {} /\ Opened(w)
    PROVE  Sound'
<1>1. Begin(r, w) /\ UNCHANGED <<message, notification, faults, user, seller, kyc, token>>
  BY DEF Read, mail, rows
<1>2. MailOK' /\ Grows
  BY <1>1, Stutters DEF Sound, MailOK, MailTypeOK
<1>3. TokensMove /\ UsersMove
  BY <1>1 DEF TokensMove, UsersMove
<1>4. \A q \in Request : req[q].op \in Sending => token'[req[q].link] = "pending"
  BY <1>1 DEF Sound, LinksOK, LinksFit
<1>5. \/ Plain(w)
      \/ /\ w.op \in Opening /\ w.links = {} /\ w.link \in Message
         /\ token'[w.link] \in Stored /\ message'[w.link].mails > 0
         /\ message'[w.link].to = w.user /\ message'[w.link].task = LinkTask(w.op)
  BY <1>1 DEF Opened, Carries
<1>6. /\ user' \in [User -> Users] /\ seller' \in [User -> Sellers]
      /\ kyc' \in [User -> Kycs] /\ token' \in [Message -> Tokens]
  BY <1>1, Typed DEF Sound
<1> QED
  BY <1>1, <1>2, <1>3, <1>4, <1>5, <1>6, BeginTyped, OneRequest

\* A request that ends in one commit; only its own link may leave "pending".
LEMMA FinishKeeps ==
    ASSUME Sound, NEW r \in Request, NEW op, Finish(r, op),
           MailOK', Grows, TokensMove, UsersMove,
           user' \in [User -> Users], seller' \in [User -> Sellers],
           kyc' \in [User -> Kycs], token' \in [Message -> Tokens],
           \A m \in Message : token[m] = "pending" /\ token'[m] # "pending" =>
              req[r].op \in Sending /\ req[r].link = m
    PROVE  Sound'
<1>1. req' = [req EXCEPT ![r] = Idle] /\ spent' \in [Events -> Nat]
  BY Typed DEF Finish, Sound
<1>2. \A q \in Request \ {r} : req[q].op \in Sending => token'[req[q].link] = "pending"
  BY DEF Sound, LinksOK, LinksFit
<1> QED
  BY <1>1, <1>2, IdleFits, OneRequest

\* A new link takes a message and a token that nobody uses.
LEMMA SendKeeps ==
    ASSUME Sound, NEW r \in Request, NEW w \in Work, NEW m \in Message,
           NEW task \in AccountMails, w.user \in User, w.op \in Sending,
           \A k \in w.links : token[k] \in Stored,
           SendLink(r, w, m, task)
    PROVE  Sound'
<1> DEFINE x == [w EXCEPT !.link = m]
<1>1. /\ Begin(r, x) /\ Delay(m, task, w.user)
      /\ token' = [token EXCEPT ![m] = "pending"]
      /\ UNCHANGED <<notification, faults, user, seller, kyc>>
  BY DEF SendLink
<1>2. /\ x \in Work /\ x.op = w.op /\ x.user = w.user /\ x.link = m /\ x.links = w.links
      /\ x.target = w.target /\ x.seller = w.seller
  BY DEF Work
<1> HIDE DEF x
<1>3. /\ token \in [Message -> Tokens] /\ req \in [Request -> Work]
      /\ user \in [User -> Users] /\ seller \in [User -> Sellers] /\ kyc \in [User -> Kycs]
  BY Typed DEF Sound
<1>4. req' = [req EXCEPT ![r] = x] /\ spent' \in [Events -> Nat]
  BY <1>1, <1>2, BeginTyped
<1>5. MailOK' /\ Grows
  BY <1>1, DelayKeeps, Tasks DEF Sound, MailOK, MailTypeOK
<1>6. message[m].state = "unused" /\ token[m] = None
  BY <1>1 DEF Delay, Sound, LinksOK, LinksFit
<1>7. \A k \in Message : token'[k] = IF k = m THEN "pending" ELSE token[k]
  BY <1>1, <1>3
<1>8. \A q \in Request : req'[q] = IF q = r THEN x ELSE req[q]
  BY <1>3, <1>4
<1>9. "pending" # None /\ None \notin Stored
  BY Constants DEF Stored
<1>10. VerifiedByMail' /\ ResetByMail'
  <2>1. UsedStays
    BY <1>6, <1>7, Constants DEF UsedStays
  <2>2. UsersMove
    BY <1>1 DEF UsersMove
  <2> QED
    BY <1>5, <2>1, <2>2, UsersKeep DEF Sound, MailOK
<1>11. TypeOK' /\ WorkFits'
  <2>1. TypeOK'
    BY <1>1, <1>2, <1>3, <1>4, <1>5
       DEF MailOK, TypeOK, Users, Sellers, Kycs, Tokens, Events
  <2>2. Complete(x)
    BY <1>2 DEF Complete, Sending, Decision
  <2>3. \A q \in Request : Complete(req'[q])
    BY <1>8, <2>2 DEF Sound, WorkFits
  <2> QED
    BY <2>1, <2>3 DEF WorkFits, Complete
<1>12. LinksFit'
  <2>1. \A k \in Message : message'[k].state = "unused" => token'[k] = None
    <3>1. message'[m].state # "unused"
      <4>1. message \in [Message -> MessageType] /\ Unused \in MessageType
        BY Constants DEF Sound, MailOK, MailTypeOK, MessageType, Unused, State
      <4> QED
        BY <1>1, <4>1 DEF Delay, MessageType
    <3> QED
      BY <1>5, <1>7, <3>1 DEF Grows, Sound, LinksOK, LinksFit
  <2>2. \A q \in Request : q # r =>
           /\ req[q].op \in Sending =>
                 /\ req[q].link \in Message /\ req[q].link # m
                 /\ token'[req[q].link] = "pending"
           /\ \A k \in req[q].links : token'[k] \in Stored
    <3>1. \A q \in Request : req[q].links \subseteq Message
      BY <1>3 DEF Work
    <3> QED
      BY <1>6, <1>7, <1>9, <3>1 DEF Sound, LinksOK, LinksFit
  <2>3. ASSUME NEW q \in Request, q # r, req[q].op \in Opening PROVE Opened(req[q])'
    <3> DEFINE k == req[q].link
    <3>1. Opened(req[q])
      BY <2>3 DEF Sound, LinksOK, LinksFit
    <3>2. k \in Message /\ k # m /\ token'[k] \in Stored /\ message'[k] = message[k]
      BY <1>1, <1>6, <1>7, <1>9, <3>1 DEF Opened, Delay, Sound, MailOK, MailTypeOK
    <3>3. req'[q] = req[q]
      BY <1>8, <2>3
    <3> QED
      BY <3>1, <3>2, <3>3 DEF Opened, Carries
  <2>4. \A k \in x.links : token'[k] \in Stored
    BY <1>2, <1>6, <1>7, <1>9 DEF Work
  <2>5. x.op \in Sending /\ x.op \notin Opening /\ x.link = m /\ token'[m] = "pending"
    BY <1>2, <1>7 DEF Sending, Opening
  <2>6. \A q \in Request :
           /\ req'[q].op \in Sending => req'[q].link \in Message /\ token'[req'[q].link] = "pending"
           /\ req'[q].op \in Opening => Opened(req[q])'
           /\ req'[q].op \notin Sending \union Opening =>
                 req'[q].link = None /\ req'[q].links = {}
           /\ \A k \in req'[q].links : token'[k] \in Stored
    <3> TAKE q \in Request
    <3>1. CASE q = r
      BY <1>8, <2>4, <2>5, <3>1
    <3>2. CASE q # r
      BY <1>8, <2>2, <2>3, <3>2 DEF Sound, LinksOK, LinksFit
    <3> QED
      BY <3>1, <3>2
  <2>7. \A p, q \in Request :
           req'[p].op \in Sending /\ req'[q].op \in Sending /\ req'[p].link = req'[q].link
           => p = q
    BY <1>8, <2>2, <2>5 DEF Sound, LinksOK, LinksFit
  <2> QED
    BY <2>1, <2>6, <2>7 DEF LinksFit
<1> QED
  BY <1>5, <1>10, <1>11, <1>12 DEF Sound, LinksOK

LEMMA Begins == ASSUME Sound, NEW r \in Request, LinkStep(r) \/ UserStep(r) PROVE Sound'
<1>1. /\ seller \in [User -> Sellers] /\ user \in [User -> Users] /\ kyc \in [User -> Kycs]
      /\ message \in [Message -> MessageType]
  BY Typed DEF Sound, MailOK, MailTypeOK, MessageType
<1>2. /\ Idle \in Work /\ Idle.link = None /\ Idle.links = {} /\ Idle.op = "idle"
  BY DEF Idle, Work
<1>3. ASSUME NEW u \in User, NEW m \in Message, register(r, u, m) PROVE Sound'
  <2> DEFINE w == [Idle EXCEPT !.op = "register", !.user = u]
  <2>1. /\ w \in Work /\ w.user = u /\ w.op = "register" /\ w.links = {}
    BY <1>2 DEF Work, Op
  <2>2. SendLink(r, w, m, "send_verification_email")
    BY <1>3 DEF register
  <2> HIDE DEF w
  <2> QED
    BY <2>1, <2>2, SendKeeps DEF Sending, AccountMails
<1>4. ASSUME NEW u \in User, NEW m \in Message, forgot_password(r, u, m) PROVE Sound'
  <2> DEFINE w == [Idle EXCEPT !.op = "forgot_password", !.user = u]
  <2>1. /\ w \in Work /\ w.user = u /\ w.op = "forgot_password" /\ w.links = {}
    BY <1>2 DEF Work, Op
  <2>2. SendLink(r, w, m, "send_password_reset_email")
    BY <1>4 DEF forgot_password
  <2> HIDE DEF w
  <2> QED
    BY <2>1, <2>2, SendKeeps DEF Sending, AccountMails
<1>5. ASSUME NEW u \in User, NEW m \in Message, resend_email_verification(r, u, m) PROVE Sound'
  <2> DEFINE w == [Idle EXCEPT !.op = "resend", !.user = u, !.links = Links(u)]
  <2>1. Links(u) \subseteq Message /\ \A k \in Links(u) : token[k] \in Stored
    BY DEF Links, Stored
  <2>2. /\ w \in Work /\ w.user = u /\ w.op = "resend" /\ w.links = Links(u)
    BY <1>2, <2>1 DEF Work, Op
  <2>3. SendLink(r, w, m, "send_verification_email")
    BY <1>5 DEF resend_email_verification
  <2> HIDE DEF w
  <2> QED
    BY <2>1, <2>2, <2>3, SendKeeps DEF Sending, AccountMails
<1>6. ASSUME NEW m \in Message, NEW op \in Opening, ValidLink(m, LinkTask(op)),
             Read(r, [Idle EXCEPT !.op = op, !.user = message[m].to, !.link = m])
      PROVE  Sound'
  <2> DEFINE w == [Idle EXCEPT !.op = op, !.user = message[m].to, !.link = m]
  <2>1. /\ message[m].mails > 0 /\ token[m] = "valid" /\ Carries(m, LinkTask(op))
    BY <1>6 DEF ValidLink
  <2>2. message[m].to \in User
    <3>1. message[m].state # "unused"
      BY <2>1, Constants DEF Sound, LinksOK, LinksFit
    <3> QED
      BY <3>1 DEF Sound, MailOK, MailFits
  <2>3. /\ w \in Work /\ w.user = message[m].to /\ w.op = op /\ w.links = {} /\ w.link = m
    BY <1>2, <2>2 DEF Work, Op, Opening
  <2>4. Read(r, w)
    BY <1>6
  <2> HIDE DEF w
  <2>5. Complete(w) /\ Opened(w)
    BY <2>1, <2>2, <2>3 DEF Complete, Opened, Opening, Decision, Stored
  <2> QED
    BY <2>3, <2>4, <2>5, ReadKeeps
<1>7. ASSUME NEW m \in Message, verify_email(r, m) \/ reset_password(r, m) PROVE Sound'
  <2>1. CASE verify_email(r, m)
    <3>1. "verify_email" \in Opening /\ LinkTask("verify_email") = "send_verification_email"
      BY DEF Opening, LinkTask
    <3> QED
      BY <1>6, <2>1, <3>1 DEF verify_email
  <2>2. CASE reset_password(r, m)
    <3>1. /\ "reset_password" \in Opening
          /\ LinkTask("reset_password") = "send_password_reset_email"
      BY DEF Opening, LinkTask
    <3> QED
      BY <1>6, <2>2, <3>1 DEF reset_password
  <2> QED
    BY <1>7, <2>1, <2>2
<1>8. ASSUME NEW u \in User, NEW op \in {"change_password", "deactivate"},
             Read(r, [Idle EXCEPT !.op = op, !.user = u])
      PROVE  Sound'
  <2> DEFINE w == [Idle EXCEPT !.op = op, !.user = u]
  <2>1. w \in Work /\ w.user = u /\ w.op = op /\ w.link = None /\ w.links = {}
    BY <1>2 DEF Work, Op
  <2>2. Read(r, w)
    BY <1>8
  <2> HIDE DEF w
  <2>3. Complete(w) /\ Plain(w)
    BY <2>1 DEF Complete, Plain, Sending, Opening, Decision
  <2> QED
    BY <2>1, <2>2, <2>3, ReadKeeps
<1>9. ASSUME NEW u \in User, NEW op \in Decision,
             Read(r, [Idle EXCEPT !.op = op, !.user = u, !.seller = seller[u]])
      PROVE  Sound'
  <2> DEFINE p == seller[u]
             w == [Idle EXCEPT !.op = op, !.user = u, !.seller = p]
  <2>1. p \in Sellers /\ op \in Op
    BY <1>1 DEF Op
  <2>2. /\ w \in Work /\ w.user = u /\ w.op = op /\ w.link = None /\ w.links = {}
        /\ w.seller = p
    <3> HIDE DEF p
    <3> QED
      BY <1>2, <2>1 DEF Work, Sellers
  <2>3. Read(r, w)
    BY <1>9
  <2> HIDE DEF w
  <2>4. Complete(w) /\ Plain(w)
    BY <2>1, <2>2 DEF Complete, Plain, Sending, Opening, Decision
  <2> QED
    BY <2>2, <2>3, <2>4, ReadKeeps
<1>10. ASSUME NEW u \in User, NEW b \in BVN, verify_bvn(r, u, b) PROVE Sound'
  <2> DEFINE w == [Idle EXCEPT !.op = "verify_bvn", !.user = u, !.target = b,
                               !.tier = user[u].tier]
  <2>1. user[u].tier \in Tier
    BY <1>1 DEF Users
  <2>2. /\ w \in Work /\ w.user = u /\ w.op = "verify_bvn" /\ w.link = None /\ w.links = {}
        /\ w.target = b
    BY <1>2, <2>1 DEF Work, Op
  <2>3. Read(r, w)
    BY <1>10 DEF verify_bvn
  <2> HIDE DEF w
  <2>4. Complete(w) /\ Plain(w)
    BY <2>2 DEF Complete, Plain, Sending, Opening, Decision
  <2> QED
    BY <2>2, <2>3, <2>4, ReadKeeps
<1>11. ASSUME NEW u \in User, NEW t \in Tier, admin_upgrade_tier(r, u, t) PROVE Sound'
  <2> DEFINE w == [Idle EXCEPT !.op = "upgrade_tier", !.user = u, !.target = t,
                               !.tier = user[u].tier, !.kyc_tier = kyc[u].tier]
  <2>1. user[u].tier \in Tier /\ kyc[u].tier \in Tier
    BY <1>1 DEF Users, Kycs
  <2>2. /\ w \in Work /\ w.user = u /\ w.op = "upgrade_tier" /\ w.link = None /\ w.links = {}
        /\ w.target = t
    BY <1>2, <2>1 DEF Work, Op
  <2>3. Read(r, w)
    BY <1>11 DEF admin_upgrade_tier
  <2> HIDE DEF w
  <2>4. Complete(w) /\ Plain(w)
    BY <2>2 DEF Complete, Plain, Sending, Opening, Decision
  <2> QED
    BY <2>2, <2>3, <2>4, ReadKeeps
<1>12. CASE LinkStep(r)
  BY <1>3, <1>4, <1>5, <1>7, <1>12 DEF LinkStep
<1>13. CASE UserStep(r)
  <2> PICK u \in User :
        \/ change_password(r, u) \/ deactivate_account(r, u) \/ register_as_seller(r, u)
        \/ verify_seller(r, u, "approve") \/ verify_seller(r, u, "reject")
        \/ \E b \in BVN : verify_bvn(r, u, b)
        \/ \E t \in Tier : admin_upgrade_tier(r, u, t)
    BY <1>13 DEF UserStep
  <2>1. CASE change_password(r, u) \/ deactivate_account(r, u)
    BY <1>8, <2>1 DEF change_password, deactivate_account, AdmittedActive, Admitted
  <2>2. CASE register_as_seller(r, u)
    BY <1>9, <2>2 DEF register_as_seller, Decision
  <2>3. CASE verify_seller(r, u, "approve") \/ verify_seller(r, u, "reject")
    BY <1>9, <2>3 DEF verify_seller, Decision
  <2> QED
    BY <1>10, <1>11, <2>1, <2>2, <2>3
<1> QED
  BY <1>12, <1>13

\* A commit that queues nothing.
LEMMA CommitKeeps ==
    ASSUME Sound, NEW r \in Request, NEW op, Finish(r, op), UNCHANGED mail,
           TokensMove, UsersMove,
           user' \in [User -> Users], seller' \in [User -> Sellers],
           kyc' \in [User -> Kycs], token' \in [Message -> Tokens],
           \A m \in Message : token[m] = "pending" /\ token'[m] # "pending" =>
              req[r].op \in Sending /\ req[r].link = m
    PROVE  Sound'
<1>1. MailOK' /\ Grows
  BY Stutters DEF Sound, MailOK, MailTypeOK, mail
<1> QED
  BY <1>1, FinishKeeps

\* One user's row changes, and neither verification nor a link's password comes of it.
LEMMA UserRow ==
    ASSUME user \in [User -> Users], NEW u \in User, NEW x \in Users,
           user' = [user EXCEPT ![u] = x],
           x.verified => user[u].verified,
           x.password \in {0, user[u].password}
    PROVE  user' \in [User -> Users] /\ UsersMove
<1>1. 0 \notin Message
  BY DEF Message
<1>2. \A v \in User : user'[v] = IF v = u THEN x ELSE user[v]
  OBVIOUS
<1> QED
  BY <1>1, <1>2 DEF UsersMove

\* One token changes, of a message that is out.
LEMMA TokenRow ==
    ASSUME token \in [Message -> Tokens], NEW m \in Message, NEW l \in Stored,
           token' = [token EXCEPT ![m] = l],
           token[m] # None, token[m] = "used" => l = "used"
    PROVE  /\ token' \in [Message -> Tokens] /\ TokensMove
           /\ \A k \in Message : token'[k] = IF k = m THEN l ELSE token[k]
<1>1. Stored \subseteq Tokens
  BY DEF Stored, Tokens
<1>2. \A k \in Message : token'[k] = IF k = m THEN l ELSE token[k]
  OBVIOUS
<1>3. token' \in [Message -> Tokens]
  BY <1>1
<1>4. TokensMove
  BY <1>2 DEF TokensMove
<1> QED
  BY <1>2, <1>3, <1>4

LEMMA LinkCommits ==
    ASSUME Sound, NEW r \in Request,
           \/ RegisterCommits(r) \/ ForgotCommits(r) \/ ResendCommits(r)
           \/ VerifyCommits(r) \/ ResetCommits(r)
    PROVE  Sound'
<1> DEFINE u == req[r].user
           m == req[r].link
<1>1. /\ seller \in [User -> Sellers] /\ user \in [User -> Users] /\ kyc \in [User -> Kycs]
      /\ token \in [Message -> Tokens] /\ req[r] \in Work
  BY Typed DEF Sound
<1>2. None \notin Stored /\ "pending" \notin Stored /\ None # "pending"
      /\ "pending" \in Tokens /\ Stored \subseteq Tokens
  BY Constants DEF Stored, Tokens
<1>3. req[r].op \in Sending => m \in Message /\ token[m] = "pending"
  BY DEF Sound, LinksOK, LinksFit
<1>4. req[r].op \in Opening => Opened(req[r])
  BY DEF Sound, LinksOK, LinksFit
<1>5. req[r].op # "idle" => u \in User
  BY DEF Sound, WorkFits, Complete
<1>6. UNCHANGED user => UsersMove
  BY DEF UsersMove
<1>7. "valid" \in Stored /\ "used" \in Stored
  BY DEF Stored
<1>8. CASE RegisterCommits(r)
  <2>1. /\ Finish(r, "register") /\ UNCHANGED mail /\ UNCHANGED <<seller, kyc>>
        /\ user' = [user EXCEPT ![u] = NewUser] /\ token' = [token EXCEPT ![m] = "valid"]
    BY <1>8 DEF RegisterCommits, mail
  <2>2. req[r].op = "register"
    BY <2>1 DEF Finish
  <2>3. u \in User /\ m \in Message /\ token[m] = "pending" /\ req[r].op \in Sending
    BY <1>3, <1>5, <2>2 DEF Sending
  <2>4. NewUser \in Users /\ NewUser.verified = FALSE /\ NewUser.password = 0
    BY DEF NewUser, NoUser, Users, AccountStatus, Tier
  <2>5. user' \in [User -> Users] /\ UsersMove
    BY <1>1, <2>1, <2>3, <2>4, UserRow
  <2>6. /\ token' \in [Message -> Tokens] /\ TokensMove
        /\ \A k \in Message : token'[k] = IF k = m THEN "valid" ELSE token[k]
    BY <1>1, <1>2, <1>7, <2>1, <2>3, TokenRow
  <2>7. \A k \in Message : token[k] = "pending" /\ token'[k] # "pending" => k = m
    BY <2>6
  <2> QED
    BY <1>1, <2>1, <2>3, <2>5, <2>6, <2>7, CommitKeeps
<1>9. CASE ForgotCommits(r)
  <2>1. /\ Finish(r, "forgot_password") /\ UNCHANGED mail /\ UNCHANGED <<user, seller, kyc>>
        /\ token' = [token EXCEPT ![m] = "valid"]
    BY <1>9 DEF ForgotCommits, mail
  <2>2. req[r].op = "forgot_password"
    BY <2>1 DEF Finish
  <2>3. m \in Message /\ token[m] = "pending" /\ req[r].op \in Sending
    BY <1>3, <2>2 DEF Sending
  <2>4. /\ token' \in [Message -> Tokens] /\ TokensMove
        /\ \A k \in Message : token'[k] = IF k = m THEN "valid" ELSE token[k]
    BY <1>1, <1>2, <1>7, <2>1, <2>3, TokenRow
  <2>5. \A k \in Message : token[k] = "pending" /\ token'[k] # "pending" => k = m
    BY <2>4
  <2> QED
    BY <1>1, <1>6, <2>1, <2>3, <2>4, <2>5, CommitKeeps
<1>10. CASE ResendCommits(r)
  <2>1. /\ Finish(r, "resend") /\ UNCHANGED mail /\ UNCHANGED <<user, seller, kyc>>
        /\ token' = [k \in Message |-> IF k \in req[r].links THEN "used"
                                        ELSE IF k = m THEN "valid" ELSE token[k]]
    BY <1>10 DEF ResendCommits, mail
  <2>2. req[r].op = "resend"
    BY <2>1 DEF Finish
  <2>3. m \in Message /\ token[m] = "pending" /\ req[r].op \in Sending
    BY <1>3, <2>2 DEF Sending
  <2>4. \A k \in req[r].links : token[k] \in Stored
    BY DEF Sound, LinksOK, LinksFit
  <2>5. token' \in [Message -> Tokens]
    BY <1>1, <1>2, <1>7, <2>1
  <2>6. TokensMove
    BY <1>2, <1>7, <2>1, <2>3, <2>4 DEF TokensMove
  <2>7. \A k \in Message : token[k] = "pending" /\ token'[k] # "pending" => k = m
    BY <1>2, <2>1, <2>4
  <2> QED
    BY <1>1, <1>6, <2>1, <2>3, <2>5, <2>6, <2>7, CommitKeeps
<1>11. ASSUME req[r].op \in Opening, NEW k, k = m, NEW v, v = u,
              NEW task, task = LinkTask(req[r].op),
              token' = [token EXCEPT ![k] = "used"], UNCHANGED mail
       PROVE  /\ k \in Message /\ token' \in [Message -> Tokens] /\ TokensMove
              /\ \A l \in Message : token[l] = "pending" => token'[l] = "pending"
              /\ UsedUp(v, k, task)'
  <2>1. /\ k \in Message /\ token[k] \in Stored
        /\ message[k].mails > 0 /\ message[k].to = v /\ message[k].task = task
    BY <1>4, <1>11 DEF Opened, Carries
  <2>2. /\ token' \in [Message -> Tokens] /\ TokensMove
        /\ \A l \in Message : token'[l] = IF l = k THEN "used" ELSE token[l]
    BY <1>1, <1>2, <1>7, <1>11, <2>1, TokenRow
  <2>3. UNCHANGED message
    BY <1>11 DEF mail
  <2>4. UsedUp(v, k, task)'
    BY <2>1, <2>2, <2>3 DEF UsedUp, Carries
  <2> QED
    BY <1>2, <2>1, <2>2, <2>4
<1>12. CASE VerifyCommits(r)
  <2>1. /\ Finish(r, "verify_email") /\ UNCHANGED mail /\ UNCHANGED <<seller, kyc>>
        /\ user' = [user EXCEPT ![u].verified = TRUE] /\ token' = [token EXCEPT ![m] = "used"]
    BY <1>12 DEF VerifyCommits, mail
  <2>2. /\ req[r].op \in Opening /\ u \in User
        /\ LinkTask(req[r].op) = "send_verification_email"
    BY <1>5, <2>1 DEF Finish, Opening, LinkTask
  <2>3. PICK v, k : v = u /\ k = m
    OBVIOUS
  <2>4. /\ k \in Message /\ token' \in [Message -> Tokens] /\ TokensMove
        /\ \A l \in Message : token[l] = "pending" => token'[l] = "pending"
        /\ UsedUp(v, k, "send_verification_email")'
    BY <1>11, <2>1, <2>2, <2>3
  <2>5. user' \in [User -> Users]
    BY <1>1, <2>1, <2>2 DEF Users
  <2>6. \A w \in User : /\ user'[w].verified => user[w].verified \/ w = v
                        /\ user'[w].password = user[w].password
    BY <1>1, <2>1, <2>2, <2>3 DEF Users
  <2>7. UsersMove
    BY <2>4, <2>6 DEF UsersMove
  <2> QED
    BY <1>1, <2>1, <2>4, <2>5, <2>7, CommitKeeps
<1>13. CASE ResetCommits(r)
  <2>1. /\ Finish(r, "reset_password") /\ UNCHANGED mail /\ UNCHANGED <<seller, kyc>>
        /\ user' = [user EXCEPT ![u].password = m] /\ token' = [token EXCEPT ![m] = "used"]
    BY <1>13 DEF ResetCommits, mail
  <2>2. /\ req[r].op \in Opening /\ u \in User
        /\ LinkTask(req[r].op) = "send_password_reset_email"
    BY <1>5, <2>1 DEF Finish, Opening, LinkTask
  <2>3. PICK v, k : v = u /\ k = m
    OBVIOUS
  <2>4. /\ k \in Message /\ token' \in [Message -> Tokens] /\ TokensMove
        /\ \A l \in Message : token[l] = "pending" => token'[l] = "pending"
        /\ UsedUp(v, k, "send_password_reset_email")'
    BY <1>11, <2>1, <2>2, <2>3
  <2>5. user' \in [User -> Users]
    <3>1. k \in Nat /\ v \in User /\ user' = [user EXCEPT ![v].password = k]
      BY <2>1, <2>2, <2>3, <2>4 DEF Message
    <3> QED
      BY <1>1, <3>1 DEF Users
  <2>6. \A w \in User : /\ user'[w].verified = user[w].verified
                        /\ user'[w].password = IF w = v THEN k ELSE user[w].password
    BY <1>1, <2>1, <2>2, <2>3 DEF Users
  <2>7. UsersMove
    BY <2>4, <2>6 DEF UsersMove
  <2> QED
    BY <1>1, <2>1, <2>4, <2>5, <2>7, CommitKeeps
<1> QED
  BY <1>8, <1>9, <1>10, <1>12, <1>13

\* A commit that leaves messages and tokens alone, and changes one user's row,
\* seller profile or KYC profile.
LEMMA RowCommits ==
    ASSUME Sound, NEW r \in Request, NEW op, Finish(r, op), UNCHANGED mail, UNCHANGED token,
           UsersMove,
           user' \in [User -> Users], seller' \in [User -> Sellers], kyc' \in [User -> Kycs]
    PROVE  Sound'
<1>1. token' \in [Message -> Tokens] /\ TokensMove
  BY Typed DEF Sound, TokensMove
<1>2. \A m \in Message : token'[m] = token[m]
  OBVIOUS
<1> QED
  BY <1>1, <1>2, CommitKeeps

LEMMA WrittenFits ==
    ASSUME NEW stored \in Sellers, NEW seen \in Sellers, NEW new \in Sellers
    PROVE  Written(stored, seen, new) \in Sellers
BY DEF Written, Sellers

LEMMA DecideKeeps ==
    ASSUME Sound, NEW r \in Request, req[r].op \in Decision,
           NEW status \in SellerStatus, NEW is_verified \in BOOLEAN,
           Decide(r, status, is_verified)
    PROVE  seller' \in [User -> Sellers]
<1>1. req[r].seller \in Sellers /\ req[r].user \in User
  BY DEF Sound, WorkFits, Complete, Decision
<1>2. [status |-> status, is_verified |-> is_verified] \in Sellers
  BY DEF Sellers
<1>3. seller \in [User -> Sellers]
  BY Typed DEF Sound
<1> DEFINE x == Written(seller[req[r].user], req[r].seller,
                        [status |-> status, is_verified |-> is_verified])
<1>4. x \in Sellers
  BY <1>1, <1>2, <1>3, WrittenFits
<1>5. seller' = [seller EXCEPT ![req[r].user] = x]
  BY <1>3 DEF Decide
<1> HIDE DEF x
<1> QED
  BY <1>1, <1>3, <1>4, <1>5

LEMMA UserCommits ==
    ASSUME Sound, NEW r \in Request,
           \/ ChangeCommits(r) \/ DeactivateCommits(r)
           \/ SellerCommits(r) \/ SellerRefused(r)
           \/ BvnRefused(r) \/ BvnCommits(r) \/ UpgradeCommits(r)
    PROVE  Sound'
<1> DEFINE u == req[r].user
<1>1. /\ seller \in [User -> Sellers] /\ user \in [User -> Users] /\ kyc \in [User -> Kycs]
  BY Typed DEF Sound
<1>2. req[r].op # "idle" => u \in User
  BY DEF Sound, WorkFits, Complete
<1>3. UNCHANGED user => UsersMove
  BY DEF UsersMove
<1>4. UNCHANGED <<mail, rows>> => UNCHANGED mail /\ UNCHANGED <<user, seller, kyc, token>>
  BY DEF rows, mail
<1>5. CASE ChangeCommits(r)
  <2>1. /\ Finish(r, "change_password") /\ UNCHANGED mail /\ UNCHANGED <<seller, kyc, token>>
        /\ user' = [user EXCEPT ![u].password = 0]
    BY <1>5 DEF ChangeCommits, mail
  <2>2. u \in User
    BY <1>2, <2>1 DEF Finish
  <2> DEFINE x == [user[u] EXCEPT !.password = 0]
  <2>3. x \in Users /\ x.verified = user[u].verified /\ x.password = 0
    BY <1>1, <2>2 DEF Users
  <2>4. user' = [user EXCEPT ![u] = x]
    BY <1>1, <2>1, <2>2
  <2> HIDE DEF x
  <2>5. user' \in [User -> Users] /\ UsersMove
    BY <1>1, <2>2, <2>3, <2>4, UserRow
  <2> QED
    BY <1>1, <2>1, <2>5, RowCommits
<1>6. CASE DeactivateCommits(r)
  <2>1. /\ Finish(r, "deactivate") /\ UNCHANGED mail /\ UNCHANGED <<seller, kyc, token>>
        /\ user' = [user EXCEPT ![u].status = "DEACTIVATED"]
    BY <1>6 DEF DeactivateCommits, mail
  <2>2. u \in User
    BY <1>2, <2>1 DEF Finish
  <2> DEFINE x == [user[u] EXCEPT !.status = "DEACTIVATED"]
  <2>3. x \in Users /\ x.verified = user[u].verified /\ x.password = user[u].password
    BY <1>1, <2>2 DEF Users, AccountStatus
  <2>4. user' = [user EXCEPT ![u] = x]
    BY <1>1, <2>1, <2>2
  <2> HIDE DEF x
  <2>5. user' \in [User -> Users] /\ UsersMove
    BY <1>1, <2>2, <2>3, <2>4, UserRow
  <2> QED
    BY <1>1, <2>1, <2>5, RowCommits
<1>7. CASE SellerCommits(r)
  <2>1. /\ Finish(r, "register_as_seller") /\ UNCHANGED mail /\ UNCHANGED <<user, kyc, token>>
        /\ Decide(r, "PENDING", FALSE)
    BY <1>7 DEF SellerCommits, mail
  <2>2. req[r].op \in Decision
    BY <2>1 DEF Finish, Decision
  <2>3. seller' \in [User -> Sellers]
    BY <2>1, <2>2, DecideKeeps DEF SellerStatus
  <2> QED
    BY <1>1, <1>3, <2>1, <2>3, RowCommits
<1>8. CASE SellerRefused(r)
  <2>1. Finish(r, "register_as_seller") /\ UNCHANGED mail /\ UNCHANGED <<user, seller, kyc, token>>
    BY <1>4, <1>8 DEF SellerRefused
  <2> QED
    BY <1>1, <1>3, <2>1, RowCommits
<1>9. CASE BvnRefused(r)
  <2>1. /\ \E op : Finish(r, op)
        /\ UNCHANGED mail /\ UNCHANGED <<user, seller, kyc, token>>
    BY <1>4, <1>9 DEF BvnRefused
  <2> QED
    BY <1>1, <1>3, <2>1, RowCommits
<1>10. ASSUME u \in User, NEW t \in Tier,
              user' = [user EXCEPT ![u].tier = t]
       PROVE  user' \in [User -> Users] /\ UsersMove
  <2> DEFINE x == [user[u] EXCEPT !.tier = t]
  <2>1. x \in Users /\ x.verified = user[u].verified /\ x.password = user[u].password
    BY <1>1, <1>10 DEF Users
  <2>2. user' = [user EXCEPT ![u] = x]
    BY <1>1, <1>10
  <2> HIDE DEF x
  <2> QED
    BY <1>1, <1>10, <2>1, <2>2, UserRow
<1>11. CASE BvnCommits(r)
  <2>1. /\ Finish(r, "bvn_attempt") /\ UNCHANGED mail /\ UNCHANGED <<seller, token>>
        /\ kyc' = [kyc EXCEPT ![u] = [tier |-> "TIER_2", bvn |-> req[r].target]]
        /\ user' = [user EXCEPT ![u].tier = IF req[r].tier # "TIER_2" THEN "TIER_2" ELSE @]
    BY <1>11 DEF BvnCommits, complete_tier_2, mail
  <2>2. u \in User /\ req[r].target \in BVN
    BY <2>1 DEF Finish, Sound, WorkFits, Complete
  <2>3. [tier |-> "TIER_2", bvn |-> req[r].target] \in Kycs
    BY <2>2 DEF Kycs, Tier
  <2>4. kyc' \in [User -> Kycs]
    BY <1>1, <2>1, <2>2, <2>3
  <2>5. PICK t \in Tier : user' = [user EXCEPT ![u].tier = t]
    BY <1>1, <2>1, <2>2 DEF Users, Tier
  <2>6. user' \in [User -> Users] /\ UsersMove
    BY <1>10, <2>2, <2>5
  <2> QED
    BY <1>1, <2>1, <2>4, <2>6, RowCommits
<1>12. CASE UpgradeCommits(r)
  <2> DEFINE t == req[r].target
  <2>1. /\ Finish(r, "upgrade_tier") /\ UNCHANGED mail /\ UNCHANGED <<seller, token>>
        /\ kyc' = [kyc EXCEPT ![u].tier = IF req[r].kyc_tier # t THEN t ELSE @]
        /\ user' = [user EXCEPT ![u].tier = IF req[r].tier # t THEN t ELSE @]
    BY <1>12 DEF UpgradeCommits, mail
  <2>2. u \in User /\ t \in Tier
    BY <2>1 DEF Finish, Sound, WorkFits, Complete
  <2>3. kyc' \in [User -> Kycs]
    <3>1. PICK k \in Tier : kyc' = [kyc EXCEPT ![u].tier = k]
      BY <1>1, <2>1, <2>2 DEF Kycs
    <3> QED
      BY <1>1, <3>1 DEF Kycs
  <2>4. PICK k \in Tier : user' = [user EXCEPT ![u].tier = k]
    BY <1>1, <2>1, <2>2 DEF Users
  <2>5. user' \in [User -> Users] /\ UsersMove
    BY <1>10, <2>2, <2>4
  <2> QED
    BY <1>1, <2>1, <2>3, <2>5, RowCommits
<1> QED
  BY <1>5, <1>6, <1>7, <1>8, <1>9, <1>11, <1>12

LEMMA Decisions ==
    ASSUME Sound, NEW r \in Request, NEW m \in Message, DecisionCommits(r, m)
    PROVE  Sound'
<1>1. /\ seller \in [User -> Sellers] /\ user \in [User -> Users] /\ kyc \in [User -> Kycs]
      /\ token \in [Message -> Tokens]
  BY Typed DEF Sound
<1>2. PICK op \in {"approve", "reject"} : Finish(r, op)
  BY DEF DecisionCommits
<1>3. /\ req[r].op \in Decision /\ req[r].user \in User
  BY <1>2 DEF Finish, Decision, Sound, WorkFits, Complete
<1>4. UNCHANGED <<notification, user, kyc, token>> /\ update_seller_verification(r)
  BY DEF DecisionCommits
<1>5. seller' \in [User -> Sellers]
  BY <1>3, <1>4, DecideKeeps DEF update_seller_verification, SellerStatus
<1>6. MailOK' /\ Grows
  <2>1. CASE Delay(m, Verdict(req[r].op), req[r].user) /\ UNCHANGED faults
    <3>1. faults' \in [{"failure", "crash"} -> Nat]
      BY <2>1 DEF Sound, MailOK, MailTypeOK
    <3> QED
      BY <1>3, <1>4, <2>1, <3>1, Tasks, DelayKeeps DEF Sound
  <2>2. CASE Fault("crash") /\ UNCHANGED message
    BY <1>4, <2>2, FaultTyped, Stutters DEF Sound
  <2> QED
    BY <2>1, <2>2 DEF DecisionCommits
<1>7. /\ TokensMove /\ UsersMove /\ token' \in [Message -> Tokens]
      /\ user' \in [User -> Users] /\ kyc' \in [User -> Kycs]
  BY <1>1, <1>4 DEF TokensMove, UsersMove
<1>8. \A k \in Message : token'[k] = token[k]
  BY <1>4
<1> QED
  BY <1>2, <1>5, <1>6, <1>7, <1>8, FinishKeeps

LEMMA Attempts == ASSUME Sound, NEW r \in Request, BvnAttempt(r) PROVE Sound'
<1> DEFINE w == [req[r] EXCEPT !.op = "bvn_attempt"]
<1>1. /\ req[r].op = "verify_bvn" /\ req' = [req EXCEPT ![r].op = "bvn_attempt"]
      /\ UNCHANGED <<message, notification, faults, user, seller, kyc, token, spent>>
  BY DEF BvnAttempt, mail, rows
<1>2. /\ req \in [Request -> Work] /\ seller \in [User -> Sellers]
      /\ user \in [User -> Users] /\ kyc \in [User -> Kycs]
      /\ token \in [Message -> Tokens] /\ spent \in [Events -> Nat]
  BY Typed DEF Sound
<1>3. /\ req[r].user \in User /\ req[r].target \in BVN
      /\ req[r].link = None /\ req[r].links = {}
  BY <1>1 DEF Sound, WorkFits, Complete, LinksOK, LinksFit, Sending, Opening
<1>4. /\ w \in Work /\ w.op = "bvn_attempt" /\ w.user = req[r].user
      /\ w.target = req[r].target /\ w.link = None /\ w.links = {}
  BY <1>2, <1>3 DEF Work, Op
<1>5. req' = [req EXCEPT ![r] = w]
  BY <1>1, <1>2
<1> HIDE DEF w
<1>6. Complete(w)
  BY <1>3, <1>4 DEF Complete, Decision
<1>7. MailOK' /\ Grows
  BY <1>1, Stutters DEF Sound, MailOK, MailTypeOK
<1>8. TokensMove /\ UsersMove
  BY <1>1 DEF TokensMove, UsersMove
<1>9. \A q \in Request \ {r} : req[q].op \in Sending => token'[req[q].link] = "pending"
  BY <1>1 DEF Sound, LinksOK, LinksFit
<1> QED
  BY <1>1, <1>2, <1>4, <1>5, <1>6, <1>7, <1>8, <1>9, OneRequest DEF Plain, Sending, Opening

\* A request that fails takes its link with it.
LEMMA Failures == ASSUME Sound, NEW r \in Request, RequestFails(r) PROVE Sound'
<1>1. /\ Finish(r, req[r].op) /\ Fault("failure")
      /\ token' = [m \in Message |->
                      IF m = req[r].link /\ token[m] = "pending" THEN "void" ELSE token[m]]
      /\ UNCHANGED <<message, notification, user, seller, kyc>>
  BY DEF RequestFails
<1>2. /\ seller \in [User -> Sellers] /\ user \in [User -> Users] /\ kyc \in [User -> Kycs]
      /\ token \in [Message -> Tokens]
  BY Typed DEF Sound
<1>3. MailOK' /\ Grows
  BY <1>1, FaultTyped, Stutters DEF Sound
<1>4. "void" \in Stored /\ "void" \in Tokens /\ None # "pending" /\ "pending" \notin Stored
  BY Constants DEF Stored, Tokens
<1>5. TokensMove /\ token' \in [Message -> Tokens]
  BY <1>1, <1>2, <1>4 DEF TokensMove
<1>6. UsersMove
  BY <1>1 DEF UsersMove
<1>7. ASSUME NEW m \in Message, token[m] = "pending", token'[m] # "pending"
      PROVE  req[r].op \in Sending /\ req[r].link = m
  <2>1. req[r].link = m
    BY <1>1, <1>7
  <2>2. req[r].op \notin Opening
    BY <1>4, <1>7, <2>1 DEF Sound, LinksOK, LinksFit, Opened
  <2>3. None \notin Message
    BY Constants
  <2> QED
    BY <2>1, <2>2, <2>3 DEF Sound, LinksOK, LinksFit
<1> QED
  BY <1>1, <1>2, <1>3, <1>5, <1>6, <1>7, FinishKeeps

LEMMA SpendTyped ==
    ASSUME Sound, NEW e \in Events, Spend(e) PROVE spent' \in [Events -> Nat]
<1>1. spent \in [Events -> Nat]
  BY Typed DEF Sound
<1> QED
  BY <1>1 DEF Spend

\* The steps of nobody's request.
LEMMA Others ==
    ASSUME Sound,
           \/ NotifyEvent /\ Spend("request") /\ UNCHANGED <<rows, req>>
           \/ NextMail /\ UNCHANGED <<rows, req, spent>>
           \/ \E m \in Message : LinkExpires(m)
           \/ \E u \in User : \/ \E s \in AccountStatus : update_user_status(u, s)
                              \/ PanelSetsTier(u, "TIER_1") \/ PanelSetsTier(u, "TIER_2")
    PROVE  Sound'
<1>1. /\ seller \in [User -> Sellers] /\ user \in [User -> Users] /\ kyc \in [User -> Kycs]
      /\ token \in [Message -> Tokens] /\ spent \in [Events -> Nat]
  BY Typed DEF Sound
<1>2. \A q \in Request : req[q].op \in Sending =>
         req[q].link \in Message /\ token[req[q].link] = "pending"
  BY DEF Sound, LinksOK, LinksFit
<1>3. UNCHANGED token => TokensMove
  BY DEF TokensMove
<1>4. UNCHANGED user => UsersMove
  BY DEF UsersMove
<1>5. UNCHANGED mail => MailOK' /\ Grows
  BY Stutters DEF Sound, MailOK, MailTypeOK, mail
<1>6. CASE NotifyEvent /\ Spend("request") /\ UNCHANGED <<rows, req>>
  <2>1. UNCHANGED <<user, seller, kyc, token, req>>
    BY <1>6 DEF rows
  <2>2. PICK m \in Message, s \in Sent : Delay(m, s[1], s[2])
    BY <1>6 DEF NotifyEvent
  <2>3. s[1] \in Task /\ s[2] \in User
    BY Constants
  <2>4. UNCHANGED notification /\ faults' \in [{"failure", "crash"} -> Nat]
    BY <1>6 DEF NotifyEvent, Sound, MailOK, MailTypeOK
  <2>5. MailOK' /\ Grows
    BY <2>2, <2>3, <2>4, DelayKeeps DEF Sound
  <2>6. spent' \in [Events -> Nat]
    BY <1>6, SpendTyped DEF Events
  <2> QED
    BY <1>1, <1>2, <1>3, <1>4, <2>1, <2>5, <2>6, NoRequest
<1>7. CASE NextMail /\ UNCHANGED <<rows, req, spent>>
  <2>1. UNCHANGED <<user, seller, kyc, token, req, spent>>
    BY <1>7 DEF rows
  <2>2. MailOK' /\ Grows
    BY <1>7, MailStep DEF Sound
  <2> QED
    BY <1>1, <1>2, <1>3, <1>4, <2>1, <2>2, NoRequest
<1>8. ASSUME NEW m \in Message, LinkExpires(m) PROVE Sound'
  <2>1. /\ token[m] = "valid" /\ token' = [token EXCEPT ![m] = "expired"]
        /\ UNCHANGED mail /\ UNCHANGED <<user, seller, kyc, req>> /\ Spend("expiry")
    BY <1>8 DEF LinkExpires, mail
  <2>2. "expired" \in Stored /\ None # "valid"
    BY Constants DEF Stored
  <2>3. /\ token' \in [Message -> Tokens] /\ TokensMove
        /\ \A k \in Message : token'[k] = IF k = m THEN "expired" ELSE token[k]
    BY <1>1, <2>1, <2>2, TokenRow
  <2>4. \A q \in Request : req[q].op \in Sending => token'[req[q].link] = "pending"
    BY <1>2, <2>1, <2>3
  <2>5. spent' \in [Events -> Nat]
    BY <2>1, SpendTyped DEF Events
  <2> QED
    BY <1>1, <1>4, <1>5, <2>1, <2>3, <2>4, <2>5, NoRequest
<1>9. ASSUME NEW u \in User, NEW s \in AccountStatus, update_user_status(u, s) PROVE Sound'
  <2>1. /\ user' = [user EXCEPT ![u].status = s] /\ Spend("by_hand")
        /\ UNCHANGED mail /\ UNCHANGED <<seller, kyc, token, req>>
    BY <1>9 DEF update_user_status, mail
  <2> DEFINE x == [user[u] EXCEPT !.status = s]
  <2>2. x \in Users /\ x.verified = user[u].verified /\ x.password = user[u].password
    BY <1>1 DEF Users
  <2>3. user' = [user EXCEPT ![u] = x]
    BY <1>1, <2>1
  <2> HIDE DEF x
  <2>4. user' \in [User -> Users] /\ UsersMove
    BY <1>1, <2>2, <2>3, UserRow
  <2>5. spent' \in [Events -> Nat]
    BY <2>1, SpendTyped DEF Events
  <2> QED
    BY <1>1, <1>2, <1>3, <1>5, <2>1, <2>4, <2>5, NoRequest
<1>10. ASSUME NEW u \in User, NEW t \in Tier, PanelSetsTier(u, t) PROVE Sound'
  <2>1. /\ kyc' = [kyc EXCEPT ![u].tier = t] /\ Spend("by_hand")
        /\ UNCHANGED mail /\ UNCHANGED <<user, seller, token, req>>
    BY <1>10 DEF PanelSetsTier, mail
  <2>2. kyc' \in [User -> Kycs]
    BY <1>1, <2>1 DEF Kycs
  <2>3. spent' \in [Events -> Nat]
    BY <2>1, SpendTyped DEF Events
  <2> QED
    BY <1>1, <1>2, <1>3, <1>4, <1>5, <2>1, <2>2, <2>3, NoRequest
<1> QED
  BY <1>6, <1>7, <1>8, <1>9, <1>10 DEF Tier

LEMMA SoundStep == ASSUME Sound, [Next]_vars PROVE Sound'
<1>1. ASSUME NEW r \in Request, End(r) PROVE Sound'
  BY <1>1, LinkCommits, UserCommits, Decisions, Attempts DEF End
<1>2. CASE Next
  BY <1>1, <1>2, Begins, Failures, Others DEF Next
<1>3. CASE UNCHANGED vars
  <2>1. /\ UNCHANGED mail /\ UNCHANGED <<user, seller, kyc, token, req, spent>>
    BY <1>3 DEF vars, rows, mail
  <2>2. MailOK' /\ Grows
    BY <2>1, Stutters DEF Sound, MailOK, MailTypeOK, mail
  <2>3. /\ TokensMove /\ UsersMove
        /\ \A q \in Request : req[q].op \in Sending => token'[req[q].link] = "pending"
    BY <2>1 DEF TokensMove, UsersMove, Sound, LinksOK, LinksFit
  <2> QED
    BY <2>1, <2>2, <2>3, NoRequest, Typed DEF Sound
<1> QED
  BY <1>2, <1>3

-----------------------------------------------------------------------------
(***************************************************************************)
(* Tiers, as long as no admin sets them.                                   *)
(***************************************************************************)

BvnOp == {"verify_bvn", "bvn_attempt"}

\* The bodies of TiersFit and of TierFollowsBVN.
UserTiers ==
    \A u \in User :
        /\ user[u].tier = kyc[u].tier
        /\ user[u].tier = IF kyc[u].bvn = None THEN "TIER_1" ELSE "TIER_2"
        /\ user[u].status = None => kyc[u].bvn = None

RequestTiers ==
    /\ \A r \in Request :
          /\ req[r].op \in BvnOp =>
                /\ user[req[r].user].status # None
                /\ req[r].tier = "TIER_2" => user[req[r].user].tier = "TIER_2"
          /\ req[r].op = "deactivate" => user[req[r].user].status # None
          /\ req[r].op = "register" => user[req[r].user].status = None
          /\ req[r].op # "upgrade_tier"
    /\ \A q, r \in Request :
          req[q].op = "register" /\ req[r].op = "register" /\ req[q].user = req[r].user
          => q = r

LEMMA TiersSplit ==
    TiersFit /\ TierFollowsBVN <=> (spent["by_hand"] = 0 => UserTiers /\ RequestTiers)
BY DEF TiersFit, TierFollowsBVN, UserTiers, RequestTiers, Registered, BvnOp

\* One request becomes w; users may be registered and given the second tier, but
\* not the user of another registration.
LEMMA TierStep ==
    ASSUME req \in [Request -> Work], NEW r \in Request, NEW w,
           req' = [req EXCEPT ![r] = w],
           WorkFits, UserTiers, RequestTiers, UserTiers',
           \A v \in User : /\ user[v].status # None => user'[v].status # None
                           /\ user[v].tier = "TIER_2" => user'[v].tier = "TIER_2",
           \A q \in Request \ {r} : req[q].op = "register" => user'[req[q].user].status = None,
           w.op # "upgrade_tier",
           w.op = "deactivate" => user'[w.user].status # None,
           w.op \in BvnOp => /\ user'[w.user].status # None
                             /\ w.tier = "TIER_2" => user'[w.user].tier = "TIER_2",
           w.op = "register" =>
              /\ user'[w.user].status = None
              /\ \A q \in Request \ {r} : req[q].op = "register" => req[q].user # w.user
    PROVE  RequestTiers'
<1>1. \A q \in Request : req'[q] = IF q = r THEN w ELSE req[q]
  OBVIOUS
<1>2. \A q \in Request : req[q].op # "idle" => req[q].user \in User
  BY DEF WorkFits, Complete
<1>3. \A q \in Request : req[q].op \in BvnOp => req[q].op # "idle"
  BY DEF BvnOp
<1>4. \A q \in Request :
         /\ req'[q].op \in BvnOp =>
               /\ user'[req'[q].user].status # None
               /\ req'[q].tier = "TIER_2" => user'[req'[q].user].tier = "TIER_2"
         /\ req'[q].op = "deactivate" => user'[req'[q].user].status # None
         /\ req'[q].op = "register" => user'[req'[q].user].status = None
         /\ req'[q].op # "upgrade_tier"
  <2> TAKE q \in Request
  <2>1. CASE q = r
    BY <1>1, <2>1
  <2>2. CASE q # r
    BY <1>1, <1>2, <1>3, <2>2 DEF RequestTiers
  <2> QED
    BY <2>1, <2>2
<1>5. \A p, q \in Request :
         req'[p].op = "register" /\ req'[q].op = "register" /\ req'[p].user = req'[q].user
         => p = q
  BY <1>1 DEF RequestTiers
<1> QED
  BY <1>4, <1>5 DEF RequestTiers

\* The operations that have nothing to do with tiers.
LEMMA TierAside ==
    ASSUME Sound, UserTiers, RequestTiers, NEW r \in Request, NEW w,
           req' = [req EXCEPT ![r] = w],
           w.op \notin BvnOp \union {"register", "upgrade_tier"},
           w.op = "deactivate" => w.user \in User /\ user[w.user].status # None,
           UNCHANGED kyc,
           \A v \in User : /\ user'[v].tier = user[v].tier
                           /\ user'[v].status = None <=> user[v].status = None
    PROVE  UserTiers' /\ RequestTiers'
<1>1. req \in [Request -> Work] /\ WorkFits
  BY Typed DEF Sound
<1>2. UserTiers'
  BY DEF UserTiers
<1>3. \A q \in Request \ {r} : req[q].op = "register" => user'[req[q].user].status = None
  <2>1. \A q \in Request : req[q].op = "register" => req[q].user \in User
    BY <1>1 DEF WorkFits, Complete
  <2> QED
    BY <2>1 DEF RequestTiers
<1> QED
  BY <1>1, <1>2, <1>3, TierStep

LEMMA TierBegins ==
    ASSUME Sound, UserTiers, RequestTiers, NEW r \in Request, LinkStep(r) \/ UserStep(r),
           spent'["by_hand"] = 0
    PROVE  UserTiers' /\ RequestTiers'
<1>1. /\ req \in [Request -> Work] /\ WorkFits /\ spent \in [Events -> Nat]
      /\ user \in [User -> Users] /\ seller \in [User -> Sellers]
      /\ kyc \in [User -> Kycs] /\ message \in [Message -> MessageType]
  BY Typed DEF Sound, MailOK, MailTypeOK, MessageType
<1>2. /\ Idle \in Work /\ Idle.op = "idle"
  BY DEF Idle, Work
<1> DEFINE Starts(w) == req' = [req EXCEPT ![r] = w] /\ UNCHANGED <<user, kyc>>
<1>4. ASSUME NEW w, Starts(w), w.op \notin BvnOp \union {"register", "upgrade_tier"},
             w.op = "deactivate" => w.user \in User /\ user[w.user].status # None
      PROVE  UserTiers' /\ RequestTiers'
  BY <1>4, TierAside
<1>5. ASSUME NEW u \in User, NEW m \in Message, register(r, u, m)
      PROVE  UserTiers' /\ RequestTiers'
  <2> DEFINE w == [[Idle EXCEPT !.op = "register", !.user = u] EXCEPT !.link = m]
  <2>1. Starts(w)
    BY <1>5 DEF register, SendLink, Begin
  <2>2. w.op = "register" /\ w.user = u
    BY <1>2 DEF Work
  <2>3. user[u].status = None /\ \A q \in Request : req[q].op = "register" => req[q].user # u
    BY <1>5 DEF register, Registered
  <2>4. UserTiers'
    BY <2>1 DEF UserTiers
  <2>5. \A q \in Request : req[q].op = "register" => user'[req[q].user].status = None
    BY <2>1 DEF RequestTiers
  <2>6. w.op \notin BvnOp
    BY <2>2 DEF BvnOp
  <2> HIDE DEF w
  <2> QED
    BY <1>1, <2>1, <2>2, <2>3, <2>4, <2>5, <2>6, TierStep
<1>6. ASSUME NEW u \in User, NEW m \in Message,
             forgot_password(r, u, m) \/ resend_email_verification(r, u, m)
      PROVE  UserTiers' /\ RequestTiers'
  <2>1. CASE forgot_password(r, u, m)
    <3> DEFINE w == [[Idle EXCEPT !.op = "forgot_password", !.user = u] EXCEPT !.link = m]
    <3>1. Starts(w)
      BY <2>1 DEF forgot_password, SendLink, Begin
    <3>2. w.op = "forgot_password"
      BY <1>2 DEF Work
    <3> HIDE DEF w
    <3> QED
      BY <1>4, <3>1, <3>2 DEF BvnOp
  <2>2. CASE resend_email_verification(r, u, m)
    <3> DEFINE w == [[Idle EXCEPT !.op = "resend", !.user = u, !.links = Links(u)]
                        EXCEPT !.link = m]
    <3>1. Starts(w)
      BY <2>2 DEF resend_email_verification, SendLink, Begin
    <3>2. w.op = "resend"
      BY <1>2 DEF Work
    <3> HIDE DEF w
    <3> QED
      BY <1>4, <3>1, <3>2 DEF BvnOp
  <2> QED
    BY <1>6, <2>1, <2>2
<1>7. ASSUME NEW m \in Message, NEW op \in Opening,
             Read(r, [Idle EXCEPT !.op = op, !.user = message[m].to, !.link = m])
      PROVE  UserTiers' /\ RequestTiers'
  <2> DEFINE w == [Idle EXCEPT !.op = op, !.user = message[m].to, !.link = m]
  <2>1. Starts(w)
    BY <1>7 DEF Read, Begin, rows
  <2>2. w.op = op
    BY <1>2 DEF Work
  <2> HIDE DEF w
  <2> QED
    BY <1>4, <2>1, <2>2 DEF BvnOp, Opening
<1>8. ASSUME NEW u \in User, NEW op \in {"change_password", "deactivate"}, Registered(u),
             Read(r, [Idle EXCEPT !.op = op, !.user = u])
      PROVE  UserTiers' /\ RequestTiers'
  <2> DEFINE w == [Idle EXCEPT !.op = op, !.user = u]
  <2>1. Starts(w) /\ user[u].status # None
    BY <1>8 DEF Read, Begin, rows, Registered
  <2>2. w.op = op /\ w.user = u
    BY <1>2 DEF Work
  <2> HIDE DEF w
  <2> QED
    BY <1>4, <2>1, <2>2 DEF BvnOp
<1>9. ASSUME NEW u \in User, NEW op \in Decision,
             Read(r, [Idle EXCEPT !.op = op, !.user = u, !.seller = seller[u]])
      PROVE  UserTiers' /\ RequestTiers'
  <2> DEFINE w == [Idle EXCEPT !.op = op, !.user = u, !.seller = seller[u]]
  <2>1. Starts(w)
    BY <1>9 DEF Read, Begin, rows
  <2>2. w.op = op
    BY <1>2 DEF Work
  <2> HIDE DEF w
  <2> QED
    BY <1>4, <2>1, <2>2 DEF BvnOp, Decision
<1>10. ASSUME NEW u \in User, NEW b \in BVN, verify_bvn(r, u, b)
       PROVE  UserTiers' /\ RequestTiers'
  <2> DEFINE w == [Idle EXCEPT !.op = "verify_bvn", !.user = u, !.target = b,
                               !.tier = user[u].tier]
  <2>1. Starts(w) /\ user[u].status # None
    BY <1>10 DEF verify_bvn, Read, Begin, rows, AdmittedActive, Admitted, Registered
  <2>2. w.op = "verify_bvn" /\ w.user = u /\ w.tier = user[u].tier
    BY <1>2 DEF Work
  <2>3. UserTiers'
    BY <2>1 DEF UserTiers
  <2>4. \A q \in Request : req[q].op = "register" => user'[req[q].user].status = None
    BY <2>1 DEF RequestTiers
  <2> HIDE DEF w
  <2> QED
    BY <1>1, <2>1, <2>2, <2>3, <2>4, TierStep
<1>11. ASSUME NEW u \in User, NEW t \in Tier, admin_upgrade_tier(r, u, t) PROVE FALSE
  <2> DEFINE w == [Idle EXCEPT !.op = "upgrade_tier", !.user = u, !.target = t,
                               !.tier = user[u].tier, !.kyc_tier = kyc[u].tier]
  <2>1. Begin(r, w)
    BY <1>11 DEF admin_upgrade_tier, Read
  <2>2. w.op = "upgrade_tier"
    BY <1>2 DEF Work
  <2> HIDE DEF w
  <2>3. Spend("by_hand")
    BY <2>1, <2>2 DEF Begin
  <2> QED
    BY <1>1, <2>3 DEF Spend, Events
<1>12. CASE LinkStep(r)
  <2>1. ASSUME NEW m \in Message, verify_email(r, m) \/ reset_password(r, m)
        PROVE  UserTiers' /\ RequestTiers'
    BY <1>7, <2>1 DEF verify_email, reset_password, Opening
  <2> QED
    BY <1>5, <1>6, <1>12, <2>1 DEF LinkStep
<1>13. CASE UserStep(r)
  <2> PICK u \in User :
        \/ change_password(r, u) \/ deactivate_account(r, u) \/ register_as_seller(r, u)
        \/ verify_seller(r, u, "approve") \/ verify_seller(r, u, "reject")
        \/ \E b \in BVN : verify_bvn(r, u, b)
        \/ \E t \in Tier : admin_upgrade_tier(r, u, t)
    BY <1>13 DEF UserStep
  <2>1. CASE change_password(r, u) \/ deactivate_account(r, u)
    BY <1>8, <2>1 DEF change_password, deactivate_account, AdmittedActive, Admitted
  <2>2. CASE register_as_seller(r, u)
    BY <1>9, <2>2 DEF register_as_seller, Decision
  <2>3. CASE verify_seller(r, u, "approve") \/ verify_seller(r, u, "reject")
    BY <1>9, <2>3 DEF verify_seller, Decision
  <2> QED
    BY <1>10, <1>11, <2>1, <2>2, <2>3
<1> QED
  BY <1>12, <1>13

LEMMA TierEnds ==
    ASSUME Sound, UserTiers, RequestTiers, NEW r \in Request, End(r) \/ RequestFails(r)
    PROVE  UserTiers' /\ RequestTiers'
<1> DEFINE u == req[r].user
<1>1. /\ req \in [Request -> Work] /\ WorkFits
      /\ user \in [User -> Users] /\ kyc \in [User -> Kycs]
  BY Typed DEF Sound
<1>2. req[r].op # "idle" => u \in User
  BY <1>1 DEF WorkFits, Complete
<1>3. Idle.op = "idle" /\ "idle" \notin BvnOp \union {"register", "upgrade_tier"}
  BY DEF Idle, BvnOp
<1>4. ASSUME req' = [req EXCEPT ![r] = Idle], UNCHANGED kyc,
             \A v \in User : /\ user'[v].tier = user[v].tier
                             /\ user'[v].status = None <=> user[v].status = None
      PROVE  UserTiers' /\ RequestTiers'
  BY <1>3, <1>4, TierAside
<1>5. CASE RegisterCommits(r)
  <2>1. /\ req[r].op = "register" /\ req' = [req EXCEPT ![r] = Idle] /\ UNCHANGED kyc
        /\ user' = [user EXCEPT ![u] = NewUser]
    BY <1>5 DEF RegisterCommits, Finish
  <2>2. u \in User /\ user[u].status = None
    BY <1>2, <2>1 DEF RequestTiers
  <2>3. NewUser.status = "ACTIVE" /\ NewUser.tier = "TIER_1"
    BY DEF NewUser, NoUser
  <2>4. \A v \in User : user'[v] = IF v = u THEN NewUser ELSE user[v]
    BY <1>1, <2>1
  <2>5. "ACTIVE" # None
    BY Constants DEF AccountStatus
  <2>6. UserTiers'
    BY <2>1, <2>2, <2>3, <2>4, <2>5 DEF UserTiers
  <2>7. \A v \in User : /\ user[v].status # None => user'[v].status # None
                        /\ user[v].tier = "TIER_2" => user'[v].tier = "TIER_2"
    <3>1. user[u].tier = "TIER_1"
      BY <2>2 DEF UserTiers
    <3> QED
      BY <2>2, <2>3, <2>4, <3>1
  <2>8. ASSUME NEW q \in Request \ {r}, req[q].op = "register"
        PROVE  user'[req[q].user].status = None
    <3>1. req[q].user # u /\ req[q].user \in User
      BY <1>1, <2>1, <2>8 DEF RequestTiers, WorkFits, Complete
    <3> QED
      BY <2>4, <2>8, <3>1 DEF RequestTiers
  <2> QED
    BY <1>1, <1>3, <2>1, <2>6, <2>7, <2>8, TierStep
<1>6. CASE ForgotCommits(r) \/ ResendCommits(r) \/ SellerCommits(r) \/ RequestFails(r)
  BY <1>4, <1>6 DEF ForgotCommits, ResendCommits, SellerCommits, RequestFails, Finish
<1>7. CASE \E m \in Message : DecisionCommits(r, m)
  BY <1>4, <1>7 DEF DecisionCommits, Finish
<1>8. CASE SellerRefused(r) \/ BvnRefused(r)
  BY <1>4, <1>8 DEF SellerRefused, BvnRefused, Finish, rows
<1>9. ASSUME u \in User, NEW x \in Users, user' = [user EXCEPT ![u] = x],
             x.tier = user[u].tier, x.status = None <=> user[u].status = None
      PROVE  \A v \in User : /\ user'[v].tier = user[v].tier
                             /\ user'[v].status = None <=> user[v].status = None
  BY <1>1, <1>9
<1>10. CASE VerifyCommits(r)
  <2>1. /\ req[r].op = "verify_email" /\ req' = [req EXCEPT ![r] = Idle] /\ UNCHANGED kyc
        /\ user' = [user EXCEPT ![u].verified = TRUE]
    BY <1>10 DEF VerifyCommits, Finish
  <2> QED
    BY <1>1, <1>2, <1>4, <2>1 DEF Users
<1>11. CASE ResetCommits(r)
  <2>1. /\ req[r].op = "reset_password" /\ req' = [req EXCEPT ![r] = Idle] /\ UNCHANGED kyc
        /\ user' = [user EXCEPT ![u].password = req[r].link]
    BY <1>11 DEF ResetCommits, Finish
  <2>2. PICK k : user' = [user EXCEPT ![u].password = k]
    BY <2>1
  <2> QED
    BY <1>1, <1>2, <1>4, <2>1, <2>2 DEF Users
<1>12. CASE ChangeCommits(r)
  <2>1. /\ req[r].op = "change_password" /\ req' = [req EXCEPT ![r] = Idle] /\ UNCHANGED kyc
        /\ user' = [user EXCEPT ![u].password = 0]
    BY <1>12 DEF ChangeCommits, Finish
  <2> QED
    BY <1>1, <1>2, <1>4, <2>1 DEF Users
<1>13. CASE DeactivateCommits(r)
  <2>1. /\ req[r].op = "deactivate" /\ req' = [req EXCEPT ![r] = Idle] /\ UNCHANGED kyc
        /\ user' = [user EXCEPT ![u].status = "DEACTIVATED"]
    BY <1>13 DEF DeactivateCommits, Finish
  <2>2. \A v \in User : /\ user'[v].tier = user[v].tier
                        /\ user'[v].status = IF v = u THEN "DEACTIVATED" ELSE user[v].status
    BY <1>1, <1>2, <2>1 DEF Users
  <2>3. user[u].status # None /\ "DEACTIVATED" # None
    BY <2>1, Constants DEF RequestTiers, AccountStatus
  <2> QED
    BY <1>4, <2>1, <2>2, <2>3
<1>14. CASE BvnAttempt(r)
  <2> DEFINE w == [req[r] EXCEPT !.op = "bvn_attempt"]
  <2>1. /\ req[r].op = "verify_bvn" /\ req' = [req EXCEPT ![r].op = "bvn_attempt"]
        /\ UNCHANGED <<user, kyc>>
    BY <1>14 DEF BvnAttempt, rows
  <2>2. req' = [req EXCEPT ![r] = w]
    BY <1>1, <2>1
  <2>3. w.op = "bvn_attempt" /\ w.user = u /\ w.tier = req[r].tier
    BY <1>1 DEF Work
  <2>4. user[u].status # None /\ (w.tier = "TIER_2" => user[u].tier = "TIER_2")
    BY <2>1, <2>3 DEF RequestTiers, BvnOp
  <2>5. UserTiers'
    BY <2>1 DEF UserTiers
  <2>6. \A q \in Request : req[q].op = "register" => user'[req[q].user].status = None
    BY <2>1 DEF RequestTiers
  <2> HIDE DEF w
  <2> QED
    BY <1>1, <2>1, <2>2, <2>3, <2>4, <2>5, <2>6, TierStep
<1>15. CASE BvnCommits(r)
  <2>1. /\ req[r].op = "bvn_attempt" /\ req' = [req EXCEPT ![r] = Idle]
        /\ kyc' = [kyc EXCEPT ![u] = [tier |-> "TIER_2", bvn |-> req[r].target]]
        /\ user' = [user EXCEPT ![u].tier = IF req[r].tier # "TIER_2" THEN "TIER_2" ELSE @]
    BY <1>15 DEF BvnCommits, complete_tier_2, Finish
  <2>2. /\ u \in User /\ req[r].target \in BVN
        /\ user[u].status # None
        /\ req[r].tier = "TIER_2" => user[u].tier = "TIER_2"
    BY <1>1, <1>2, <2>1 DEF RequestTiers, BvnOp, WorkFits, Complete
  <2>3. user' = [user EXCEPT ![u].tier = "TIER_2"]
    BY <1>1, <2>1, <2>2 DEF Users
  <2>4. \A v \in User : /\ user'[v].tier = IF v = u THEN "TIER_2" ELSE user[v].tier
                        /\ user'[v].status = user[v].status
    BY <1>1, <2>2, <2>3 DEF Users
  <2>5. \A v \in User : /\ kyc'[v].tier = IF v = u THEN "TIER_2" ELSE kyc[v].tier
                        /\ kyc'[v].bvn = IF v = u THEN req[r].target ELSE kyc[v].bvn
    BY <1>1, <2>1, <2>2
  <2>6. req[r].target # None
    BY <2>2, Constants
  <2>7. UserTiers'
    BY <2>2, <2>4, <2>5, <2>6 DEF UserTiers
  <2>8. \A q \in Request : req[q].op = "register" => user'[req[q].user].status = None
    BY <1>1, <2>4 DEF RequestTiers, WorkFits, Complete
  <2> QED
    BY <1>1, <1>3, <2>1, <2>4, <2>7, <2>8, TierStep
<1>16. CASE UpgradeCommits(r)
  BY <1>16 DEF UpgradeCommits, Finish, RequestTiers
<1> QED
  BY <1>5, <1>6, <1>7, <1>8, <1>10, <1>11, <1>12, <1>13, <1>14, <1>15, <1>16 DEF End

LEMMA Shape == IInv <=> Sound /\ TiersFit /\ TierFollowsBVN
BY DEF IInv, Sound, MailOK, LinksOK, TypeOK

LEMMA TierNext == ASSUME IInv, [Next]_vars PROVE TiersFit' /\ TierFollowsBVN'
<1>1. Sound /\ spent \in [Events -> Nat]
  BY Shape, Typed DEF Sound
<1>2. SUFFICES ASSUME spent'["by_hand"] = 0 PROVE UserTiers' /\ RequestTiers'
  BY DEF TiersFit, TierFollowsBVN, UserTiers, RequestTiers, Registered, BvnOp
<1>3. spent["by_hand"] = 0 => UserTiers /\ RequestTiers
  BY TiersSplit, Shape
<1>4. UNCHANGED <<user, kyc, req>> /\ UserTiers /\ RequestTiers => UserTiers' /\ RequestTiers'
  BY DEF UserTiers, RequestTiers
<1>5. ASSUME NEW e \in Events, Spend(e)
      PROVE  /\ e # "by_hand"
             /\ spent["by_hand"] = 0
  BY <1>1, <1>2, <1>5 DEF Spend, Events
<1>6. ASSUME NEW r \in Request, LinkStep(r) \/ UserStep(r) PROVE UserTiers' /\ RequestTiers'
  <2>1. \E e \in Events : Spend(e)
    BY <1>6 DEF LinkStep, UserStep, register, forgot_password, resend_email_verification,
       verify_email, reset_password, change_password, deactivate_account, register_as_seller,
       verify_seller, verify_bvn, admin_upgrade_tier, SendLink, Read, Begin, Events
  <2> QED
    BY <1>1, <1>2, <1>3, <1>5, <1>6, <2>1, TierBegins
<1>7. ASSUME NEW r \in Request, End(r) \/ RequestFails(r) PROVE UserTiers' /\ RequestTiers'
  <2>1. UNCHANGED spent
    BY <1>7 DEF End, RegisterCommits, ForgotCommits, ResendCommits, VerifyCommits,
       ResetCommits, ChangeCommits, DeactivateCommits, SellerCommits, SellerRefused,
       DecisionCommits, BvnAttempt, BvnRefused, BvnCommits, UpgradeCommits, RequestFails,
       Finish
  <2> QED
    BY <1>1, <1>2, <1>3, <1>7, <2>1, TierEnds
<1>8. CASE NotifyEvent /\ Spend("request") /\ UNCHANGED <<rows, req>>
  BY <1>3, <1>4, <1>5, <1>8 DEF rows, Events
<1>9. CASE NextMail /\ UNCHANGED <<rows, req, spent>>
  BY <1>2, <1>3, <1>4, <1>9 DEF rows
<1>10. CASE \E m \in Message : LinkExpires(m)
  BY <1>3, <1>4, <1>5, <1>10 DEF LinkExpires, Events
<1>11. CASE \E u \in User : \/ \E s \in AccountStatus : update_user_status(u, s)
                            \/ PanelSetsTier(u, "TIER_1") \/ PanelSetsTier(u, "TIER_2")
  BY <1>5, <1>11 DEF update_user_status, PanelSetsTier, Events
<1>12. CASE UNCHANGED vars
  BY <1>2, <1>3, <1>4, <1>12 DEF vars, rows
<1> QED
  BY <1>6, <1>7, <1>8, <1>9, <1>10, <1>11, <1>12 DEF Next

-----------------------------------------------------------------------------
(***************************************************************************)
(* The theorems.                                                           *)
(***************************************************************************)

LEMMA InitInv == Init => IInv
<1> SUFFICES ASSUME Init PROVE IInv
  OBVIOUS
<1>1. /\ Unused \in MessageType /\ Unused.state = "unused" /\ Unused.mails = 0
      /\ Unused.retries = 0
  BY Constants DEF Unused, MessageType, State
<1>2. /\ message = [m \in Message |-> Unused] /\ notification = [m \in Message |-> None]
      /\ faults = [failure |-> 0, crash |-> 0]
  BY DEF Init, InitMail
<1>3. MailOK
  BY <1>1, <1>2 DEF MailOK, MailTypeOK, MailFits, TaskOutcome, MessageType
<1>4. /\ NoUser \in Users /\ NoUser.verified = FALSE /\ NoUser.password = 0
      /\ NoUser.status = None /\ NoUser.tier = "TIER_1"
  BY DEF NoUser, Users, Tier
<1>5. /\ NewUser \in Users /\ NewUser.password = 0 /\ NewUser.tier = "TIER_1"
  BY <1>4 DEF NewUser, Users, AccountStatus
<1> DEFINE Verified == [NewUser EXCEPT !.verified = TRUE]
<1>6. Verified \in Users /\ Verified.password = 0 /\ Verified.tier = "TIER_1"
  BY <1>5 DEF Users
<1>7. user = [u \in User |-> IF u \in Members THEN Verified ELSE NoUser]
  BY DEF Init
<1> HIDE DEF Verified
<1>8. \A u \in User :
         /\ user[u] \in Users /\ user[u].password = 0 /\ user[u].tier = "TIER_1"
         /\ user[u].verified => u \in Members
  BY <1>4, <1>6, <1>7
<1>9. user \in [User -> Users]
  BY <1>7, <1>8
<1>10. seller \in [User -> Sellers]
  <2>1. NoProfile \in Sellers /\ [NoProfile EXCEPT !.status = "PENDING"] \in Sellers
    BY DEF NoProfile, Sellers, SellerStatus
  <2> QED
    BY <2>1 DEF Init
<1>11. kyc = [u \in User |-> [tier |-> "TIER_1", bvn |-> None]] /\ kyc \in [User -> Kycs]
  BY DEF Init, Kycs, Tier
<1>12. token = [m \in Message |-> None] /\ token \in [Message -> Tokens]
  BY DEF Init, Tokens
<1>13. req = [r \in Request |-> Idle] /\ req \in [Request -> Work]
  BY IdleFits DEF Init
<1>14. spent \in [Events -> Nat]
  BY DEF Init, Events
<1>15. TypeOK /\ WorkFits
  BY <1>3, <1>9, <1>10, <1>11, <1>12, <1>13, <1>14, Typed, IdleFits DEF MailOK, WorkFits
<1>16. VerifiedByMail /\ ResetByMail
  BY <1>8 DEF VerifiedByMail, ResetByMail, Message
<1>17. LinksFit
  BY <1>12, <1>13, IdleFits DEF LinksFit, Plain, Sending, Opening
<1>18. UserTiers
  BY <1>8, <1>11 DEF UserTiers
<1>19. RequestTiers
  BY <1>13, IdleFits DEF RequestTiers, Idle, BvnOp
<1> QED
  BY <1>3, <1>15, <1>16, <1>17, <1>18, <1>19, Shape, TiersSplit DEF Sound, LinksOK

LEMMA NextInv == IInv /\ [Next]_vars => IInv'
<1> SUFFICES ASSUME IInv, [Next]_vars PROVE IInv'
  OBVIOUS
<1>1. Sound'
  BY Shape, SoundStep
<1>2. TiersFit' /\ TierFollowsBVN'
  BY TierNext
<1> QED
  BY <1>1, <1>2 DEF IInv, Sound, MailOK, LinksOK

LEMMA Invariance == Spec => []IInv
BY InitInv, NextInv, PTL DEF Spec

\* Every variable holds a value of its kind.
THEOREM TypeCorrect == Spec => []TypeOK
<1>1. IInv => TypeOK
  BY DEF IInv
<1> QED
  BY <1>1, Invariance, PTL

\* A task of apps/notifications that succeeded has sent its e-mail, one that failed
\* has used all its retries, and a row is inserted once, behind the e-mail.
THEOREM TasksEndWell == Spec => []TaskOutcome
<1>1. IInv => TaskOutcome
  BY DEF IInv
<1> QED
  BY <1>1, Invariance, PTL

\* AuthService.verify_email: only a link that came by e-mail and is used up by
\* it verifies a user.
THEOREM VerificationNeedsMail == Spec => []VerifiedByMail
<1>1. IInv => VerifiedByMail
  BY DEF IInv
<1> QED
  BY <1>1, Invariance, PTL

\* AuthService.reset_password: a link that has set a password was mailed to that
\* user for it.
THEOREM ResetNeedsMail == Spec => []ResetByMail
<1>1. IInv => ResetByMail
  BY DEF IInv
<1> QED
  BY <1>1, Invariance, PTL

\* The two copies of a user's tier agree, and stand for his BVN, until an admin
\* sets one by hand.
THEOREM TiersAgree == Spec => []TierFollowsBVN
<1>1. IInv => TierFollowsBVN
  BY DEF IInv
<1> QED
  BY <1>1, Invariance, PTL

\* What Written makes of a row that is still the one read.
LEMMA WrittenAnew ==
    ASSUME NEW stored \in Sellers, NEW new \in Sellers
    PROVE  /\ Written(stored, stored, new).status = new.status
           /\ Written(stored, stored, new).is_verified = new.is_verified
BY DEF Written, Sellers

LEMMA Decides ==
    ASSUME IInv, NEW r \in Request, SellerCommits(r) \/ \E m \in Message : DecisionCommits(r, m),
           req[r].seller = seller[req[r].user]
    PROVE  LET u == req[r].user
           IN  seller'[u].is_verified <=> seller'[u].status = "APPROVED"
<1> DEFINE u == req[r].user
<1>1. /\ seller \in [User -> Sellers] /\ WorkFits
  BY Shape, Typed DEF Sound
<1>2. req[r].op \in Decision
  BY DEF SellerCommits, DecisionCommits, Finish, Decision
<1>3. u \in User
  BY <1>1, <1>2 DEF WorkFits, Complete, Decision
<1>4. ASSUME NEW status \in SellerStatus, NEW v \in BOOLEAN, Decide(r, status, v),
             v <=> status = "APPROVED"
      PROVE  seller'[u].is_verified <=> seller'[u].status = "APPROVED"
  <2> DEFINE new == [status |-> status, is_verified |-> v]
  <2>1. new \in Sellers /\ new.status = status /\ new.is_verified = v
    BY DEF Sellers
  <2>2. seller' = [seller EXCEPT ![u] = Written(seller[u], seller[u], new)]
    BY <1>1, <1>4 DEF Decide
  <2>3. seller'[u] = Written(seller[u], seller[u], new)
    BY <1>1, <1>3, <2>2
  <2> HIDE DEF new
  <2> QED
    BY <1>1, <1>3, <1>4, <2>1, <2>3, WrittenAnew
<1>5. CASE SellerCommits(r)
  BY <1>4, <1>5 DEF SellerCommits, SellerStatus
<1>6. CASE \E m \in Message : DecisionCommits(r, m)
  BY <1>4, <1>6 DEF DecisionCommits, update_seller_verification, SellerStatus
<1> QED
  BY <1>5, <1>6

\* UserService.verify_seller and register_as_seller: written over the row that was
\* read, a decision verifies the seller exactly when it approves him.
THEOREM DecisionsAreWhole == Spec => UndisturbedDecides
<1>1. ASSUME IInv, [Next]_vars, NEW r \in Request, req[r].op \in Decision,
             req[r].seller = seller[req[r].user], req'[r].op = "idle", seller' # seller
      PROVE  LET u == req[r].user
             IN  seller'[u].is_verified <=> seller'[u].status = "APPROVED"
  <2>1. PICK q \in Request : SellerCommits(q) \/ \E m \in Message : DecisionCommits(q, m)
    <3>1. ASSUME NEW q \in Request, LinkStep(q) \/ UserStep(q) PROVE UNCHANGED seller
      BY <3>1 DEF LinkStep, UserStep, register, forgot_password, resend_email_verification,
         verify_email, reset_password, change_password, deactivate_account,
         register_as_seller, verify_seller, verify_bvn, admin_upgrade_tier, SendLink, Read, rows
    <3>2. ASSUME NEW q \in Request, End(q),
                 ~SellerCommits(q), ~\E m \in Message : DecisionCommits(q, m)
          PROVE  UNCHANGED seller
      BY <3>2 DEF End, RegisterCommits, ForgotCommits, ResendCommits, VerifyCommits,
         ResetCommits, ChangeCommits, DeactivateCommits, SellerRefused, BvnAttempt,
         BvnRefused, BvnCommits, UpgradeCommits, rows
    <3>3. ASSUME NEW q \in Request, RequestFails(q) PROVE UNCHANGED seller
      BY <3>3 DEF RequestFails
    <3>4. ASSUME ~\E q \in Request : LinkStep(q) \/ UserStep(q) \/ End(q) \/ RequestFails(q)
          PROVE  UNCHANGED seller
      BY <1>1, <3>4 DEF Next, vars, rows, LinkExpires, update_user_status, PanelSetsTier
    <3> QED
      BY <1>1, <3>1, <3>2, <3>3, <3>4
  <2>2. req' = [req EXCEPT ![q] = Idle] /\ req \in [Request -> Work]
    BY <1>1, <2>1, Shape, Typed DEF SellerCommits, DecisionCommits, Finish, Sound
  <2>3. "idle" \notin Decision
    BY DEF Decision
  <2>4. q = r
    BY <1>1, <2>2, <2>3
  <2> QED
    BY <1>1, <2>1, <2>4, Decides
<1>2. IInv /\ [Next]_vars =>
         [\A r \in Request :
            LET u == req[r].user
            IN  /\ req[r].op \in Decision /\ req[r].seller = seller[u]
                /\ req'[r].op = "idle" /\ seller' # seller
                => (seller'[u].is_verified <=> seller'[u].status = "APPROVED")]_vars
  BY <1>1
<1> QED
  BY <1>2, Invariance, PTL DEF Spec, UndisturbedDecides
\* The tokens that do not work, and will not.
Spoilt == {"used", "expired", "void"}

LEMMA TokenStays ==
    ASSUME IInv, [Next]_vars, NEW m \in Message, token[m] \in Spoilt
    PROVE  token'[m] \in Spoilt
<1>1. /\ token \in [Message -> Tokens] /\ LinksFit
  BY Shape, Typed DEF Sound, LinksOK
<1>2. None \notin Spoilt /\ "pending" \notin Spoilt /\ "valid" \notin Spoilt /\ "used" \in Spoilt
  BY Constants DEF Spoilt
<1>3. ASSUME NEW r \in Request, NEW k \in Message, NEW work, NEW task, SendLink(r, work, k, task)
      PROVE  token'[m] = token[m]
  <2>1. token[k] = None
    BY <1>1, <1>3 DEF SendLink, Delay, LinksFit
  <2> QED
    BY <1>1, <1>2, <1>3, <2>1 DEF SendLink
<1>4. ASSUME NEW r \in Request, LinkStep(r) \/ UserStep(r) PROVE token'[m] \in Spoilt
  BY <1>3, <1>4 DEF LinkStep, UserStep, register, forgot_password, resend_email_verification,
     verify_email, reset_password, change_password, deactivate_account,
     register_as_seller, verify_seller, verify_bvn, admin_upgrade_tier, Read, rows
<1>5. ASSUME NEW r \in Request, RegisterCommits(r) \/ ForgotCommits(r) \/ ResendCommits(r)
      PROVE  token'[m] \in Spoilt
  <2>1. req[r].op \in Sending
    BY <1>5 DEF RegisterCommits, ForgotCommits, ResendCommits, Finish, Sending
  <2>2. token[req[r].link] = "pending"
    BY <1>1, <2>1 DEF LinksFit
  <2>3. m # req[r].link
    BY <1>2, <2>2
  <2> QED
    BY <1>1, <1>2, <1>5, <2>3 DEF RegisterCommits, ForgotCommits, ResendCommits
<1>6. ASSUME NEW r \in Request, VerifyCommits(r) \/ ResetCommits(r)
      PROVE  token'[m] \in Spoilt
  BY <1>1, <1>2, <1>6 DEF VerifyCommits, ResetCommits
<1>7. ASSUME NEW r \in Request, End(r), ~RegisterCommits(r), ~ForgotCommits(r),
             ~ResendCommits(r), ~VerifyCommits(r), ~ResetCommits(r)
      PROVE  UNCHANGED token
  BY <1>7 DEF End, ChangeCommits, DeactivateCommits, SellerCommits, SellerRefused,
     DecisionCommits, BvnAttempt, BvnRefused, BvnCommits, UpgradeCommits, rows
<1>8. ASSUME NEW r \in Request, RequestFails(r) PROVE token'[m] \in Spoilt
  BY <1>1, <1>2, <1>8 DEF RequestFails
<1>9. ASSUME NEW k \in Message, LinkExpires(k) PROVE token'[m] \in Spoilt
  BY <1>1, <1>2, <1>9 DEF LinkExpires
<1>10. ASSUME ~\E r \in Request : LinkStep(r) \/ UserStep(r) \/ End(r) \/ RequestFails(r),
              ~\E k \in Message : LinkExpires(k)
       PROVE  UNCHANGED token
  BY <1>10 DEF Next, vars, rows, update_user_status, PanelSetsTier
<1> QED
  BY <1>4, <1>5, <1>6, <1>7, <1>8, <1>9, <1>10

LEMMA NobodyBegins ==
    ASSUME IInv, [Next]_vars, NEW m \in Message, token[m] \in Spoilt
    PROVE  Using(m)' \subseteq Using(m)
<1>1. req \in [Request -> Work]
  BY Shape, Typed DEF Sound
<1>2. "valid" \notin Spoilt
  BY DEF Spoilt
<1>3. ASSUME NEW r \in Request, NEW w, req' = [req EXCEPT ![r] = w],
             w.op \in Opening => w.link # m
      PROVE  Using(m)' \subseteq Using(m)
  <2>1. \A q \in Request : req'[q] = IF q = r THEN w ELSE req[q]
    BY <1>1, <1>3
  <2> QED
    BY <1>3, <2>1 DEF Using, Opening
<1>4. ASSUME NEW r \in Request, NEW w, Begin(r, w), w.op \in Opening => w.link # m
      PROVE  Using(m)' \subseteq Using(m)
  BY <1>3, <1>4 DEF Begin
<1>5. ASSUME NEW r \in Request, LinkStep(r) PROVE Using(m)' \subseteq Using(m)
  <2>1. ASSUME NEW u \in User, NEW k \in Message,
               register(r, u, k) \/ forgot_password(r, u, k) \/ resend_email_verification(r, u, k)
        PROVE  Using(m)' \subseteq Using(m)
    <3>1. ASSUME NEW op \in Sending, NEW x, NEW task,
                 SendLink(r, [Idle EXCEPT !.op = op, !.user = u, !.links = x], k, task)
          PROVE  Using(m)' \subseteq Using(m)
      <4> DEFINE w == [[Idle EXCEPT !.op = op, !.user = u, !.links = x] EXCEPT !.link = k]
      <4>1. w.op = op /\ Begin(r, w)
        BY <3>1 DEF SendLink, Idle
      <4> HIDE DEF w
      <4> QED
        BY <1>4, <4>1 DEF Sending, Opening
    <3>2. ASSUME NEW op \in Sending, NEW task,
                 SendLink(r, [Idle EXCEPT !.op = op, !.user = u], k, task)
          PROVE  Using(m)' \subseteq Using(m)
      <4> DEFINE w == [[Idle EXCEPT !.op = op, !.user = u] EXCEPT !.link = k]
      <4>1. w.op = op /\ Begin(r, w)
        BY <3>2 DEF SendLink, Idle
      <4> HIDE DEF w
      <4> QED
        BY <1>4, <4>1 DEF Sending, Opening
    <3>3. CASE register(r, u, k)
      BY <3>2, <3>3 DEF register, Sending
    <3>4. CASE forgot_password(r, u, k)
      BY <3>2, <3>4 DEF forgot_password, Sending
    <3>5. CASE resend_email_verification(r, u, k)
      BY <3>1, <3>5 DEF resend_email_verification, Sending
    <3> QED
      BY <2>1, <3>3, <3>4, <3>5
  <2>2. ASSUME NEW k \in Message, verify_email(r, k) \/ reset_password(r, k)
        PROVE  Using(m)' \subseteq Using(m)
    <3>1. token[k] = "valid"
      BY <2>2 DEF verify_email, reset_password, ValidLink
    <3>2. ASSUME NEW op,
                 Begin(r, [Idle EXCEPT !.op = op, !.user = message[k].to, !.link = k])
          PROVE  Using(m)' \subseteq Using(m)
      <4> DEFINE w == [Idle EXCEPT !.op = op, !.user = message[k].to, !.link = k]
      <4>1. w.link = k
        BY DEF Idle
      <4>2. Begin(r, w)
        BY <3>2
      <4> HIDE DEF w
      <4> QED
        BY <1>2, <1>4, <3>1, <4>1, <4>2
    <3> QED
      BY <2>2, <3>2 DEF verify_email, reset_password, Read
  <2> QED
    BY <1>5, <2>1, <2>2 DEF LinkStep
<1>6. ASSUME NEW r \in Request, UserStep(r) PROVE Using(m)' \subseteq Using(m)
  <2>1. ASSUME NEW w, Begin(r, w), w.op \notin Opening PROVE Using(m)' \subseteq Using(m)
    BY <1>4, <2>1
  <2>2. ASSUME NEW u \in User, change_password(r, u) \/ deactivate_account(r, u)
        PROVE  Using(m)' \subseteq Using(m)
    <3>1. \A op : [Idle EXCEPT !.op = op, !.user = u].op = op
      BY DEF Idle
    <3> QED
      BY <2>1, <2>2, <3>1 DEF change_password, deactivate_account, Read, Opening
  <2>3. ASSUME NEW u \in User,
               \/ register_as_seller(r, u)
               \/ verify_seller(r, u, "approve") \/ verify_seller(r, u, "reject")
        PROVE  Using(m)' \subseteq Using(m)
    <3>1. \A op : [Idle EXCEPT !.op = op, !.user = u, !.seller = seller[u]].op = op
      BY DEF Idle
    <3> QED
      BY <2>1, <2>3, <3>1 DEF register_as_seller, verify_seller, Read, Opening
  <2>4. ASSUME NEW u \in User, NEW b \in BVN, verify_bvn(r, u, b)
        PROVE  Using(m)' \subseteq Using(m)
    <3>1. [Idle EXCEPT !.op = "verify_bvn", !.user = u, !.target = b,
                       !.tier = user[u].tier].op = "verify_bvn"
      BY DEF Idle
    <3> QED
      BY <2>1, <2>4, <3>1 DEF verify_bvn, Read, Opening
  <2>5. ASSUME NEW u \in User, NEW t \in Tier, admin_upgrade_tier(r, u, t)
        PROVE  Using(m)' \subseteq Using(m)
    <3>1. [Idle EXCEPT !.op = "upgrade_tier", !.user = u, !.target = t,
                       !.tier = user[u].tier, !.kyc_tier = kyc[u].tier].op = "upgrade_tier"
      BY DEF Idle
    <3> QED
      BY <2>1, <2>5, <3>1 DEF admin_upgrade_tier, Read, Opening
  <2> QED
    BY <1>6, <2>2, <2>3, <2>4, <2>5 DEF UserStep
<1>7. ASSUME NEW r \in Request, NEW op, Finish(r, op) PROVE Using(m)' \subseteq Using(m)
  BY <1>3, <1>7 DEF Finish, Idle, Opening
<1>8. ASSUME NEW r \in Request, BvnAttempt(r) PROVE Using(m)' \subseteq Using(m)
  <2> DEFINE w == [req[r] EXCEPT !.op = "bvn_attempt"]
  <2>1. w.op = "bvn_attempt" /\ req' = [req EXCEPT ![r] = w]
    BY <1>1, <1>8 DEF BvnAttempt, Work
  <2> HIDE DEF w
  <2> QED
    BY <1>3, <2>1 DEF Opening
<1>9. ASSUME NEW r \in Request, End(r) PROVE Using(m)' \subseteq Using(m)
  BY <1>7, <1>8, <1>9 DEF End, RegisterCommits, ForgotCommits, ResendCommits, VerifyCommits,
     ResetCommits, ChangeCommits, DeactivateCommits, SellerCommits, SellerRefused,
     DecisionCommits, BvnRefused, BvnCommits, UpgradeCommits
<1>10. ASSUME NEW r \in Request, RequestFails(r) PROVE Using(m)' \subseteq Using(m)
  BY <1>7, <1>10 DEF RequestFails
<1>11. ASSUME ~\E r \in Request : LinkStep(r) \/ UserStep(r) \/ End(r) \/ RequestFails(r)
       PROVE  Using(m)' \subseteq Using(m)
  <2>1. UNCHANGED req
    BY <1>11 DEF Next, vars, LinkExpires, update_user_status, PanelSetsTier
  <2> QED
    BY <2>1 DEF Using
<1> QED
  BY <1>5, <1>6, <1>9, <1>10, <1>11

\* A password comes from the link of a request that ends.
LEMMA SetByRequest ==
    ASSUME IInv, [Next]_vars, NEW m \in Message, NEW u \in User,
           user'[u].password = m, user[u].password # m
    PROVE  \E r \in Request : r \in Using(m) /\ r \notin Using(m)'
<1>1. user \in [User -> Users] /\ req \in [Request -> Work] /\ 0 # m
  BY Shape, Typed DEF Sound, Message
<1>2. \A x \in Users : x.password \in Nat
  BY DEF Users
<1>3. ASSUME NEW r \in Request, ResetCommits(r)
      PROVE  r \in Using(m) /\ r \notin Using(m)'
  <2>1. /\ req[r].op = "reset_password" /\ req' = [req EXCEPT ![r] = Idle]
        /\ user' = [user EXCEPT ![req[r].user].password = req[r].link]
    BY <1>3 DEF ResetCommits, Finish
  <2>2. req[r].link = m
    BY <1>1, <2>1 DEF Users
  <2>3. req'[r].op = "idle"
    BY <1>1, <2>1 DEF Idle
  <2> QED
    BY <2>1, <2>2, <2>3 DEF Using
<1>4. ASSUME NEW r \in Request, LinkStep(r) \/ UserStep(r) PROVE UNCHANGED user
  BY <1>4 DEF LinkStep, UserStep, register, forgot_password, resend_email_verification,
     verify_email, reset_password, change_password, deactivate_account,
     register_as_seller, verify_seller, verify_bvn, admin_upgrade_tier, SendLink, Read, rows
<1>5. ASSUME NEW r \in Request, RegisterCommits(r) PROVE FALSE
  <2>1. user'[u] = IF u = req[r].user THEN NewUser ELSE user[u]
    BY <1>1, <1>5 DEF RegisterCommits
  <2>2. NewUser.password = 0
    BY DEF NewUser, NoUser
  <2> QED
    BY <1>1, <2>1, <2>2
<1>6. ASSUME NEW r \in Request, VerifyCommits(r) \/ ChangeCommits(r) \/ DeactivateCommits(r)
      PROVE  FALSE
  BY <1>1, <1>6 DEF VerifyCommits, ChangeCommits, DeactivateCommits, Users
<1>7. ASSUME NEW r \in Request, BvnCommits(r) \/ UpgradeCommits(r) PROVE FALSE
  BY <1>1, <1>7 DEF BvnCommits, UpgradeCommits, Users
<1>8. ASSUME NEW r \in Request, End(r), ~RegisterCommits(r), ~VerifyCommits(r),
             ~ResetCommits(r), ~ChangeCommits(r), ~DeactivateCommits(r), ~BvnCommits(r),
             ~UpgradeCommits(r)
      PROVE  UNCHANGED user
  BY <1>8 DEF End, ForgotCommits, ResendCommits, SellerCommits, SellerRefused,
     DecisionCommits, BvnAttempt, BvnRefused, rows
<1>9. ASSUME NEW v \in User, NEW s \in AccountStatus, update_user_status(v, s) PROVE FALSE
  BY <1>1, <1>9 DEF update_user_status, Users
<1>10. ASSUME ~\E r \in Request : LinkStep(r) \/ UserStep(r) \/ End(r),
              ~\E v \in User, s \in AccountStatus : update_user_status(v, s)
       PROVE  UNCHANGED user
  BY <1>10 DEF Next, vars, rows, RequestFails, LinkExpires, PanelSetsTier
<1> QED
  BY <1>3, <1>4, <1>5, <1>6, <1>7, <1>8, <1>9, <1>10

\* AuthService.reset_password and verify_email: a link that has set a password, or
\* is used up, expired or rolled back, never works again.
THEOREM SpoiltLinks == Spec => DeadLinksStayDead
<1>1. ASSUME IInv, [Next]_vars, NEW m \in Message, Dead(m)
      PROVE  /\ Dead(m)'
             /\ Using(m)' \subseteq Using(m)
             /\ \A u \in User : user'[u].password = m =>
                   user[u].password = m \/ Using(m)' # Using(m)
  <2>1. token[m] \in Spoilt
    BY <1>1 DEF Dead, Spoilt, IInv, ResetByMail
  <2>2. Dead(m)'
    BY <1>1, <2>1, TokenStays DEF Dead, Spoilt
  <2>3. Using(m)' \subseteq Using(m)
    BY <1>1, <2>1, NobodyBegins
  <2>4. ASSUME NEW u \in User, user'[u].password = m, user[u].password # m
        PROVE  Using(m)' # Using(m)
    <3>1. PICK r \in Request : r \in Using(m) /\ r \notin Using(m)'
      BY <1>1, <2>4, SetByRequest
    <3> QED
      BY <3>1
  <2> QED
    BY <2>2, <2>3, <2>4
<1>2. IInv /\ [Next]_vars =>
         [\A m \in Message : Dead(m) =>
             /\ Dead(m)'
             /\ Using(m)' \subseteq Using(m)
             /\ \A u \in User : user'[u].password = m =>
                   user[u].password = m \/ Using(m)' # Using(m)]_vars
  BY <1>1
<1> QED
  BY <1>2, Invariance, PTL DEF Spec, DeadLinksStayDead
=============================================================================
