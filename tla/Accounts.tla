------------------------------ MODULE Accounts ------------------------------
(***************************************************************************)
(* User accounts (apps/authentication, apps/users): registration and links *)
(* sent by e-mail, passwords, account status, seller profiles and KYC.     *)
(* The links and the decisions on sellers travel in the messages of        *)
(* Notifications.                                                          *)
(*                                                                         *)
(* A request first reads, without locks, and then writes and commits, two  *)
(* steps (three for a BVN, whose attempt locks the KYC row).  The columns  *)
(* written are those whose value differs from the one read, as SQLAlchemy  *)
(* does it.  Anyone who knows his password may be signed in at any time:   *)
(* access and refresh tokens are not kept by the server.                   *)
(***************************************************************************)
EXTENDS Notifications, FiniteSets

CONSTANTS
    BVN,          \* bank verification numbers
    Members,      \* users who are registered and verified from the start
    Applicants,   \* those of them whose seller profile is PENDING
    Uses,         \* bound: the users who make each kind of request
    MaxOpen,      \* bound: requests served at a time
    MaxEvents,    \* bound: requests, here and of Sent, changes by hand and expiries
    MaxByHand     \* bound: tiers set and accounts (un)banned by admins

AccountStatus == {"ACTIVE", "SUSPENDED", "BANNED", "DEACTIVATED"}
SellerStatus == {"PENDING", "APPROVED", "REJECTED"}
Tier == {"TIER_1", "TIER_2", "TIER_3"}
Decision == {"register_as_seller", "approve", "reject"}
Op == Decision \union {"register", "forgot_password", "resend", "verify_email",
                       "reset_password", "change_password", "deactivate",
                       "verify_bvn", "bvn_attempt", "upgrade_tier"}

ASSUME AccountsAssumption ==
    /\ Applicants \subseteq Members /\ Members \subseteq User
    /\ Uses \in [Op -> SUBSET User]
    /\ {MaxOpen, MaxEvents, MaxByHand} \subseteq Nat
    /\ None \notin AccountStatus \union SellerStatus \union Tier \union Op \union BVN
    /\ None \notin {"pending", "valid", "used", "expired", "void"} \union Nat

VARIABLES
    user,    \* users: no status before registration, password 0 if no link set it
    seller,  \* seller_profiles; a status None is no row
    kyc,     \* kyc_profiles
    token,   \* the token each message carries, in its table
    req,     \* what each request has read
    spent    \* occurrences of each bounded event

rows == <<user, seller, kyc, token>>
vars == <<mail, rows, req, spent>>

Request == 1..MaxOpen
Idle == [op |-> "idle", user |-> None, link |-> None, links |-> {}, seller |-> None,
         tier |-> None, kyc_tier |-> None, target |-> None]

NoUser == [status |-> None, verified |-> FALSE, tier |-> "TIER_1", password |-> 0]
NewUser == [NoUser EXCEPT !.status = "ACTIVE"]
NoProfile == [status |-> None, is_verified |-> FALSE]

Init ==
    /\ InitMail
    /\ user = [u \in User |->
                  IF u \in Members THEN [NewUser EXCEPT !.verified = TRUE] ELSE NoUser]
    /\ seller = [u \in User |-> IF u \in Applicants
                                THEN [NoProfile EXCEPT !.status = "PENDING"] ELSE NoProfile]
    /\ kyc = [u \in User |-> [tier |-> "TIER_1", bvn |-> None]]
    /\ token = [m \in Message |-> None]
    /\ req = [r \in Request |-> Idle]
    /\ spent = [request |-> 0, by_hand |-> 0, expiry |-> 0]

Spend(e) ==
    /\ spent["request"] + spent["by_hand"] + spent["expiry"] < MaxEvents
    /\ e = "by_hand" => spent["by_hand"] < MaxByHand
    /\ spent' = [spent EXCEPT ![e] = @ + 1]

\* Any free slot is as good as another.
Begin(r, work) ==
    /\ req[r].op = "idle"
    /\ \A q \in Request : q < r => req[q].op # "idle"
    /\ work.user \in Uses[work.op]
    /\ Spend(IF work.op = "upgrade_tier" THEN "by_hand" ELSE "request")
    /\ req' = [req EXCEPT ![r] = work]

\* A request that only reads before its commit.
Read(r, work) ==
    /\ Begin(r, work)
    /\ UNCHANGED <<mail, rows>>

Finish(r, op) ==
    /\ req[r].op = op
    /\ req' = [req EXCEPT ![r] = Idle]
    /\ UNCHANGED spent

\* The guards get_current_user and get_current_active_user.
Registered(u) == user[u].status # None
Admitted(u) == Registered(u) /\ user[u].status \notin {"SUSPENDED", "BANNED"}
AdmittedActive(u) == Admitted(u) /\ user[u].verified

-----------------------------------------------------------------------------
(***************************************************************************)
(* Links.  The message goes out before the transaction that stores the     *)
(* token commits.                                                          *)
(***************************************************************************)

SendLink(r, work, m, task) ==
    /\ Begin(r, [work EXCEPT !.link = m])
    /\ Delay(m, task, work.user)
    /\ token' = [token EXCEPT ![m] = "pending"]
    /\ UNCHANGED <<notification, faults, user, seller, kyc>>

\* The insert of the same e-mail address waits for the first one's commit.
register(r, u, m) ==
    /\ ~Registered(u)
    /\ \A q \in Request : req[q].op = "register" => req[q].user # u
    /\ SendLink(r, [Idle EXCEPT !.op = "register", !.user = u], m,
                "send_verification_email")

\* The user, a wallet, a profile and a KYC profile of the first tier.
RegisterCommits(r) ==
    /\ Finish(r, "register")
    /\ user' = [user EXCEPT ![req[r].user] = NewUser]
    /\ token' = [token EXCEPT ![req[r].link] = "valid"]
    /\ UNCHANGED <<mail, seller, kyc>>

forgot_password(r, u, m) ==
    /\ Registered(u)
    /\ SendLink(r, [Idle EXCEPT !.op = "forgot_password", !.user = u], m,
                "send_password_reset_email")

ForgotCommits(r) ==
    /\ Finish(r, "forgot_password")
    /\ token' = [token EXCEPT ![req[r].link] = "valid"]
    /\ UNCHANGED <<mail, user, seller, kyc>>

Carries(m, task) == message[m].task = task

\* The tokens of one user that an UPDATE finds unused.
Links(u) == {m \in Message : /\ Carries(m, "send_verification_email")
                             /\ message[m].to = u /\ token[m] = "valid"}

resend_email_verification(r, u, m) ==
    /\ Registered(u) /\ ~user[u].verified
    /\ SendLink(r, [Idle EXCEPT !.op = "resend", !.user = u, !.links = Links(u)], m,
                "send_verification_email")

\* Mutant: the older links are not invalidated.
ResendCommitsOnly(r) ==
    /\ Finish(r, "resend")
    /\ token' = [token EXCEPT ![req[r].link] = "valid"]
    /\ UNCHANGED <<mail, user, seller, kyc>>

\* The links that were there when the UPDATE began are used up.
ResendCommits(r) ==
    /\ Finish(r, "resend")
    /\ token' = [m \in Message |-> IF m \in req[r].links THEN "used"
                                   ELSE IF m = req[r].link THEN "valid" ELSE token[m]]
    /\ UNCHANGED <<mail, user, seller, kyc>>

\* A link is known from its e-mail, and its token is in the table, neither used
\* nor expired.
ValidLink(m, task) == message[m].mails > 0 /\ Carries(m, task) /\ token[m] = "valid"

verify_email(r, m) ==
    /\ ValidLink(m, "send_verification_email")
    /\ Read(r, [Idle EXCEPT !.op = "verify_email", !.user = message[m].to, !.link = m])

\* Mutant: the token stays unused.
VerifyCommitsUnburnt(r) ==
    /\ Finish(r, "verify_email")
    /\ user' = [user EXCEPT ![req[r].user].verified = TRUE]
    /\ UNCHANGED <<mail, seller, kyc, token>>

VerifyCommits(r) ==
    /\ Finish(r, "verify_email")
    /\ user' = [user EXCEPT ![req[r].user].verified = TRUE]
    /\ token' = [token EXCEPT ![req[r].link] = "used"]
    /\ UNCHANGED <<mail, seller, kyc>>

reset_password(r, m) ==
    /\ ValidLink(m, "send_password_reset_email")
    /\ Read(r, [Idle EXCEPT !.op = "reset_password", !.user = message[m].to, !.link = m])

\* Mutant: the token stays unused.
ResetCommitsUnburnt(r) ==
    /\ Finish(r, "reset_password")
    /\ user' = [user EXCEPT ![req[r].user].password = req[r].link]
    /\ UNCHANGED <<mail, seller, kyc, token>>

ResetCommits(r) ==
    /\ Finish(r, "reset_password")
    /\ user' = [user EXCEPT ![req[r].user].password = req[r].link]
    /\ token' = [token EXCEPT ![req[r].link] = "used"]
    /\ UNCHANGED <<mail, seller, kyc>>

LinkExpires(m) ==
    /\ token[m] = "valid"
    /\ Spend("expiry")
    /\ token' = [token EXCEPT ![m] = "expired"]
    /\ UNCHANGED <<mail, user, seller, kyc, req>>

-----------------------------------------------------------------------------
(***************************************************************************)
(* Passwords and account status.                                           *)
(***************************************************************************)

\* The old password is compared with the one read.
change_password(r, u) ==
    /\ AdmittedActive(u)
    /\ Read(r, [Idle EXCEPT !.op = "change_password", !.user = u])

ChangeCommits(r) ==
    /\ Finish(r, "change_password")
    /\ user' = [user EXCEPT ![req[r].user].password = 0]
    /\ UNCHANGED <<mail, seller, kyc, token>>

\* An account that is deactivated already is not written.
deactivate_account(r, u) ==
    /\ AdmittedActive(u) /\ user[u].status = "ACTIVE"
    /\ Read(r, [Idle EXCEPT !.op = "deactivate", !.user = u])

DeactivateCommits(r) ==
    /\ Finish(r, "deactivate")
    /\ user' = [user EXCEPT ![req[r].user].status = "DEACTIVATED"]
    /\ UNCHANGED <<mail, seller, kyc, token>>

update_user_status(u, status) ==
    /\ Registered(u) /\ user[u].status # status
    /\ u \in Uses["deactivate"]
    /\ Spend("by_hand")
    /\ user' = [user EXCEPT ![u].status = status]
    /\ UNCHANGED <<mail, seller, kyc, token, req>>

-----------------------------------------------------------------------------
(***************************************************************************)
(* Sellers.                                                                *)
(***************************************************************************)

\* The columns that differ from what was read.
Written(stored, seen, new) ==
    [status |-> IF new.status # seen.status THEN new.status ELSE stored.status,
     is_verified |-> IF new.is_verified # seen.is_verified THEN new.is_verified
                                                           ELSE stored.is_verified]

\* A first application, or another one after a rejection.
register_as_seller(r, u) ==
    /\ AdmittedActive(u)
    /\ seller[u].status \in {None, "REJECTED"}
    /\ Read(r, [Idle EXCEPT !.op = "register_as_seller", !.user = u, !.seller = seller[u]])

\* A second row for the user violates the unique constraint.
DuplicateProfile(r) ==
    req[r].seller.status = None /\ seller[req[r].user].status # None

Decide(r, status, is_verified) ==
    seller' = [seller EXCEPT ![req[r].user] =
                  Written(@, req[r].seller, [status |-> status, is_verified |-> is_verified])]

SellerCommits(r) ==
    /\ Finish(r, "register_as_seller")
    /\ ~DuplicateProfile(r)
    /\ Decide(r, "PENDING", FALSE)
    /\ UNCHANGED <<mail, user, kyc, token>>

SellerRefused(r) ==
    /\ Finish(r, "register_as_seller")
    /\ DuplicateProfile(r)
    /\ UNCHANGED <<mail, rows>>

\* verify_seller: whatever the status was.
verify_seller(r, u, decision) ==
    /\ seller[u].status # None
    /\ Read(r, [Idle EXCEPT !.op = decision, !.user = u, !.seller = seller[u]])

\* Mutant: a rejection leaves is_verified as it is.
update_seller_verification_keeps(r) ==
    \/ req[r].op = "approve" /\ Decide(r, "APPROVED", TRUE)
    \/ req[r].op = "reject" /\ Decide(r, "REJECTED", req[r].seller.is_verified)

update_seller_verification(r) ==
    \/ req[r].op = "approve" /\ Decide(r, "APPROVED", TRUE)
    \/ req[r].op = "reject" /\ Decide(r, "REJECTED", FALSE)

\* Mutant: the wrong task is queued.
VerdictUnnamed(decision) == decision

Verdict(decision) ==
    IF decision = "approve" THEN "send_seller_verification_approved"
                            ELSE "send_seller_verification_rejected"

\* The message follows the commit, unless the process dies in between.
DecisionCommits(r, m) ==
    /\ \/ Finish(r, "approve") \/ Finish(r, "reject")
    /\ update_seller_verification(r)
    /\ \/ Delay(m, Verdict(req[r].op), req[r].user) /\ UNCHANGED faults
       \/ Fault("crash") /\ UNCHANGED message
    /\ UNCHANGED <<notification, user, kyc, token>>

-----------------------------------------------------------------------------
(***************************************************************************)
(* KYC.                                                                    *)
(***************************************************************************)

verify_bvn(r, u, b) ==
    /\ AdmittedActive(u)
    /\ Read(r, [Idle EXCEPT !.op = "verify_bvn", !.user = u, !.target = b,
                            !.tier = user[u].tier])

\* The UPDATE of an attempt holds the user's row of kyc_profiles until it commits.
KycFree(u) == \A q \in Request : req[q].op = "bvn_attempt" => req[q].user # u

\* Mutant: the number is not looked up.
check_bvn_unregistered(b) == FALSE

check_bvn_already_registered(b) == \E u \in User : kyc[u].bvn = b

\* The attempt is counted, which locks the row, and the number looked up.
BvnAttempt(r) ==
    /\ req[r].op = "verify_bvn"
    /\ KycFree(req[r].user)
    /\ ~check_bvn_already_registered(req[r].target)
    /\ req' = [req EXCEPT ![r].op = "bvn_attempt"]
    /\ UNCHANGED <<mail, rows, spent>>

\* The number is another account's, or the provider does not confirm it: the
\* attempt and the reason are rolled back with everything else.
BvnRefused(r) ==
    /\ \/ check_bvn_already_registered(req[r].target) /\ Finish(r, "verify_bvn")
       \/ Finish(r, "bvn_attempt")
    /\ UNCHANGED <<mail, rows>>

\* Mutant: the number is stored without the tier.
BvnCommitsHalf(r) ==
    /\ Finish(r, "bvn_attempt")
    /\ kyc' = [kyc EXCEPT ![req[r].user].bvn = req[r].target]
    /\ UNCHANGED <<mail, user, seller, token>>

complete_tier_2(u, b) == kyc' = [kyc EXCEPT ![u] = [tier |-> "TIER_2", bvn |-> b]]

\* Both rows get the tier, users.kyc_tier only if another one was read.
BvnCommits(r) ==
    LET u == req[r].user
    IN  /\ Finish(r, "bvn_attempt")
        /\ complete_tier_2(u, req[r].target)
        /\ user' = [user EXCEPT ![u].tier = IF req[r].tier # "TIER_2" THEN "TIER_2" ELSE @]
        /\ UNCHANGED <<mail, seller, token>>

admin_upgrade_tier(r, u, t) ==
    /\ Registered(u)
    /\ Read(r, [Idle EXCEPT !.op = "upgrade_tier", !.user = u, !.target = t,
                            !.tier = user[u].tier, !.kyc_tier = kyc[u].tier])

UpgradeCommits(r) ==
    LET u == req[r].user  t == req[r].target
    IN  /\ Finish(r, "upgrade_tier")
        /\ KycFree(u)
        /\ user' = [user EXCEPT ![u].tier = IF req[r].tier # t THEN t ELSE @]
        /\ kyc' = [kyc EXCEPT ![u].tier = IF req[r].kyc_tier # t THEN t ELSE @]
        /\ UNCHANGED <<mail, seller, token>>

\* The admin panel changes the KYC profile only.
PanelSetsTier(u, t) ==
    /\ Registered(u) /\ KycFree(u)
    /\ u \in Uses["upgrade_tier"]
    /\ Spend("by_hand")
    /\ kyc' = [kyc EXCEPT ![u].tier = t]
    /\ UNCHANGED <<mail, user, seller, token, req>>

-----------------------------------------------------------------------------
\* A request fails, or dies: its transaction is rolled back, and a link that is
\* out already will never work.
RequestFails(r) ==
    /\ Finish(r, req[r].op) /\ req[r].op # "idle"
    /\ Fault("failure")
    /\ token' = [m \in Message |->
                    IF m = req[r].link /\ token[m] = "pending" THEN "void" ELSE token[m]]
    /\ UNCHANGED <<message, notification, user, seller, kyc>>

LinkStep(r) ==
    \/ \E u \in User, m \in Message :
           register(r, u, m) \/ forgot_password(r, u, m) \/ resend_email_verification(r, u, m)
    \/ \E m \in Message : verify_email(r, m) \/ reset_password(r, m)

UserStep(r) ==
    \E u \in User :
        \/ change_password(r, u) \/ deactivate_account(r, u) \/ register_as_seller(r, u)
        \/ verify_seller(r, u, "approve") \/ verify_seller(r, u, "reject")
        \/ \E b \in BVN : verify_bvn(r, u, b)
        \/ \E t \in Tier : admin_upgrade_tier(r, u, t)

End(r) ==
    \/ RegisterCommits(r) \/ ForgotCommits(r) \/ ResendCommits(r)
    \/ VerifyCommits(r) \/ ResetCommits(r) \/ ChangeCommits(r) \/ DeactivateCommits(r)
    \/ SellerCommits(r) \/ SellerRefused(r) \/ \E m \in Message : DecisionCommits(r, m)
    \/ BvnAttempt(r) \/ BvnRefused(r) \/ BvnCommits(r) \/ UpgradeCommits(r)

Next ==
    \/ NotifyEvent /\ Spend("request") /\ UNCHANGED <<rows, req>>
    \/ NextMail /\ UNCHANGED <<rows, req, spent>>
    \/ \E r \in Request : LinkStep(r) \/ UserStep(r) \/ End(r) \/ RequestFails(r)
    \/ \E m \in Message : LinkExpires(m)
    \/ \E u \in User : \/ \E s \in AccountStatus : update_user_status(u, s)
                       \/ PanelSetsTier(u, "TIER_1") \/ PanelSetsTier(u, "TIER_2")

Spec == Init /\ [][Next]_vars

\* Workers take what is queued; people, requests, failures and crashes owe nothing.
Fairness == \A m \in Message : WF_vars(Run(m) /\ UNCHANGED <<rows, req, spent>>)

FairSpec == Spec /\ Fairness

-----------------------------------------------------------------------------
Work == [op : Op \union {"idle"}, user : User \union {None}, link : Message \union {None},
         links : SUBSET Message,
         seller : [status : SellerStatus \union {None}, is_verified : BOOLEAN] \union {None},
         tier : Tier \union {None}, kyc_tier : Tier \union {None},
         target : Tier \union BVN \union {None}]

\* Every variable holds a value of its kind.
TypeOK ==
    /\ MailTypeOK
    /\ user \in [User -> [status : AccountStatus \union {None}, verified : BOOLEAN,
                          tier : Tier, password : Nat]]
    /\ seller \in [User -> [status : SellerStatus \union {None}, is_verified : BOOLEAN]]
    /\ kyc \in [User -> [tier : Tier, bvn : BVN \union {None}]]
    /\ token \in [Message -> {None, "pending", "valid", "used", "expired", "void"}]
    /\ req \in [Request -> Work]
    /\ spent \in [{"request", "by_hand", "expiry"} -> Nat]

\* Whoever is verified has opened a link that came by e-mail, whose token was
\* stored and is used up: no link of a registration that failed, of an older
\* e-mail or of another user verifies anybody.
VerifiedByMail ==
    \A u \in User \ Members : user[u].verified =>
        \E m \in Message : /\ Carries(m, "send_verification_email")
                           /\ message[m].to = u /\ message[m].mails > 0
                           /\ token[m] = "used"

\* "old tokens cannot be used": of the verification links sent to a user, no more
\* work than there were requests for one at the same time.
FewLinks == \A u \in User : Cardinality(Links(u)) <= MaxOpen

\* A link that has set a password was a reset link, mailed to that user.
ResetByMail ==
    \A u \in User, m \in Message : user[u].password = m =>
        /\ Carries(m, "send_password_reset_email")
        /\ message[m].to = u /\ message[m].mails > 0
        /\ token[m] = "used"

\* The requests that have found the link good, and will use it.
Using(m) == {r \in Request : /\ req[r].op \in {"verify_email", "reset_password"}
                             /\ req[r].link = m}

Dead(m) ==
    \/ token[m] \in {"used", "expired", "void"}
    \/ \E u \in User : user[u].password = m

\* A link that has set a password, is used up or expired, or was rolled back,
\* never works again, whatever is asked for afterwards: no request begins to use
\* it, and only one that had found it good before may still set a password.
DeadLinksStayDead ==
    [][\A m \in Message : Dead(m) =>
          /\ Dead(m)'
          /\ Using(m)' \subseteq Using(m)
          /\ \A u \in User : user'[u].password = m =>
                user[u].password = m \/ Using(m)' # Using(m)]_vars

\* "Burn the token so it can't be used again" (authentication/service.py:385),
\* which does not hold: two requests that overlap both find the link good, and
\* each of them sets a password.
LinkWorksOnce ==
    [][\A r \in Request : ResetCommits(r) => token[req[r].link] # "used"]_vars

\* An application or a decision that no other one overtook leaves a seller
\* verified exactly when APPROVED, and so repairs what two of them that overlap
\* may leave: a REJECTED or PENDING seller who is still verified.
UndisturbedDecides ==
    [][\A r \in Request :
          LET u == req[r].user
          IN  /\ req[r].op \in Decision /\ req[r].seller = seller[u]
              /\ req'[r].op = "idle" /\ seller' # seller
              => (seller'[u].is_verified <=> seller'[u].status = "APPROVED")]_vars

\* "Prevent same BVN on two accounts": only requests that overlap share one.
FewShareBVN ==
    \A b \in BVN : Cardinality({u \in User : kyc[u].bvn = b}) <= MaxOpen

\* The tier that limits bids and withdrawals is the one of the KYC profile, and the
\* second one stands for a BVN, as long as no admin sets tiers.
TierFollowsBVN ==
    spent["by_hand"] = 0 => \A u \in User :
        /\ user[u].tier = kyc[u].tier
        /\ user[u].tier = IF kyc[u].bvn = None THEN "TIER_1" ELSE "TIER_2"
=============================================================================
