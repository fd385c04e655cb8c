------------------------- MODULE AccountLimitsProofs -------------------------
(***************************************************************************)
(* Theorems about the two limits of Accounts: how many verification links  *)
(* of a user work, and how many accounts show one BVN.  Requests read what *)
(* they check before they write, so neither limit is one; both are bounded *)
(* by the requests that are served at the same time.                       *)
(*                                                                         *)
(* The argument is the same for both.  What counts for a limit (links, or  *)
(* accounts) is spread over the slots in which requests are served, one in *)
(* a slot at most: each stays in the slot of the request that added it,    *)
(* and a request in that slot that would add another one has seen it, and  *)
(* removes it or is refused.                                               *)
(***************************************************************************)
EXTENDS AccountsProofs, FiniteSetTheorems

\* S fits into the slots, one in each; seen[r] may be in slot r.
Spread(S, seen) ==
    \E slot \in [S -> Request] :
        /\ \A x, y \in S : slot[x] = slot[y] => x = y
        /\ \A x \in S : x \in seen[slot[x]]

LEMMA SpreadEmpty == ASSUME NEW seen PROVE Spread({}, seen)
<1> DEFINE slot == [x \in {} |-> 1]
<1>1. slot \in [{} -> Request]
  OBVIOUS
<1> QED
  BY <1>1 DEF Spread

\* There are MaxOpen slots.
LEMMA SpreadBound ==
    ASSUME NEW S, NEW seen, Spread(S, seen)
    PROVE  Cardinality(S) <= MaxOpen
<1>1. MaxOpen \in Nat
  <2>1. {MaxOpen, MaxEvents, MaxByHand} \subseteq Nat
    BY Zenon, AccountsAssumption
  <2> QED
    BY <2>1
<1>2. IsFiniteSet(Request) /\ Cardinality(Request) = MaxOpen
  BY <1>1, FS_Interval DEF Request
<1>3. PICK slot \in [S -> Request] : \A x, y \in S : slot[x] = slot[y] => x = y
  BY DEF Spread
<1>4. slot \in Injection(S, Request)
  BY <1>3 DEF Injection, IsInjective
<1> HIDE DEF Request
<1> QED
  BY <1>2, <1>4, FS_Injection

\* Nothing is added, and whatever is left may stay where it was.
LEMMA SpreadLess ==
    ASSUME NEW S, NEW seen, Spread(S, seen), NEW T, T \subseteq S, NEW seen2,
           \A r \in Request : \A x \in T : x \in seen[r] => x \in seen2[r]
    PROVE  Spread(T, seen2)
<1>1. PICK slot \in [S -> Request] : /\ \A x, y \in S : slot[x] = slot[y] => x = y
                                     /\ \A x \in S : x \in seen[slot[x]]
  BY DEF Spread
<1> DEFINE slot2 == [x \in T |-> slot[x]]
<1>2. slot2 \in [T -> Request] /\ \A x \in T : slot2[x] = slot[x]
  BY <1>1
<1> HIDE DEF slot2
<1>3. \A x, y \in T : slot2[x] = slot2[y] => x = y
  BY <1>1, <1>2
<1>4. \A x \in T : x \in seen2[slot2[x]]
  BY <1>1, <1>2
<1> QED
  BY <1>2, <1>3, <1>4 DEF Spread

\* One is added in slot r, and what could be there is removed.
LEMMA SpreadAdd ==
    ASSUME NEW S, NEW seen, Spread(S, seen), NEW r \in Request, NEW e,
           NEW T, T \subseteq (S \ seen[r]) \union {e}, NEW seen2, e \in seen2[r],
           \A q \in Request : \A x \in T : x \in seen[q] => x \in seen2[q]
    PROVE  Spread(T, seen2)
<1>1. PICK slot \in [S -> Request] : /\ \A x, y \in S : slot[x] = slot[y] => x = y
                                     /\ \A x \in S : x \in seen[slot[x]]
  BY DEF Spread
<1> DEFINE slot2 == [x \in T |-> IF x = e THEN r ELSE slot[x]]
<1>2. /\ slot2 \in [T -> Request]
      /\ \A x \in T : slot2[x] = IF x = e THEN r ELSE slot[x]
  BY <1>1
<1>3. \A x \in T : x # e => x \in S /\ slot[x] # r
  BY <1>1
<1> HIDE DEF slot2
<1>4. \A x, y \in T : slot2[x] = slot2[y] => x = y
  BY <1>1, <1>2, <1>3
<1>5. \A x \in T : x \in seen2[slot2[x]]
  BY <1>1, <1>2, <1>3
<1> QED
  BY <1>2, <1>4, <1>5 DEF Spread

-----------------------------------------------------------------------------
(***************************************************************************)
(* Accounts that show one BVN.                                             *)
(***************************************************************************)

Holders(b) == {u \in User : kyc[u].bvn = b}

\* A request whose number nobody had when it looked may add a holder: until then
\* its slot is empty.
HoldersSeen(b) ==
    [r \in Request |-> IF req[r].op = "bvn_attempt" /\ req[r].target = b THEN {} ELSE User]

HoldersSpread == \A b \in BVN : Spread(Holders(b), HoldersSeen(b))

LEMMA InitHolders == Init => HoldersSpread
<1> SUFFICES ASSUME Init, NEW b \in BVN PROVE Spread(Holders(b), HoldersSeen(b))
  BY DEF HoldersSpread
<1>1. Holders(b) = {}
  BY Constants DEF Init, Holders
<1> QED
  BY <1>1, SpreadEmpty

\* One request changes, and is not about to add a holder.
LEMMA NotAttempting ==
    ASSUME Sound, NEW r \in Request, NEW w, req' = [req EXCEPT ![r] = w], w.op # "bvn_attempt"
    PROVE  \A q \in Request : req'[q].op = "bvn_attempt" => req'[q] = req[q]
  BY DEF Sound, TypeOK

\* BVNs are written by BvnCommits, after BvnAttempt.
LEMMA BvnSteps ==
    ASSUME Sound, [Next]_vars
    PROVE  \/ \E r \in Request : BvnAttempt(r) \/ BvnCommits(r)
           \/ /\ \A u \in User : kyc'[u].bvn = kyc[u].bvn
              /\ \A r \in Request : req'[r].op = "bvn_attempt" => req'[r] = req[r]
<1> DEFINE Kept == /\ \A u \in User : kyc'[u].bvn = kyc[u].bvn
                   /\ \A r \in Request : req'[r].op = "bvn_attempt" => req'[r] = req[r]
           Wrote == \E r \in Request : BvnAttempt(r) \/ BvnCommits(r)
<1>1. ASSUME UNCHANGED <<kyc, req>> PROVE Kept
  BY <1>1
<1>2. ASSUME NEW r \in Request, NEW op, Finish(r, op),
             \A u \in User : kyc'[u].bvn = kyc[u].bvn
      PROVE  Kept
  <2>1. req' = [req EXCEPT ![r] = Idle] /\ Idle.op # "bvn_attempt"
    BY <1>2 DEF Finish, Idle
  <2> QED
    BY <1>2, <2>1, NotAttempting
<1>3. ASSUME NEW r \in Request, NEW w, Begin(r, w), w.op # "bvn_attempt", UNCHANGED kyc
      PROVE  Kept
  <2>1. req' = [req EXCEPT ![r] = w]
    BY <1>3 DEF Begin
  <2> QED
    BY <1>3, <2>1, NotAttempting
<1>4. ASSUME NEW r \in Request, LinkStep(r) PROVE Kept
  <2>1. Idle.op = "idle"
    BY DEF Idle
  <2>2. ASSUME NEW w, w.op # "bvn_attempt", NEW m, NEW task, SendLink(r, w, m, task)
        PROVE  Kept
    <3> DEFINE x == [w EXCEPT !.link = m]
    <3>1. Begin(r, x) /\ UNCHANGED kyc /\ x.op # "bvn_attempt"
      BY <2>2 DEF SendLink
    <3> HIDE DEF x
    <3> QED
      BY <3>1, <1>3
  <2>3. ASSUME NEW u \in User, NEW m \in Message,
               register(r, u, m) \/ forgot_password(r, u, m) \/ resend_email_verification(r, u, m)
        PROVE  Kept
    BY <2>2, <2>3 DEF register, forgot_password, resend_email_verification, Idle
  <2>4. ASSUME NEW m \in Message, verify_email(r, m) \/ reset_password(r, m) PROVE Kept
    BY <1>3, <2>4 DEF verify_email, reset_password, Read, Idle, rows
  <2> QED
    BY <1>4, <2>3, <2>4 DEF LinkStep
<1>5. ASSUME NEW r \in Request, UserStep(r) PROVE Kept
  BY <1>3, <1>5 DEF UserStep, change_password, deactivate_account, register_as_seller,
     verify_seller, verify_bvn, admin_upgrade_tier, Read, Idle, rows
<1>6. ASSUME NEW r \in Request, End(r) PROVE Kept \/ Wrote
  <2>1. ASSUME UpgradeCommits(r) PROVE Kept
    <3>1. \A u \in User : kyc'[u].bvn = kyc[u].bvn
      BY <2>1 DEF UpgradeCommits, Sound, TypeOK
    <3> QED
      BY <1>2, <2>1, <3>1 DEF UpgradeCommits
  <2>2. ASSUME \/ RegisterCommits(r) \/ ForgotCommits(r) \/ ResendCommits(r)
               \/ VerifyCommits(r) \/ ResetCommits(r) \/ ChangeCommits(r)
               \/ DeactivateCommits(r) \/ SellerCommits(r) \/ SellerRefused(r)
               \/ (\E m \in Message : DecisionCommits(r, m)) \/ BvnRefused(r)
        PROVE  Kept
    <3>1. UNCHANGED kyc /\ \E op : Finish(r, op)
      BY <2>2, Zenon DEF RegisterCommits, ForgotCommits, ResendCommits, VerifyCommits,
         ResetCommits, ChangeCommits, DeactivateCommits, SellerCommits, SellerRefused,
         DecisionCommits, BvnRefused, rows
    <3> HIDE DEF Kept
    <3>2. \A u \in User : kyc'[u].bvn = kyc[u].bvn
      BY <3>1
    <3> QED
      BY <1>2, <3>1, <3>2
  <2> HIDE DEF Kept
  <2> QED
    BY <1>6, <2>1, <2>2 DEF End
<1>7. ASSUME NEW r \in Request, RequestFails(r) PROVE Kept
  BY <1>2, <1>7 DEF RequestFails
<1>8. ASSUME NEW m \in Message, LinkExpires(m) PROVE Kept
  BY <1>1, <1>8 DEF LinkExpires
<1>9. ASSUME NEW u \in User, \/ \E s \in AccountStatus : update_user_status(u, s)
                            \/ \E t \in Tier : PanelSetsTier(u, t)
      PROVE  Kept
  BY <1>9 DEF update_user_status, PanelSetsTier, Sound, TypeOK
<1>10. ASSUME \/ NotifyEvent /\ Spend("request") /\ UNCHANGED <<rows, req>>
              \/ NextMail /\ UNCHANGED <<rows, req, spent>>
              \/ UNCHANGED vars
       PROVE  Kept
  BY <1>10 DEF rows, vars
<1>11. "TIER_1" \in Tier /\ "TIER_2" \in Tier
  BY DEF Tier
<1> HIDE DEF Kept, Wrote
<1>12. Kept \/ Wrote
  <2>1. CASE \E r \in Request : LinkStep(r) \/ UserStep(r) \/ End(r) \/ RequestFails(r)
    BY <1>4, <1>5, <1>6, <1>7, <2>1
  <2>2. CASE Next
    BY <1>8, <1>9, <1>10, <1>11, <2>1, <2>2 DEF Next
  <2> QED
    BY <1>10, <2>2
<1> QED
  BY <1>12 DEF Kept, Wrote

LEMMA HoldersStep ==
    ASSUME Sound, HoldersSpread, [Next]_vars
    PROVE  HoldersSpread'
<1> SUFFICES ASSUME NEW b \in BVN PROVE Spread(Holders(b)', HoldersSeen(b)')
  BY DEF HoldersSpread
<1> DEFINE S == Holders(b)
           T == Holders(b)'
           seen == HoldersSeen(b)
           seen2 == HoldersSeen(b)'
<1>1. Spread(S, seen) /\ S \subseteq User /\ T \subseteq User
  BY DEF HoldersSpread, Holders
<1>2. /\ \A q \in Request : seen[q] = IF req[q].op = "bvn_attempt" /\ req[q].target = b
                                      THEN {} ELSE User
      /\ \A q \in Request : seen2[q] = IF req'[q].op = "bvn_attempt" /\ req'[q].target = b
                                       THEN {} ELSE User
  BY DEF HoldersSeen
<1>3. req \in [Request -> Work] /\ kyc \in [User -> Kycs]
  BY Typed DEF Sound
<1>4. ASSUME NEW r \in Request, BvnAttempt(r)
      PROVE  Spread(T, seen2)
  <2>1. T = S /\ (req[r].target = b => S = {})
    BY <1>4 DEF BvnAttempt, check_bvn_already_registered, Holders, rows
  <2>2. \A q \in Request : q # r => req'[q] = req[q]
    BY <1>3, <1>4 DEF BvnAttempt
  <2>3. req'[r].target = req[r].target
    BY <1>3, <1>4 DEF BvnAttempt, Work
  <2> HIDE DEF S, T, seen, seen2
  <2>4. CASE S = {}
    BY <2>1, <2>4, SpreadEmpty
  <2>5. CASE req[r].target # b
    <3>1. \A q \in Request : \A x \in T : x \in seen[q] => x \in seen2[q]
      BY <1>1, <1>2, <2>2, <2>3, <2>5
    <3> QED
      BY <1>1, <2>1, <3>1, SpreadLess
  <2> QED
    BY <2>1, <2>4, <2>5
<1>5. ASSUME NEW r \in Request, BvnCommits(r)
      PROVE  Spread(T, seen2)
  <2>1. /\ req[r].op = "bvn_attempt" /\ req'[r].op = "idle"
        /\ \A q \in Request : q # r => req'[q] = req[q]
    BY <1>3, <1>5 DEF BvnCommits, Finish, Idle
  <2>2. req[r].user \in User
    BY <2>1 DEF Sound, WorkFits, Complete
  <2>3. \A u \in User : kyc'[u].bvn = IF u = req[r].user THEN req[r].target ELSE kyc[u].bvn
    BY <1>3, <1>5, <2>2 DEF BvnCommits, complete_tier_2
  <2>4. \A q \in Request : \A x \in T : x \in seen[q] => x \in seen2[q]
    BY <1>2, <2>1
  <2>5. req[r].target = b => T \subseteq (S \ seen[r]) \union {req[r].user}
    BY <1>2, <2>1, <2>3 DEF Holders
  <2>6. req[r].target # b => T \subseteq S
    BY <2>3 DEF Holders
  <2>7. req[r].user \in seen2[r]
    BY <1>2, <2>1, <2>2
  <2> HIDE DEF S, T, seen, seen2
  <2>8. CASE req[r].target = b
    <3> DEFINE e == req[r].user
    <3>1. T \subseteq (S \ seen[r]) \union {e} /\ e \in seen2[r]
      BY <2>5, <2>7, <2>8
    <3> HIDE DEF e
    <3> QED
      BY <1>1, <2>4, <3>1, SpreadAdd
  <2>9. CASE req[r].target # b
    BY <1>1, <2>4, <2>6, <2>9, SpreadLess
  <2> QED
    BY <2>8, <2>9
<1>6. ASSUME \A u \in User : kyc'[u].bvn = kyc[u].bvn,
             \A r \in Request : req'[r].op = "bvn_attempt" => req'[r] = req[r]
      PROVE  Spread(T, seen2)
  <2>1. T = S
    BY <1>6 DEF Holders
  <2>2. \A q \in Request : \A x \in T : x \in seen[q] => x \in seen2[q]
    BY <1>1, <1>2, <1>6
  <2> HIDE DEF S, T, seen, seen2
  <2> QED
    BY <1>1, <2>1, <2>2, SpreadLess
<1> QED
  BY <1>4, <1>5, <1>6, BvnSteps

\* check_bvn_already_registered looks before the number is stored: no more accounts
\* than requests served at a time show one number, however they interleave.
THEOREM BVNsAreShared == Spec => []FewShareBVN
<1>1. IInv /\ HoldersSpread /\ [Next]_vars => HoldersSpread'
  BY HoldersStep, Shape
<1>2. HoldersSpread => FewShareBVN
  BY SpreadBound DEF HoldersSpread, FewShareBVN, Holders
<1> QED
  BY <1>1, <1>2, InitHolders, Invariance, PTL DEF Spec

-----------------------------------------------------------------------------
(***************************************************************************)
(* Verification links of one user.                                         *)
(***************************************************************************)

Inviting == {"register", "resend"}

\* A link in the slot of a request that sends another one was there when that
\* request read the user's links.
LinksSeen(u) ==
    [r \in Request |-> IF req[r].op \in Inviting /\ req[r].user = u
                       THEN req[r].links ELSE Message]

LinksSpread == \A u \in User : Spread(Links(u), LinksSeen(u))

\* A request that sends a link sends it to its user, who is registered before the
\* first link works.
Invited(w) ==
    /\ w.op \in Inviting => /\ message[w.link].task = "send_verification_email"
                            /\ message[w.link].to = w.user
    /\ w.op = "forgot_password" => message[w.link].task = "send_password_reset_email"

Owned ==
    /\ \A u \in User : user[u].status = None => Links(u) = {}
    /\ \A r \in Request :
          /\ Invited(req[r])
          /\ req[r].op = "resend" => user[req[r].user].status # None
          /\ req[r].op = "register" => req[r].links = {}

LInv == Owned /\ LinksSpread

LEMMA InitLinks == Init => LInv
<1> SUFFICES ASSUME Init PROVE LInv
  OBVIOUS
<1>1. \A u \in User : Links(u) = {}
  BY Constants DEF Init, Links
<1>2. \A r \in Request : req[r].op = "idle"
  BY DEF Init, Idle
<1>3. Owned
  BY <1>1, <1>2 DEF Owned, Invited, Inviting
<1>4. LinksSpread
  BY <1>1, SpreadEmpty DEF LinksSpread
<1> QED
  BY <1>3, <1>4 DEF LInv

\* A message that is queued takes the place of none.
LEMMA DelayGrows ==
    ASSUME Sound, NEW m, NEW task, NEW u, Delay(m, task, u)
    PROVE  Grows
<1>1. message \in [Message -> MessageType] /\ Unused \in MessageType
  BY Constants DEF Sound, MailOK, MailTypeOK, MessageType, Unused, State
<1> DEFINE x == [Unused EXCEPT !.task = task, !.to = u, !.state = "queued"]
<1>2. x.state = "queued"
  BY <1>1 DEF MessageType
<1>3. message[m].state = "unused" /\ message' = [message EXCEPT ![m] = x]
  BY DEF Delay
<1>4. \A k \in Message : message[k].mails \in Nat
  BY <1>1 DEF MessageType
<1> HIDE DEF x
<1> QED
  BY <1>1, <1>2, <1>3, <1>4 DEF Grows

LEMMA MessagesGrow == ASSUME Sound, [Next]_vars PROVE Grows
<1>1. ASSUME UNCHANGED message PROVE Grows
  <2>1. \A k \in Message : message[k].mails \in Nat
    BY DEF Sound, MailOK, MailTypeOK
  <2> QED
    BY <1>1, <2>1 DEF Grows
<1>2. ASSUME NEW r \in Request, LinkStep(r) PROVE Grows
  BY <1>1, <1>2, DelayGrows DEF LinkStep, register, forgot_password,
     resend_email_verification, SendLink, verify_email, reset_password, Read, mail
<1>3. ASSUME NEW r \in Request, UserStep(r) PROVE Grows
  BY <1>1, <1>3 DEF UserStep, change_password, deactivate_account, register_as_seller,
     verify_seller, verify_bvn, admin_upgrade_tier, Read, mail
<1>4. ASSUME NEW r \in Request, End(r) PROVE Grows
  BY <1>1, <1>4, DelayGrows DEF End, RegisterCommits, ForgotCommits, ResendCommits,
     VerifyCommits, ResetCommits, ChangeCommits, DeactivateCommits, SellerCommits,
     SellerRefused, DecisionCommits, BvnAttempt, BvnRefused, BvnCommits, UpgradeCommits, mail
<1>5. ASSUME NEW r \in Request, RequestFails(r) PROVE Grows
  BY <1>1, <1>5 DEF RequestFails
<1>6. CASE NextMail
  BY <1>6, MailStep DEF Sound
<1>7. CASE NotifyEvent
  BY <1>7, DelayGrows DEF NotifyEvent
<1>8. CASE UNCHANGED vars
  BY <1>1, <1>8 DEF vars, mail
<1>9. ASSUME NEW m \in Message, LinkExpires(m) PROVE Grows
  BY <1>1, <1>9 DEF LinkExpires, mail
<1>10. ASSUME NEW u \in User, \/ \E s \in AccountStatus : update_user_status(u, s)
                             \/ \E t \in {"TIER_1", "TIER_2"} : PanelSetsTier(u, t)
      PROVE Grows
  BY <1>1, <1>10 DEF update_user_status, PanelSetsTier, mail
<1>11. CASE \E r \in Request : LinkStep(r) \/ UserStep(r) \/ End(r) \/ RequestFails(r)
  BY <1>2, <1>3, <1>4, <1>5, <1>11
<1> QED
  BY <1>6, <1>7, <1>8, <1>9, <1>10, <1>11 DEF Next

\* A link that worked is the user's still.
LEMMA LinkStays ==
    ASSUME Sound, Grows, NEW u, NEW m \in Links(u)', token[m] = "valid"
    PROVE  m \in Links(u)
<1>1. m \in Message /\ message[m].state # "unused"
  BY Constants DEF Links, Sound, LinksOK, LinksFit
<1> QED
  BY <1>1 DEF Grows, Links, Carries

LEMMA InvitedStays ==
    ASSUME Sound, Grows, Owned, NEW r \in Request, req'[r] = req[r]
    PROVE  Invited(req[r])'
<1>1. req[r].op \in Sending => /\ req[r].link \in Message
                              /\ message[req[r].link].state # "unused"
  BY Constants DEF Sound, LinksOK, LinksFit
<1> QED
  BY <1>1 DEF Grows, Owned, Invited, Inviting, Sending

\* Requests that begin or end take nothing out of a slot.
LEMMA SeenStays ==
    ASSUME NEW u, NEW T, T \subseteq Message, NEW q \in Request,
           \/ req'[q] = req[q]
           \/ req'[q].op \notin Inviting
           \/ req'[q].user = u => T \subseteq req'[q].links
    PROVE  \A x \in T : x \in LinksSeen(u)[q] => x \in LinksSeen(u)'[q]
BY DEF LinksSeen

\* What a step may do to one user's links while no link begins to work.
LEMMA LinksLess ==
    ASSUME Sound, Grows, LInv,
           \A m \in Message : token'[m] = "valid" => token[m] = "valid",
           \A v \in User : user'[v].status = None => user[v].status = None,
           NEW u \in User,
           \A q \in Request :
              \/ req'[q] = req[q]
              \/ req'[q].op \notin Inviting
              \/ req'[q].user = u => Links(u) \subseteq req'[q].links
    PROVE  /\ Links(u)' \subseteq Links(u)
           /\ user'[u].status = None => Links(u)' = {}
           /\ Spread(Links(u)', LinksSeen(u)')
<1> DEFINE S == Links(u)
           T == Links(u)'
           seen == LinksSeen(u)
           seen2 == LinksSeen(u)'
<1>1. T \subseteq S /\ T \subseteq Message
  BY LinkStays DEF Links
<1>2. user'[u].status = None => T = {}
  BY <1>1 DEF LInv, Owned
<1>3. \A q \in Request : \A x \in T : x \in seen[q] => x \in seen2[q]
  <2> TAKE q \in Request
  <2>1. \/ req'[q] = req[q]
        \/ req'[q].op \notin Inviting
        \/ req'[q].user = u => T \subseteq req'[q].links
    BY <1>1
  <2> QED
    BY <1>1, <2>1, SeenStays
<1>4. Spread(S, seen)
  BY DEF LInv, LinksSpread
<1> HIDE DEF S, T, seen, seen2
<1>5. Spread(T, seen2)
  BY <1>1, <1>3, <1>4, SpreadLess
<1> QED
  BY <1>1, <1>2, <1>5 DEF S, T, seen2

\* No request sends a link, and no link begins to work.
LEMMA LinksAside ==
    ASSUME Sound, Grows, LInv,
           \A m \in Message : token'[m] = "valid" => token[m] = "valid",
           \A v \in User : user'[v].status = None => user[v].status = None,
           \A q \in Request : req'[q] = req[q] \/ req'[q].op \notin Sending
    PROVE  LInv'
<1>1. \A u \in User : /\ user'[u].status = None => Links(u)' = {}
                      /\ Spread(Links(u)', LinksSeen(u)')
  BY LinksLess DEF Sending, Inviting
<1>2. \A q \in Request : req[q].op = "resend" => req[q].user \in User
  BY DEF Sound, WorkFits, Complete
<1>3. \A q \in Request :
          /\ Invited(req[q])'
          /\ req'[q].op = "resend" => user'[req'[q].user].status # None
          /\ req'[q].op = "register" => req'[q].links = {}
  <2> TAKE q \in Request
  <2>1. CASE req'[q] = req[q]
    BY <1>2, <2>1, InvitedStays DEF LInv, Owned
  <2>2. CASE req'[q].op \notin Sending
    BY <2>2 DEF Invited, Inviting, Sending
  <2> QED
    BY <2>1, <2>2
<1> QED
  BY <1>1, <1>3 DEF LInv, Owned, LinksSpread

\* A link is sent: its request has seen the links that work.
LEMMA LinksBegin ==
    ASSUME Sound, Grows, LInv, NEW r \in Request, NEW w \in Work, NEW m \in Message, NEW task,
           w.user \in User, w.op \in Sending, SendLink(r, w, m, task),
           w.op \in Inviting => task = "send_verification_email" /\ w.links = Links(w.user),
           w.op = "forgot_password" => task = "send_password_reset_email",
           w.op = "resend" => user[w.user].status # None,
           w.op = "register" => user[w.user].status = None
    PROVE  LInv'
<1> DEFINE x == [w EXCEPT !.link = m]
<1>1. /\ req' = [req EXCEPT ![r] = x] /\ Delay(m, task, w.user)
      /\ token' = [token EXCEPT ![m] = "pending"] /\ UNCHANGED user
  BY DEF SendLink, Begin
<1>2. /\ x.op = w.op /\ x.user = w.user /\ x.link = m /\ x.links = w.links
  BY DEF Work
<1> HIDE DEF x
<1>3. /\ req'[r] = x /\ \A q \in Request : q # r => req'[q] = req[q]
      /\ \A k \in Message : token'[k] = IF k = m THEN "pending" ELSE token[k]
  BY <1>1, Typed DEF Sound
<1>4. message'[m].task = task /\ message'[m].to = w.user
  <2>1. message \in [Message -> MessageType] /\ Unused \in MessageType
    BY Constants DEF Sound, MailOK, MailTypeOK, MessageType, Unused, State
  <2> QED
    BY <1>1, <2>1 DEF Delay, MessageType
<1>5. \A u \in User : /\ user'[u].status = None => Links(u)' = {}
                      /\ Spread(Links(u)', LinksSeen(u)')
  <2> TAKE u \in User
  <2>1. \A q \in Request :
           \/ req'[q] = req[q]
           \/ req'[q].op \notin Inviting
           \/ req'[q].user = u => Links(u) \subseteq req'[q].links
    BY <1>2, <1>3
  <2>2. \A k \in Message : token'[k] = "valid" => token[k] = "valid"
    BY <1>3
  <2>3. \A v \in User : user'[v].status = None => user[v].status = None
    BY <1>1
  <2> QED
    BY <2>1, <2>2, <2>3, LinksLess
<1>6. /\ Invited(req[r])'
      /\ req'[r].op = "resend" => user'[req'[r].user].status # None
      /\ req'[r].op = "register" => req'[r].links = {}
  BY <1>1, <1>2, <1>3, <1>4 DEF Invited, Inviting, LInv, Owned
<1>7. \A q \in Request : q # r =>
          /\ Invited(req[q])'
          /\ req'[q].op = "resend" => user'[req'[q].user].status # None
          /\ req'[q].op = "register" => req'[q].links = {}
  BY <1>1, <1>3, InvitedStays DEF LInv, Owned
<1> QED
  BY <1>5, <1>6, <1>7 DEF LInv, Owned, LinksSpread

\* A link begins to work, and its request, which ends, has used up those it saw.
LEMMA LinksEnd ==
    ASSUME Sound, Grows, LInv, NEW r \in Request, req[r].op \in Sending,
           req' = [req EXCEPT ![r] = Idle],
           \A k \in Message : token'[k] = "valid" =>
              \/ token[k] = "valid" /\ (req[r].op \in Inviting => k \notin req[r].links)
              \/ k = req[r].link,
           \A v \in User : user'[v].status = None => user[v].status = None,
           req[r].op = "register" => user'[req[r].user].status # None
    PROVE  LInv'
<1> DEFINE e == req[r].link
<1>1. req'[r].op = "idle" /\ \A q \in Request : q # r => req'[q] = req[q]
  BY Typed DEF Sound, Idle
<1>2. e \in Message /\ message[e].state # "unused"
  BY Constants DEF Sound, LinksOK, LinksFit
<1>3. message'[e].task = message[e].task /\ message'[e].to = message[e].to
  BY <1>2 DEF Grows
<1>4. \A q \in Request : req[q].op \in Sending => req[q].user \in User
  BY DEF Sound, WorkFits, Complete, Sending
<1>5. ASSUME NEW u \in User
      PROVE  (user'[u].status = None => Links(u)' = {}) /\ Spread(Links(u)', LinksSeen(u)')
  <2> DEFINE S == Links(u)
             T == Links(u)'
             seen == LinksSeen(u)
             seen2 == LinksSeen(u)'
  <2>1. T \subseteq Message /\ Spread(S, seen)
    BY DEF Links, LInv, LinksSpread
  <2>2. \A q \in Request : \A x \in T : x \in seen[q] => x \in seen2[q]
    BY <1>1, <2>1, SeenStays DEF Inviting
  <2>3. \A x \in T : x # e => x \in S /\ (req[r].op \in Inviting => x \notin req[r].links)
    BY <2>1, LinkStays DEF Links
  <2>4. CASE req[r].op \in Inviting /\ req[r].user = u
    <3>1. T \subseteq (S \ seen[r]) \union {e}
      BY <2>3, <2>4 DEF LinksSeen
    <3>2. e \in seen2[r]
      BY <1>1, <1>2 DEF LinksSeen, Inviting
    <3>3. user'[u].status # None
      BY <2>4 DEF Inviting, LInv, Owned
    <3> HIDE DEF S, T, seen, seen2, e
    <3>4. Spread(T, seen2)
      BY <2>1, <2>2, <3>1, <3>2, SpreadAdd
    <3> QED
      BY <3>3, <3>4 DEF T, seen2
  <2>5. CASE ~(req[r].op \in Inviting /\ req[r].user = u)
    <3>1. e \notin T
      BY <1>3, <2>5 DEF LInv, Owned, Invited, Inviting, Sending, Links, Carries
    <3>2. T \subseteq S
      BY <2>3, <3>1
    <3>3. user'[u].status = None => T = {}
      BY <3>2 DEF LInv, Owned
    <3> HIDE DEF S, T, seen, seen2
    <3>4. Spread(T, seen2)
      BY <2>1, <2>2, <3>2, SpreadLess
    <3> QED
      BY <3>3, <3>4 DEF T, seen2
  <2> QED
    BY <2>4, <2>5
<1>6. /\ Invited(req[r])'
      /\ req'[r].op = "resend" => user'[req'[r].user].status # None
      /\ req'[r].op = "register" => req'[r].links = {}
  BY <1>1 DEF Invited, Inviting
<1>7. \A q \in Request : q # r =>
          /\ Invited(req[q])'
          /\ req'[q].op = "resend" => user'[req'[q].user].status # None
          /\ req'[q].op = "register" => req'[q].links = {}
  BY <1>1, <1>4, InvitedStays DEF LInv, Owned, Sending
<1> QED
  BY <1>5, <1>6, <1>7 DEF LInv, Owned, LinksSpread

\* One request becomes one that sends no link.
LEMMA NotSending ==
    ASSUME Sound, NEW r \in Request, NEW w, req' = [req EXCEPT ![r] = w], w.op \notin Sending
    PROVE  \A q \in Request : req'[q] = req[q] \/ req'[q].op \notin Sending
  BY Typed DEF Sound

LEMMA LinkStepLinks ==
    ASSUME Sound, Grows, LInv, NEW r \in Request, LinkStep(r)
    PROVE  LInv'
<1>1. /\ Idle \in Work /\ Idle.link = None /\ Idle.links = {} /\ Idle.op = "idle"
  BY DEF Idle, Work
<1>2. ASSUME NEW u \in User, NEW m \in Message, register(r, u, m) PROVE LInv'
  <2> DEFINE w == [Idle EXCEPT !.op = "register", !.user = u]
  <2>1. w \in Work /\ w.user = u /\ w.op = "register" /\ w.links = {}
    BY <1>1 DEF Work, Op
  <2>2. SendLink(r, w, m, "send_verification_email") /\ user[u].status = None
    BY <1>2 DEF register, Registered
  <2>3. Links(u) = {}
    BY <2>2 DEF LInv, Owned
  <2> HIDE DEF w
  <2> QED
    BY <2>1, <2>2, <2>3, LinksBegin DEF Sending
<1>3. ASSUME NEW u \in User, NEW m \in Message, forgot_password(r, u, m) PROVE LInv'
  <2> DEFINE w == [Idle EXCEPT !.op = "forgot_password", !.user = u]
  <2>1. w \in Work /\ w.user = u /\ w.op = "forgot_password"
    BY <1>1 DEF Work, Op
  <2>2. SendLink(r, w, m, "send_password_reset_email")
    BY <1>3 DEF forgot_password
  <2> HIDE DEF w
  <2> QED
    BY <2>1, <2>2, LinksBegin DEF Sending, Inviting
<1>4. ASSUME NEW u \in User, NEW m \in Message, resend_email_verification(r, u, m) PROVE LInv'
  <2> DEFINE w == [Idle EXCEPT !.op = "resend", !.user = u, !.links = Links(u)]
  <2>1. Links(u) \subseteq Message
    BY DEF Links
  <2>2. w \in Work /\ w.user = u /\ w.op = "resend" /\ w.links = Links(u)
    BY <1>1, <2>1 DEF Work, Op
  <2>3. SendLink(r, w, m, "send_verification_email") /\ user[u].status # None
    BY <1>4 DEF resend_email_verification, Registered
  <2> HIDE DEF w
  <2> QED
    BY <2>2, <2>3, LinksBegin DEF Sending
<1>5. ASSUME NEW w, w.op \notin Sending, Read(r, w) PROVE LInv'
  <2>1. req' = [req EXCEPT ![r] = w] /\ UNCHANGED <<user, token>>
    BY <1>5 DEF Read, Begin, rows
  <2> QED
    BY <1>5, <2>1, NotSending, LinksAside
<1>6. ASSUME NEW m \in Message, verify_email(r, m) \/ reset_password(r, m) PROVE LInv'
  BY <1>5, <1>6 DEF verify_email, reset_password, Idle, Sending
<1> QED
  BY <1>2, <1>3, <1>4, <1>6 DEF LinkStep

LEMMA UserStepLinks ==
    ASSUME Sound, Grows, LInv, NEW r \in Request, UserStep(r)
    PROVE  LInv'
<1>1. PICK w : w.op \notin Sending /\ Read(r, w)
  BY DEF UserStep, change_password, deactivate_account, register_as_seller,
     verify_seller, verify_bvn, admin_upgrade_tier, Idle, Sending
<1>2. req' = [req EXCEPT ![r] = w] /\ UNCHANGED <<user, token>>
  BY <1>1 DEF Read, Begin, rows
<1> QED
  BY <1>1, <1>2, NotSending, LinksAside

\* Nobody becomes unregistered.
LEMMA StatusStays ==
    ASSUME Sound, NEW u \in User, NEW x \in Users,
           user' = [user EXCEPT ![u] = x], x.status = None => user[u].status = None
    PROVE  \A v \in User : user'[v].status = None => user[v].status = None
  BY Typed DEF Sound

LEMMA EndLinks ==
    ASSUME Sound, Grows, LInv, NEW r \in Request, End(r)
    PROVE  LInv'
<1> DEFINE u == req[r].user
           e == req[r].link
<1>1. /\ user \in [User -> Users] /\ token \in [Message -> Tokens] /\ req[r] \in Work
  BY Typed DEF Sound
<1>2. req[r].op # "idle" => u \in User
  BY DEF Sound, WorkFits, Complete
<1>3. None \notin AccountStatus
  BY Constants
<1>4. Idle.op \notin Sending
  BY DEF Idle, Sending
<1>5. CASE RegisterCommits(r)
  <2>1. /\ req[r].op = "register" /\ req' = [req EXCEPT ![r] = Idle]
        /\ user' = [user EXCEPT ![u] = NewUser] /\ token' = [token EXCEPT ![e] = "valid"]
    BY <1>5 DEF RegisterCommits, Finish
  <2>2. NewUser \in Users /\ NewUser.status # None
    BY <1>3 DEF NewUser, NoUser, Users, AccountStatus, Tier
  <2>3. \A v \in User : user'[v].status = None => user[v].status = None
    BY <1>2, <2>1, <2>2, StatusStays
  <2>4. user'[u].status # None
    BY <1>1, <1>2, <2>1, <2>2
  <2>5. req[r].links = {}
    BY <2>1 DEF LInv, Owned
  <2>6. \A k \in Message : token'[k] = "valid" =>
           (token[k] = "valid" /\ k \notin req[r].links) \/ k = e
    BY <1>1, <2>1, <2>5
  <2> QED
    BY <2>1, <2>3, <2>4, <2>6, LinksEnd DEF Sending
<1>6. CASE ForgotCommits(r)
  <2>1. /\ req[r].op = "forgot_password" /\ req' = [req EXCEPT ![r] = Idle]
        /\ token' = [token EXCEPT ![e] = "valid"] /\ UNCHANGED user
    BY <1>6 DEF ForgotCommits, Finish
  <2>2. \A k \in Message : token'[k] = "valid" =>
           token[k] = "valid" \/ k = e
    BY <1>1, <2>1
  <2> QED
    BY <2>1, <2>2, LinksEnd DEF Sending, Inviting
<1>7. CASE ResendCommits(r)
  <2>1. /\ req[r].op = "resend" /\ req' = [req EXCEPT ![r] = Idle] /\ UNCHANGED user
        /\ token' = [k \in Message |-> IF k \in req[r].links THEN "used"
                                       ELSE IF k = e THEN "valid" ELSE token[k]]
    BY <1>7 DEF ResendCommits, Finish
  <2>2. \A k \in Message : token'[k] = "valid" =>
           (token[k] = "valid" /\ k \notin req[r].links) \/ k = e
    BY <2>1
  <2> QED
    BY <2>1, <2>2, LinksEnd DEF Sending
<1>8. ASSUME req' = [req EXCEPT ![r] = Idle], NEW x \in Users, u \in User,
             user' = [user EXCEPT ![u] = x], x.status = None => user[u].status = None,
             UNCHANGED token \/ token' = [token EXCEPT ![e] = "used"]
      PROVE  LInv'
  <2>1. \A v \in User : user'[v].status = None => user[v].status = None
    BY <1>8, StatusStays
  <2>2. \A k \in Message : token'[k] = "valid" => token[k] = "valid"
    BY <1>1, <1>8
  <2>3. \A q \in Request : req'[q] = req[q] \/ req'[q].op \notin Sending
    BY <1>4, <1>8, NotSending
  <2> QED
    BY <2>1, <2>2, <2>3, LinksAside
<1>9. CASE VerifyCommits(r) \/ ResetCommits(r) \/ ChangeCommits(r) \/ DeactivateCommits(r)
  <2>1. req' = [req EXCEPT ![r] = Idle] /\ u \in User
    BY <1>2, <1>9 DEF VerifyCommits, ResetCommits, ChangeCommits, DeactivateCommits, Finish
  <2>2. UNCHANGED token \/ token' = [token EXCEPT ![e] = "used"]
    BY <1>9 DEF VerifyCommits, ResetCommits, ChangeCommits, DeactivateCommits
  <2>3. CASE VerifyCommits(r)
    <3> DEFINE x == [user[u] EXCEPT !.verified = TRUE]
    <3>1. x \in Users /\ x.status = user[u].status /\ user' = [user EXCEPT ![u] = x]
      BY <1>1, <2>1, <2>3 DEF VerifyCommits, Users
    <3> HIDE DEF x
    <3> QED
      BY <1>8, <2>1, <2>2, <3>1
  <2>4. CASE ResetCommits(r)
    <3> DEFINE x == [user[u] EXCEPT !.password = e]
    <3>1. e \in Nat
      BY <2>4 DEF ResetCommits, Finish, Sound, LinksOK, LinksFit, Opening, Opened, Message
    <3>2. x \in Users /\ x.status = user[u].status /\ user' = [user EXCEPT ![u] = x]
      BY <1>1, <2>1, <2>4, <3>1 DEF ResetCommits, Users
    <3> HIDE DEF x
    <3> QED
      BY <1>8, <2>1, <2>2, <3>2
  <2>5. CASE ChangeCommits(r)
    <3> DEFINE x == [user[u] EXCEPT !.password = 0]
    <3>1. x \in Users /\ x.status = user[u].status /\ user' = [user EXCEPT ![u] = x]
      BY <1>1, <2>1, <2>5 DEF ChangeCommits, Users
    <3> HIDE DEF x
    <3> QED
      BY <1>8, <2>1, <2>2, <3>1
  <2>6. CASE DeactivateCommits(r)
    <3> DEFINE x == [user[u] EXCEPT !.status = "DEACTIVATED"]
    <3>1. /\ x \in Users /\ x.status # None /\ user' = [user EXCEPT ![u] = x]
      BY <1>1, <1>3, <2>1, <2>6 DEF DeactivateCommits, Users, AccountStatus
    <3> HIDE DEF x
    <3> QED
      BY <1>8, <2>1, <2>2, <3>1
  <2> QED
    BY <1>9, <2>3, <2>4, <2>5, <2>6
<1>10. CASE BvnCommits(r) \/ UpgradeCommits(r)
  <2>1. req' = [req EXCEPT ![r] = Idle] /\ u \in User /\ UNCHANGED token
    BY <1>2, <1>10 DEF BvnCommits, UpgradeCommits, Finish
  <2>2. PICK t : user' = [user EXCEPT ![u].tier = t] /\ t \in Tier
    <3>1. user[u].tier \in Tier /\ "TIER_2" \in Tier
      BY <1>1, <2>1 DEF Users, Tier
    <3>2. req[r].op = "upgrade_tier" => req[r].target \in Tier
      BY DEF Sound, WorkFits, Complete
    <3>3. CASE BvnCommits(r)
      BY <3>1, <3>3 DEF BvnCommits
    <3>4. CASE UpgradeCommits(r)
      BY <3>1, <3>2, <3>4 DEF UpgradeCommits, Finish
    <3> QED
      BY <1>10, <3>3, <3>4
  <2> DEFINE x == [user[u] EXCEPT !.tier = t]
  <2>3. x \in Users /\ x.status = user[u].status /\ user' = [user EXCEPT ![u] = x]
    BY <1>1, <2>1, <2>2 DEF Users
  <2> HIDE DEF x
  <2> QED
    BY <1>8, <2>1, <2>3
<1>11. CASE \/ SellerCommits(r) \/ SellerRefused(r) \/ BvnAttempt(r) \/ BvnRefused(r)
            \/ \E m \in Message : DecisionCommits(r, m)
  <2>1. UNCHANGED <<user, token>>
    BY <1>11 DEF SellerCommits, SellerRefused, BvnAttempt, BvnRefused, DecisionCommits, rows
  <2>2. \/ req' = [req EXCEPT ![r] = Idle]
        \/ req' = [req EXCEPT ![r].op = "bvn_attempt"]
    BY <1>11 DEF SellerCommits, SellerRefused, BvnAttempt, BvnRefused, DecisionCommits, Finish
  <2>3. \A q \in Request : req'[q] = req[q] \/ req'[q].op \notin Sending
    BY <1>1, <1>4, <2>2, Typed DEF Sound, Sending, Work
  <2> QED
    BY <2>1, <2>3, LinksAside
<1> QED
  BY <1>5, <1>6, <1>7, <1>9, <1>10, <1>11 DEF End

LEMMA LinksStep ==
    ASSUME Sound, LInv, [Next]_vars
    PROVE  LInv'
<1>1. Grows
  BY MessagesGrow
<1>2. ASSUME NEW r \in Request, RequestFails(r) PROVE LInv'
  <2>1. /\ req' = [req EXCEPT ![r] = Idle] /\ UNCHANGED user
        /\ \A m \in Message : token'[m] = "valid" => token[m] = "valid"
    BY <1>2 DEF RequestFails, Finish
  <2>2. Idle.op \notin Sending
    BY DEF Idle, Sending
  <2> QED
    BY <1>1, <2>1, <2>2, NotSending, LinksAside
<1>3. ASSUME UNCHANGED <<user, token, req>> PROVE LInv'
  BY <1>1, <1>3, LinksAside
<1>4. ASSUME NEW m \in Message, LinkExpires(m) PROVE LInv'
  <2>1. \A k \in Message : token'[k] = "valid" => token[k] = "valid"
    BY <1>4, Typed DEF LinkExpires, Sound
  <2> QED
    BY <1>1, <1>4, <2>1, LinksAside DEF LinkExpires
<1>5. ASSUME NEW u \in User, NEW s \in AccountStatus, update_user_status(u, s) PROVE LInv'
  <2> DEFINE x == [user[u] EXCEPT !.status = s]
  <2>1. x \in Users /\ x.status # None /\ user' = [user EXCEPT ![u] = x]
    BY <1>5, Typed, Constants DEF update_user_status, Sound, Users
  <2> HIDE DEF x
  <2>2. UNCHANGED <<token, req>>
    BY <1>5 DEF update_user_status
  <2> QED
    BY <1>1, <2>1, <2>2, StatusStays, LinksAside
<1>6. ASSUME NEW u \in User, NEW t, PanelSetsTier(u, t) PROVE LInv'
  BY <1>3, <1>6 DEF PanelSetsTier
<1>7. CASE \/ NotifyEvent /\ Spend("request") /\ UNCHANGED <<rows, req>>
           \/ NextMail /\ UNCHANGED <<rows, req, spent>>
           \/ UNCHANGED vars
  BY <1>3, <1>7 DEF rows, vars
<1>8. CASE \E r \in Request : LinkStep(r) \/ UserStep(r) \/ End(r) \/ RequestFails(r)
  BY <1>1, <1>2, <1>8, LinkStepLinks, UserStepLinks, EndLinks
<1> QED
  BY <1>4, <1>5, <1>6, <1>7, <1>8 DEF Next

\* A request for another verification link uses up those it reads before it commits:
\* of all the links ever sent to a user, no more work than requests were served at a time.
THEOREM LinksAreFew == Spec => []FewLinks
<1>1. IInv /\ LInv /\ [Next]_vars => LInv'
  BY LinksStep, Shape
<1>2. LInv => FewLinks
  BY SpreadBound DEF LInv, LinksSpread, FewLinks
<1> QED
  BY <1>1, <1>2, InitLinks, Invariance, PTL DEF Spec
=============================================================================
