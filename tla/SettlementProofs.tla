-------------------------- MODULE SettlementProofs --------------------------
(***************************************************************************)
(* Theorems of Settlement, for any auctions, bids and reserve prices, any  *)
(* number of finders and messages, and any bounds on what goes wrong.      *)
(***************************************************************************)
EXTENDS Settlement, Sums

LEMMA Constants ==
    /\ None \notin Finder /\ None \notin Auction
    /\ None \notin {"ACTIVE", "WON", "LOST"}
    /\ HighestAmount \in [Auction -> Nat] /\ ReservePrice \in [Auction -> Nat]
    /\ MaxClaimLosses \in Nat
<1>1. /\ None \notin Finder \union Task \union Auction \union {"ACTIVE", "WON", "LOST"}
      /\ HighestAmount \in [Auction -> Nat]
      /\ ReservePrice \in [Auction -> Nat]
      /\ {MaxRetries, MaxFailures, MaxCrashes, MaxClaimLosses, MaxCancels,
          MaxExtensions} \subseteq Nat
  BY Zenon, SettlementAssumption
<1> QED
  BY <1>1

-----------------------------------------------------------------------------
(***************************************************************************)
(* The inductive invariant.  A claim that is open holds the row and finds  *)
(* it ACTIVE; where a task stands, and how a bid ended, fit the auction;   *)
(* and as long as no claim can be lost, a message is alone on its auction. *)
(***************************************************************************)

Typed ==
    /\ status \in [Auction -> AuctionStatus]
    /\ bid \in [Auction -> {"ACTIVE", "WON", "LOST", None}]
    /\ orders \in [Auction -> Nat]
    /\ row_lock \in [Auction -> Finder \union {None}]
    /\ claiming \in [Finder -> Auction \union {None}]
    /\ pc \in [Task -> Location]
    /\ target \in [Task -> Auction \union {None}]
    /\ spent \in [Event -> Nat]

ClaimsHold ==
    \A f \in Finder : claiming[f] # None =>
        row_lock[claiming[f]] = f /\ status[claiming[f]] = "ACTIVE"

\* Where a task on auction a may stand.
Fits(l, a) ==
    /\ l # "unused" => a \in Auction
    /\ l = "no_bids" => ~HasBid(a)
    /\ l \in {"reserve", "unlock"} => HasBid(a) /\ ReserveNotMet(a)
    /\ l = "settle" => HasBid(a) /\ ~ReserveNotMet(a)

TasksFit == \A t \in Task : Fits(pc[t], target[t])

BidsFit ==
    \A a \in Auction :
        /\ bid[a] = "LOST" => HasBid(a) /\ ReserveNotMet(a)
        /\ bid[a] = "WON" => HasBid(a) /\ ~ReserveNotMet(a)

Busy(t) == pc[t] # "unused"

Alone ==
    /\ \A s, t \in Task : Busy(s) /\ Busy(t) /\ target[s] = target[t] => s = t
    /\ \A t \in Task :
          Busy(t) /\ status[target[t]] = "ACTIVE" => row_lock[target[t]] # None
    /\ \A t \in Task : pc[t] = "settle" => orders[target[t]] = 0
    /\ OrderOnce

IInv ==
    /\ Typed
    /\ ClaimsHold
    /\ TasksFit
    /\ BidsFit
    /\ OneOutcome
    /\ MaxClaimLosses = 0 => Alone

LEMMA InitInv == Init => IInv
<1> SUFFICES ASSUME Init PROVE IInv
  OBVIOUS
<1>1. Typed
  BY DEF Init, Typed, AuctionStatus, Location, Event
<1>2. \A a \in Auction : bid[a] \notin {"WON", "LOST"} /\ orders[a] = 0
  BY Constants DEF Init
<1>3. \A t \in Task : pc[t] = "unused"
  BY DEF Init
<1>4. ClaimsHold
  BY DEF Init, ClaimsHold
<1>5. TasksFit
  BY <1>3 DEF TasksFit, Fits
<1>6. BidsFit /\ OneOutcome /\ OrderOnce
  BY <1>2 DEF BidsFit, OneOutcome, OrderOnce
<1>7. Alone
  BY <1>3, <1>6 DEF Alone, Busy
<1> QED
  BY <1>1, <1>4, <1>5, <1>6, <1>7 DEF IInv

-----------------------------------------------------------------------------
(***************************************************************************)
(* The tasks.                                                              *)
(***************************************************************************)

\* A task that only moves on keeps the invariant, when the place it moves to
\* fits its auction.
LEMMA TaskMoves ==
    ASSUME IInv, NEW t \in Task, NEW l \in Location,
           Busy(t), l # "unused",
           pc' = [pc EXCEPT ![t] = l],
           UNCHANGED <<status, bid, orders, row_lock, claiming, target>>,
           spent' \in [Event -> Nat],
           Fits(l, target[t]),
           l = "settle" => orders[target[t]] = 0
    PROVE  IInv'
<1>1. Typed'
  BY DEF IInv, Typed
<1>2. ClaimsHold' /\ BidsFit' /\ OneOutcome' /\ OrderOnce' = OrderOnce
  BY DEF IInv, ClaimsHold, BidsFit, OneOutcome, OrderOnce, HasBid, ReserveNotMet
<1>3. \A s \in Task : pc'[s] = IF s = t THEN l ELSE pc[s]
  BY DEF IInv, Typed
<1>4. TasksFit'
  <2>1. \A s \in Task : Fits(pc'[s], target[s])
    BY <1>3 DEF IInv, TasksFit
  <2> QED
    BY <2>1 DEF TasksFit, Fits, HasBid, ReserveNotMet
<1>5. ASSUME Alone PROVE Alone'
  <2>1. \A s \in Task : Busy(s)' <=> Busy(s)
    BY <1>3 DEF Busy
  <2>2. \A s \in Task : pc'[s] = "settle" => orders[target[s]] = 0
    BY <1>3, <1>5 DEF Alone
  <2>3. UNCHANGED <<status, orders, row_lock, target>>
    OBVIOUS
  <2> QED
    BY <1>2, <1>5, <2>1, <2>2, <2>3 DEF Alone
<1> QED
  BY <1>1, <1>2, <1>4, <1>5 DEF IInv

\* A task that records an outcome keeps it, when bid, orders and status agree.
LEMMA TaskRecords ==
    ASSUME IInv, NEW t \in Task, NEW a \in Auction, target[t] = a, Busy(t),
           NEW l \in {"done", "notify"}, NEW s \in Terminal,
           NEW b \in {"ACTIVE", "WON", "LOST", None}, NEW n \in Nat,
           row_lock[a] = None,
           pc' = [pc EXCEPT ![t] = l],
           status' = [status EXCEPT ![a] = s],
           bid' = [bid EXCEPT ![a] = b],
           orders' = [orders EXCEPT ![a] = n],
           UNCHANGED <<row_lock, claiming, target, spent>>,
           n > 0 <=> b = "WON",
           b = "WON" => s = "SETTLED" /\ HasBid(a) /\ ~ReserveNotMet(a),
           b = "LOST" => s = "ENDED_RESERVE_NOT_MET" /\ HasBid(a) /\ ReserveNotMet(a),
           Alone => n <= 1
    PROVE  IInv'
<1>1. Typed'
  BY DEF IInv, Typed, AuctionStatus, Terminal, Location, Running
<1>2. \A x \in Auction : /\ status'[x] = IF x = a THEN s ELSE status[x]
                         /\ bid'[x] = IF x = a THEN b ELSE bid[x]
                         /\ orders'[x] = IF x = a THEN n ELSE orders[x]
  BY DEF IInv, Typed
<1>3. \A u \in Task : pc'[u] = IF u = t THEN l ELSE pc[u]
  BY DEF IInv, Typed
<1>4. ClaimsHold'
  <2>1. \A f \in Finder : claiming[f] # None => claiming[f] # a /\ claiming[f] \in Auction
    BY Constants DEF IInv, ClaimsHold, Typed
  <2> QED
    BY <1>2, <2>1 DEF IInv, ClaimsHold
<1>5. TasksFit'
  <2>1. \A u \in Task : Fits(pc'[u], target[u])
    BY <1>3 DEF IInv, TasksFit, Fits
  <2> QED
    BY <2>1 DEF TasksFit, Fits, HasBid, ReserveNotMet
<1>6. BidsFit'
  <2>1. \A x \in Auction : /\ bid'[x] = "LOST" => HasBid(x) /\ ReserveNotMet(x)
                           /\ bid'[x] = "WON" => HasBid(x) /\ ~ReserveNotMet(x)
    BY <1>2 DEF IInv, BidsFit
  <2> QED
    BY <2>1 DEF BidsFit, HasBid, ReserveNotMet
<1>7. OneOutcome'
  <2> SUFFICES ASSUME NEW x \in Auction
               PROVE  /\ orders'[x] > 0 <=> bid'[x] = "WON"
                      /\ bid'[x] = "WON" => status'[x] \in {"SETTLED", "CANCELLED"}
                      /\ bid'[x] = "LOST" =>
                            status'[x] \in {"ENDED_RESERVE_NOT_MET", "CANCELLED"}
    BY DEF OneOutcome
  <2>1. CASE x = a
    BY <1>2, <2>1
  <2>2. CASE x # a
    BY <1>2, <2>2 DEF IInv, OneOutcome
  <2> QED
    BY <2>1, <2>2
<1>8. ASSUME Alone PROVE Alone'
  <2>1. \A u \in Task : Busy(u)' <=> Busy(u)
    BY <1>3 DEF Busy
  <2>2. \A u \in Task : Busy(u) => target[u] \in Auction
    BY DEF IInv, TasksFit, Fits, Busy
  <2>3. \A u, w \in Task : Busy(u)' /\ Busy(w)' /\ target'[u] = target'[w] => u = w
    BY <1>8, <2>1 DEF Alone
  <2>4. \A u \in Task :
           Busy(u)' /\ status'[target'[u]] = "ACTIVE" => row_lock'[target'[u]] # None
    BY <1>2, <1>8, <2>1, <2>2 DEF Alone, Terminal
  <2>5. \A u \in Task : pc'[u] = "settle" => orders'[target'[u]] = 0
    <3> SUFFICES ASSUME NEW u \in Task, pc'[u] = "settle" PROVE orders'[target[u]] = 0
      OBVIOUS
    <3>1. u # t /\ pc[u] = "settle" /\ Busy(u)
      BY <1>3 DEF Busy
    <3>2. target[u] # a /\ target[u] \in Auction
      BY <1>8, <2>2, <3>1 DEF Alone
    <3> QED
      BY <1>2, <1>8, <3>1, <3>2 DEF Alone
  <2>6. OrderOnce'
    <3>1. \A x \in Auction : orders'[x] <= 1
      BY <1>2, <1>8 DEF Alone, OrderOnce
    <3> QED
      BY <3>1 DEF OrderOnce
  <2> QED
    BY <2>3, <2>4, <2>5, <2>6 DEF Alone
<1> QED
  BY <1>1, <1>4, <1>5, <1>6, <1>7, <1>8 DEF IInv

\* Every step of a task keeps the invariant, its failures and its death included.
LEMMA TaskInv == ASSUME IInv, NEW t \in Task, Run(t) \/ Fail(t) \/ Crash(t) PROVE IInv'
<1> DEFINE a == target[t]
<1>1. pc[t] # "unused" => a \in Auction
  BY DEF IInv, TasksFit, Fits
<1>2. ASSUME NEW l \in Location, l # "unused", pc[t] # "unused",
             Goto(t, l), UNCHANGED <<db, finders, target>>,
             spent' \in [Event -> Nat],
             Fits(l, a), l = "settle" => orders[a] = 0
      PROVE  IInv'
  <2>1. UNCHANGED <<status, bid, orders, row_lock, claiming, target>>
    BY <1>2 DEF db, finders
  <2>2. Busy(t) /\ pc' = [pc EXCEPT ![t] = l]
    BY <1>2 DEF Busy, Goto
  <2> QED
    BY <1>2, <2>1, <2>2, TaskMoves
<1>3. ASSUME Retry(t), pc[t] # "unused", spent' \in [Event -> Nat] PROVE IInv'
  <2> DEFINE l == IF retries[t] < MaxRetries THEN "queued" ELSE "lost"
  <2>1. Goto(t, l) /\ UNCHANGED <<db, finders, target>>
    BY <1>3 DEF Retry
  <2>2. l \in Location /\ l # "unused" /\ Fits(l, a) /\ l # "settle"
    BY <1>1, <1>3 DEF Location, Fits
  <2> HIDE DEF l
  <2> QED
    BY <1>2, <1>3, <2>1, <2>2
<1>4. spent \in [Event -> Nat]
  BY DEF IInv, Typed
<1>5. CASE Start(t)
  <2> DEFINE l == CASE status[a] \in Terminal -> "done"
                    [] status[a] \notin Terminal /\ ~HasBid(a) -> "no_bids"
                    [] status[a] \notin Terminal /\ HasBid(a) /\ ReserveNotMet(a) -> "reserve"
                    [] OTHER -> "settle"
  <2>1. /\ pc[t] = "queued" /\ Goto(t, l)
        /\ UNCHANGED <<db, finders, target>> /\ spent' = spent
    BY <1>5 DEF Start
  <2>2. l \in Location /\ l # "unused"
    BY DEF Location, Running
  <2>3. Fits(l, a)
    BY <1>1, <2>1 DEF Fits
  <2>4. l = "settle" => status[a] \notin Terminal
    OBVIOUS
  <2>5. l = "settle" => orders[a] = 0
    <3>1. a \in Auction
      BY <1>1, <2>1
    <3>2. status[a] \notin Terminal => bid[a] # "WON"
      BY <3>1 DEF IInv, OneOutcome, Terminal
    <3>3. orders[a] \in Nat /\ (orders[a] > 0 => bid[a] = "WON")
      BY <3>1 DEF IInv, OneOutcome, Typed
    <3> QED
      BY <2>4, <3>2, <3>3
  <2> HIDE DEF l
  <2> QED
    BY <1>2, <1>4, <2>1, <2>2, <2>3, <2>5
<1>6. CASE RereadReserve(t)
  <2> DEFINE l == IF status[a] = "ENDED_RESERVE_NOT_MET" THEN "done" ELSE "unlock"
  <2>1. /\ pc[t] = "reserve" /\ Goto(t, l)
        /\ UNCHANGED <<db, finders, target>> /\ spent' = spent
    BY <1>6 DEF RereadReserve
  <2>2. l \in Location /\ l # "unused" /\ l # "settle"
    BY DEF Location, Running
  <2>3. Fits(l, a)
    BY <2>1 DEF IInv, TasksFit, Fits
  <2> HIDE DEF l
  <2> QED
    BY <1>2, <1>4, <2>1, <2>2, <2>3
<1>7. CASE Notify(t)
  <2>1. /\ pc[t] = "notify" /\ Goto(t, "done")
        /\ UNCHANGED <<db, finders, target>> /\ spent' = spent
    BY <1>7 DEF Notify
  <2>2. "done" \in Location /\ Fits("done", a)
    BY <1>1, <2>1 DEF Location, Fits
  <2> QED
    BY <1>2, <1>4, <2>1, <2>2
<1>8. CASE Fail(t) \/ UnlockRefused(t)
  <2>1. pc[t] # "unused" /\ Retry(t)
    BY <1>8 DEF Fail, UnlockRefused, Running
  <2>2. spent' \in [Event -> Nat]
    BY <1>4, <1>8 DEF Fail, UnlockRefused, Spend, Event
  <2> QED
    BY <1>3, <2>1, <2>2
<1>9. CASE Crash(t)
  <2>1. /\ pc[t] # "unused" /\ Goto(t, "lost")
        /\ UNCHANGED <<db, finders, target>>
    BY <1>9 DEF Crash, Running
  <2>2. spent' \in [Event -> Nat]
    BY <1>4, <1>9 DEF Crash, Spend, Event
  <2>3. "lost" \in Location /\ Fits("lost", a)
    BY <1>1, <2>1 DEF Location, Fits
  <2> QED
    BY <1>2, <2>1, <2>2, <2>3
<1>10. CASE EndNoBids(t)
  <2>1. /\ pc[t] = "no_bids" /\ row_lock[a] = None
        /\ pc' = [pc EXCEPT ![t] = "done"]
        /\ status' = [status EXCEPT ![a] = "ENDED_NO_BIDS"]
        /\ bid' = [bid EXCEPT ![a] = None]
        /\ UNCHANGED <<orders, row_lock, claiming, target, spent>>
    BY <1>10 DEF EndNoBids, Writes, Goto, Record, finders
  <2>2. a \in Auction /\ Busy(t) /\ ~HasBid(a)
    BY <1>1, <2>1 DEF Busy, IInv, TasksFit, Fits
  <2>3. orders[a] = 0
    BY <2>2 DEF IInv, OneOutcome, BidsFit, Typed
  <2>4. orders' = [orders EXCEPT ![a] = 0]
    BY <2>1, <2>2, <2>3 DEF IInv, Typed
  <2>5. /\ "ENDED_NO_BIDS" \in Terminal /\ 0 \in Nat /\ 0 <= 1
        /\ None # "LOST" /\ None # "WON" /\ ~(0 > 0)
    BY Constants DEF Terminal
  <2> HIDE DEF a
  <2> QED
    BY <2>1, <2>2, <2>4, <2>5, TaskRecords DEF a
<1>11. CASE EndReserveNotMet(t)
  <2>1. /\ pc[t] = "unlock" /\ row_lock[a] = None
        /\ pc' = [pc EXCEPT ![t] = "notify"]
        /\ status' = [status EXCEPT ![a] = "ENDED_RESERVE_NOT_MET"]
        /\ bid' = [bid EXCEPT ![a] = "LOST"]
        /\ UNCHANGED <<orders, row_lock, claiming, target, spent>>
    BY <1>11 DEF EndReserveNotMet, Writes, Goto, Record, finders
  <2>2. a \in Auction /\ Busy(t) /\ HasBid(a) /\ ReserveNotMet(a)
    BY <1>1, <2>1 DEF Busy, IInv, TasksFit, Fits
  <2>3. orders[a] = 0
    BY <2>2 DEF IInv, OneOutcome, BidsFit, Typed
  <2>4. orders' = [orders EXCEPT ![a] = 0]
    BY <2>1, <2>2, <2>3 DEF IInv, Typed
  <2>5. /\ "ENDED_RESERVE_NOT_MET" \in Terminal /\ 0 \in Nat /\ 0 <= 1
        /\ (0 > 0 <=> "LOST" = "WON")
    BY DEF Terminal
  <2> HIDE DEF a
  <2> QED
    BY <2>1, <2>2, <2>4, <2>5, TaskRecords DEF a
<1>12. CASE Settle(t)
  <2>1. /\ pc[t] = "settle" /\ row_lock[a] = None
        /\ pc' = [pc EXCEPT ![t] = "notify"]
        /\ status' = [status EXCEPT ![a] = "SETTLED"]
        /\ bid' = [bid EXCEPT ![a] = "WON"]
        /\ orders' = [orders EXCEPT ![a] = orders[a] + 1]
        /\ UNCHANGED <<row_lock, claiming, target, spent>>
    BY <1>12 DEF Settle, CreateOrder, Writes, Goto, Record, finders
  <2>2. a \in Auction /\ Busy(t) /\ HasBid(a) /\ ~ReserveNotMet(a)
    BY <1>1, <2>1 DEF Busy, IInv, TasksFit, Fits
  <2>3. /\ orders[a] + 1 \in Nat /\ orders[a] + 1 > 0
        /\ Alone => orders[a] + 1 <= 1
    BY <2>1, <2>2 DEF IInv, Typed, Alone
  <2>4. "SETTLED" \in Terminal
    BY DEF Terminal
  <2> HIDE DEF a
  <2> QED
    BY <2>1, <2>2, <2>3, <2>4, TaskRecords DEF a
<1> QED
  BY <1>5, <1>6, <1>7, <1>8, <1>9, <1>10, <1>11, <1>12 DEF Run

-----------------------------------------------------------------------------
(***************************************************************************)
(* The finders, and the people.                                            *)
(***************************************************************************)

\* A claim finds the row ACTIVE and unlocked, so no message is out for it.
LEMMA ClaimInv ==
    ASSUME IInv, NEW f \in Finder, NEW a \in Auction, NEW t \in Task, Claim(f, a, t)
    PROVE  IInv'
<1>1. /\ claiming[f] = None /\ row_lock[a] = None
      /\ status[a] = "ACTIVE" /\ pc[t] = "unused"
      /\ row_lock' = [row_lock EXCEPT ![a] = f]
      /\ claiming' = [claiming EXCEPT ![f] = a]
      /\ pc' = [pc EXCEPT ![t] = "queued"]
      /\ target' = [target EXCEPT ![t] = a]
      /\ UNCHANGED <<status, bid, orders, spent>>
  BY DEF Claim, db
<1>2. \A u \in Task : /\ pc'[u] = IF u = t THEN "queued" ELSE pc[u]
                     /\ target'[u] = IF u = t THEN a ELSE target[u]
  BY <1>1 DEF IInv, Typed
<1>3. \A x \in Auction : row_lock'[x] = IF x = a THEN f ELSE row_lock[x]
  BY <1>1 DEF IInv, Typed
<1>4. Typed'
  BY <1>1 DEF IInv, Typed, Location
<1>5. ClaimsHold'
  <2>1. \A g \in Finder : claiming'[g] = IF g = f THEN a ELSE claiming[g]
    BY <1>1 DEF IInv, Typed
  <2>2. \A g \in Finder : claiming[g] # None => claiming[g] # a /\ claiming[g] \in Auction
    BY <1>1, Constants DEF IInv, ClaimsHold, Typed
  <2> QED
    BY <1>1, <1>3, <2>1, <2>2 DEF IInv, ClaimsHold
<1>6. TasksFit'
  <2>1. \A u \in Task : Fits(pc'[u], target'[u])
    BY <1>2 DEF IInv, TasksFit, Fits
  <2> QED
    BY <2>1 DEF TasksFit, Fits, HasBid, ReserveNotMet
<1>7. BidsFit' /\ OneOutcome' /\ OrderOnce' = OrderOnce
  BY <1>1 DEF IInv, BidsFit, OneOutcome, OrderOnce, HasBid, ReserveNotMet
<1>8. ASSUME Alone PROVE Alone'
  <2>1. \A u \in Task : Busy(u)' <=> (u = t \/ Busy(u))
    BY <1>2 DEF Busy
  <2>2. \A u \in Task : Busy(u) => target[u] # a /\ target[u] \in Auction /\ u # t
    BY <1>1, <1>8 DEF IInv, TasksFit, Fits, Busy, Alone
  <2>3. \A u, w \in Task : Busy(u)' /\ Busy(w)' /\ target'[u] = target'[w] => u = w
    BY <1>2, <1>8, <2>1, <2>2 DEF Alone
  <2>4. \A u \in Task :
           Busy(u)' /\ status'[target'[u]] = "ACTIVE" => row_lock'[target'[u]] # None
    BY <1>1, <1>2, <1>3, <1>8, <2>1, <2>2, Constants DEF Alone
  <2>5. \A u \in Task : pc'[u] = "settle" => orders'[target'[u]] = 0
    BY <1>1, <1>2, <1>8 DEF Alone
  <2> QED
    BY <1>7, <1>8, <2>3, <2>4, <2>5 DEF Alone
<1> QED
  BY <1>4, <1>5, <1>6, <1>7, <1>8 DEF IInv

\* A claim that ends releases the row; its commit finds the auction still ACTIVE.
LEMMA EndClaimInv ==
    ASSUME IInv, NEW f \in Finder, CommitClaim(f) \/ LoseClaim(f)
    PROVE  IInv'
<1> DEFINE a == claiming[f]
<1>1. /\ a # None
      /\ row_lock' = [row_lock EXCEPT ![a] = None]
      /\ claiming' = [claiming EXCEPT ![f] = None]
      /\ UNCHANGED <<bid, orders, pc, target>>
  BY DEF CommitClaim, LoseClaim, EndClaim, db, tasks
<1>2. a \in Auction /\ row_lock[a] = f /\ status[a] = "ACTIVE"
  BY <1>1 DEF IInv, Typed, ClaimsHold
<1>3. \/ status' = [status EXCEPT ![a] = "SETTLEMENT_IN_PROGRESS"] /\ spent' = spent
      \/ status' = status /\ Spend("claim_loss", MaxClaimLosses)
  BY DEF CommitClaim, LoseClaim, db
<1> HIDE DEF a
<1>4. \A x \in Auction :
         /\ row_lock'[x] = IF x = a THEN None ELSE row_lock[x]
         /\ \/ status'[x] = status[x]
            \/ x = a /\ status'[x] = "SETTLEMENT_IN_PROGRESS"
  BY <1>1, <1>2, <1>3 DEF IInv, Typed
<1>5. Typed'
  <2>1. status' \in [Auction -> AuctionStatus] /\ spent' \in [Event -> Nat]
    BY <1>3 DEF IInv, Typed, Spend, AuctionStatus, Event
  <2> QED
    BY <1>1, <2>1 DEF IInv, Typed
<1>6. ClaimsHold'
  <2>1. \A g \in Finder : claiming'[g] = IF g = f THEN None ELSE claiming[g]
    BY <1>1 DEF IInv, Typed
  <2>2. \A g \in Finder : g # f /\ claiming[g] # None =>
           claiming[g] # a /\ claiming[g] \in Auction
    BY <1>2 DEF IInv, ClaimsHold, Typed
  <2> QED
    BY <1>4, <2>1, <2>2 DEF IInv, ClaimsHold
<1>7. TasksFit' /\ BidsFit' /\ OrderOnce' = OrderOnce
  BY <1>1 DEF IInv, TasksFit, Fits, BidsFit, OrderOnce, HasBid, ReserveNotMet
<1>8. OneOutcome'
  <2>1. bid[a] \notin {"WON", "LOST"}
    BY <1>2 DEF IInv, OneOutcome
  <2>2. \A x \in Auction : bid[x] \in {"WON", "LOST"} => status'[x] = status[x]
    BY <1>4, <2>1
  <2> QED
    BY <1>1, <2>2 DEF IInv, OneOutcome
<1>9. ASSUME MaxClaimLosses = 0, Alone PROVE Alone'
  <2>1. status' = [status EXCEPT ![a] = "SETTLEMENT_IN_PROGRESS"]
    <3>1. spent["claim_loss"] \in Nat
      BY DEF IInv, Typed, Event
    <3> QED
      BY <1>3, <1>9, <3>1 DEF Spend
  <2>2. \A u \in Task : Busy(u)' = Busy(u) /\ (Busy(u) => target[u] \in Auction)
    BY <1>1 DEF Busy, IInv, TasksFit, Fits
  <2>3. \A u \in Task :
           Busy(u)' /\ status'[target'[u]] = "ACTIVE" => row_lock'[target'[u]] # None
    BY <1>1, <1>2, <1>4, <1>9, <2>1, <2>2 DEF Alone, IInv, Typed
  <2> QED
    BY <1>1, <1>7, <1>9, <2>2, <2>3 DEF Alone
<1> QED
  BY <1>5, <1>6, <1>7, <1>8, <1>9 DEF IInv

\* Whatever leaves claims and tasks alone may cancel an auction whose row is free.
LEMMA DbInv ==
    ASSUME IInv,
           UNCHANGED <<bid, orders, row_lock, claiming, pc, target>>,
           spent' \in [Event -> Nat],
           \/ status' = status
           \/ \E a \in Auction : row_lock[a] = None /\ status' = [status EXCEPT ![a] = "CANCELLED"]
    PROVE  IInv'
<1>1. Typed'
  BY DEF IInv, Typed, AuctionStatus, Terminal
<1>2. \A x \in Auction : \/ status'[x] = status[x]
                         \/ row_lock[x] = None /\ status'[x] = "CANCELLED"
  BY DEF IInv, Typed
<1>3. ClaimsHold'
  <2>1. \A f \in Finder : claiming[f] # None =>
           claiming[f] \in Auction /\ row_lock[claiming[f]] # None
    BY Constants DEF IInv, ClaimsHold, Typed
  <2> QED
    BY <1>2, <2>1 DEF IInv, ClaimsHold
<1>4. TasksFit' /\ BidsFit' /\ OrderOnce' = OrderOnce
  BY DEF IInv, TasksFit, Fits, BidsFit, OrderOnce, HasBid, ReserveNotMet
<1>5. OneOutcome'
  BY <1>2 DEF IInv, OneOutcome
<1>6. ASSUME Alone PROVE Alone'
  <2>1. \A u \in Task : Busy(u)' = Busy(u) /\ (Busy(u) => target[u] \in Auction)
    BY DEF Busy, IInv, TasksFit, Fits
  <2>2. \A u \in Task :
           Busy(u)' /\ status'[target'[u]] = "ACTIVE" => row_lock'[target'[u]] # None
    BY <1>2, <1>6, <2>1 DEF Alone
  <2> QED
    BY <1>4, <1>6, <2>1, <2>2 DEF Alone
<1> QED
  BY <1>1, <1>3, <1>4, <1>5, <1>6 DEF IInv

LEMMA NextInv == IInv /\ [Next]_vars => IInv'
<1> SUFFICES ASSUME IInv, [Next]_vars PROVE IInv'
  OBVIOUS
<1>1. spent \in [Event -> Nat]
  BY DEF IInv, Typed
<1>2. CASE \E t \in Task : Run(t) \/ Fail(t) \/ Crash(t)
  BY <1>2, TaskInv
<1>3. CASE \E f \in Finder : Find(f) \/ ClaimStep(f) \/ LoseClaim(f)
  <2> PICK f \in Finder : Find(f) \/ ClaimStep(f) \/ LoseClaim(f)
    BY <1>3
  <2>1. CASE Find(f) \/ \E a \in Auction : AlreadyClaimed(f, a)
    <3>1. UNCHANGED <<status, bid, orders, row_lock, claiming, pc, target, spent>>
      BY <2>1 DEF Find, get_auctions_to_settle, AlreadyClaimed, db, tasks
    <3> QED
      BY <1>1, <3>1, DbInv
  <2>2. CASE \E a \in Auction, t \in Task : Claim(f, a, t)
    BY <2>2, ClaimInv
  <2>3. CASE CommitClaim(f) \/ LoseClaim(f)
    BY <2>3, EndClaimInv
  <2> QED
    BY <2>1, <2>2, <2>3 DEF ClaimStep
<1>4. CASE \E a \in Auction : \/ EndTimePasses(a) \/ ExtendAuction(a)
                              \/ CancelAuction(a) \/ CancelAuctionAdmin(a)
  <2> PICK a \in Auction : \/ EndTimePasses(a) \/ ExtendAuction(a)
                          \/ CancelAuction(a) \/ CancelAuctionAdmin(a)
    BY <1>4
  <2>1. CASE EndTimePasses(a)
    <3>1. UNCHANGED <<status, bid, orders, row_lock, claiming, pc, target, spent>>
      BY <2>1 DEF EndTimePasses, finders, tasks
    <3> QED
      BY <1>1, <3>1, DbInv
  <2>2. CASE ExtendAuction(a)
    <3>1. /\ UNCHANGED <<status, bid, orders, row_lock, claiming, pc, target>>
          /\ spent' \in [Event -> Nat]
      BY <1>1, <2>2 DEF ExtendAuction, finders, tasks, Spend, Event
    <3> QED
      BY <3>1, DbInv
  <2>3. CASE Cancel(a)
    <3>1. /\ UNCHANGED <<bid, orders, row_lock, claiming, pc, target>>
          /\ spent' \in [Event -> Nat]
          /\ row_lock[a] = None /\ status' = [status EXCEPT ![a] = "CANCELLED"]
      BY <1>1, <2>3 DEF Cancel, finders, tasks, Spend, Event
    <3> QED
      BY <3>1, DbInv
  <2> QED
    BY <2>1, <2>2, <2>3 DEF CancelAuction, CancelAuctionAdmin
<1>5. CASE UNCHANGED vars
  <2>1. UNCHANGED <<status, bid, orders, row_lock, claiming, pc, target, spent>>
    BY <1>5 DEF vars, db, finders, tasks
  <2> QED
    BY <1>1, <2>1, DbInv
<1> QED
  BY <1>2, <1>3, <1>4, <1>5 DEF Next

LEMMA Invariance == Spec => []IInv
<1> QED
  BY InitInv, NextInv, PTL DEF Spec

-----------------------------------------------------------------------------
(***************************************************************************)
(* The money.  A settlement or a refused reserve takes funds from a wallet *)
(* whose bid still leads, when either a message is alone on its auction,   *)
(* or a wallet backs one auction only: then the balance check of           *)
(* update_balances stops whoever comes second.                             *)
(***************************************************************************)

\* Nobody leads two auctions.
OneLeadEach ==
    \A a, b \in Auction : HasBid(a) /\ HasBid(b) /\ Winner[a] = Winner[b] => a = b

RestTyped ==
    /\ ended \in [Auction -> BOOLEAN]
    /\ item \in [Auction -> {"IN_AUCTION", "SOLD", "APPROVED"}]
    /\ wallet \in [User -> [available: Nat, locked: Nat, escrow: Nat]]
    /\ found \in [Finder -> SUBSET Auction]
    /\ retries \in [Task -> 0..MaxRetries]

Leading == {a \in Auction : bid[a] = "ACTIVE"}
Sold == {a \in Auction : orders[a] = 1}

\* A task that will move funds finds the bid leading.
TasksAreFirst ==
    \A t \in Task : pc[t] \in {"reserve", "unlock", "settle"} => bid[target[t]] = "ACTIVE"

BidsKnown == \A a \in Auction : HasBid(a) => bid[a] # None

\* What holds of the money without a hypothesis, and with one.
MInv == RestTyped /\ BidsKnown /\ (MaxClaimLosses = 0 => TasksAreFirst)
FInv == FundsFollowBids /\ OrderOnce

LEMMA AuctionFacts ==
    /\ IsFiniteSet(Auction)
    /\ Winner \in [Auction -> User]
    /\ MaxRetries \in Nat
<1>1. /\ IsFiniteSet(Auction)
      /\ Winner \in [Auction -> User]
      /\ {MaxRetries, MaxFailures, MaxCrashes, MaxClaimLosses, MaxCancels,
          MaxExtensions} \subseteq Nat
  BY Zenon, SettlementAssumption
<1> QED
  BY <1>1

\* What a user has reserved for some auctions is a number, loses the amount of an
\* auction that is taken out and gains that of one that is put in.
LEMMA ReservedFacts ==
    ASSUME NEW u \in User, NEW S, S \subseteq Auction
    PROVE  /\ Reserved(u, S) \in Nat
           /\ \A a \in Auction : HasBid(a) =>
                 /\ a \in S => Reserved(u, S \ {a}) =
                       Reserved(u, S) - IF u = Winner[a] THEN HighestAmount[a] ELSE 0
                 /\ a \notin S => Reserved(u, S \union {a}) =
                       Reserved(u, S) + IF u = Winner[a] THEN HighestAmount[a] ELSE 0
<1> DEFINE Mine(T) == {x \in T : HasBid(x) /\ Winner[x] = u}
<1>1. IsFiniteSet(Mine(S)) /\ \A x \in Auction : HighestAmount[x] \in Nat
  BY FS_Subset, AuctionFacts, Constants
<1>2. Reserved(u, S) \in Nat
  <2>1. \A x \in Mine(S) : HighestAmount[x] \in Nat
    BY <1>1
  <2> HIDE DEF Mine
  <2>2. SumFunctionOnSet(HighestAmount, Mine(S)) \in Nat
    BY <1>1, <2>1, SumType
  <2> QED
    BY <2>2 DEF Reserved, Mine
<1>3. ASSUME NEW a \in Auction, HasBid(a), a \in S
      PROVE  Reserved(u, S \ {a}) =
                Reserved(u, S) - IF u = Winner[a] THEN HighestAmount[a] ELSE 0
  <2>1. CASE u = Winner[a]
    <3>1. a \in Mine(S) /\ Mine(S \ {a}) = Mine(S) \ {a}
      BY <1>3, <2>1
    <3>2. \A x \in Mine(S) : HighestAmount[x] \in Int
      BY <1>1
    <3>3. IsFiniteSet(Mine(S) \ {a})
      BY <1>1, FS_Subset
    <3> HIDE DEF Mine
    <3>4. SumFunctionOnSet(HighestAmount, Mine(S)) =
             HighestAmount[a] + SumFunctionOnSet(HighestAmount, Mine(S) \ {a})
      BY <1>1, <3>1, <3>2, SumRemove
    <3>5. SumFunctionOnSet(HighestAmount, Mine(S) \ {a}) \in Int
      BY <3>2, <3>3, SumType
    <3>6. /\ Reserved(u, S) = SumFunctionOnSet(HighestAmount, Mine(S))
          /\ Reserved(u, S \ {a}) = SumFunctionOnSet(HighestAmount, Mine(S) \ {a})
      BY <3>1 DEF Reserved, Mine
    <3> QED
      BY <1>1, <2>1, <3>4, <3>5, <3>6
  <2>2. CASE u # Winner[a]
    <3>1. Mine(S \ {a}) = Mine(S)
      BY <2>2
    <3> QED
      BY <1>2, <2>2, <3>1 DEF Reserved
  <2> QED
    BY <2>1, <2>2
<1>4. ASSUME NEW a \in Auction, HasBid(a), a \notin S
      PROVE  Reserved(u, S \union {a}) =
                Reserved(u, S) + IF u = Winner[a] THEN HighestAmount[a] ELSE 0
  <2>1. CASE u = Winner[a]
    <3>1. a \notin Mine(S) /\ Mine(S \union {a}) = Mine(S) \union {a}
      BY <1>4, <2>1
    <3>2. \A x \in Mine(S) \union {a} : HighestAmount[x] \in Int
      BY <1>1
    <3> HIDE DEF Mine
    <3>3. SumFunctionOnSet(HighestAmount, Mine(S) \union {a}) =
             HighestAmount[a] + SumFunctionOnSet(HighestAmount, Mine(S))
      BY <1>1, <3>1, <3>2, SumAdd
    <3>4. /\ Reserved(u, S) = SumFunctionOnSet(HighestAmount, Mine(S))
          /\ Reserved(u, S \union {a}) = SumFunctionOnSet(HighestAmount, Mine(S) \union {a})
      BY <3>1 DEF Reserved, Mine
    <3> QED
      BY <1>1, <1>2, <2>1, <3>3, <3>4
  <2>2. CASE u # Winner[a]
    <3>1. Mine(S \union {a}) = Mine(S)
      BY <2>2
    <3> QED
      BY <1>2, <2>2, <3>1 DEF Reserved
  <2> QED
    BY <2>1, <2>2
<1> QED
  BY <1>2, <1>3, <1>4

LEMMA ReservedNothing == ASSUME NEW u PROVE Reserved(u, {}) = 0
<1>1. {a \in {} : HasBid(a) /\ Winner[a] = u} = {}
  OBVIOUS
<1> QED
  BY <1>1, SumEmpty DEF Reserved

\* The leader of one auction only has nothing reserved for the others.
LEMMA ReservedElsewhere ==
    ASSUME OneLeadEach, NEW a \in Auction, HasBid(a),
           NEW S, S \subseteq Auction, a \notin S
    PROVE  Reserved(Winner[a], S) = 0
<1>1. {x \in S : HasBid(x) /\ Winner[x] = Winner[a]} = {}
  BY DEF OneLeadEach
<1> QED
  BY <1>1, SumEmpty DEF Reserved

LEMMA InitMoney == Init => MInv /\ FInv
<1> SUFFICES ASSUME Init PROVE MInv /\ FInv
  OBVIOUS
<1>1. RestTyped
  <2>1. \A u \in User : Reserved(u, Auction) \in Nat
    BY ReservedFacts
  <2> QED
    BY <2>1, AuctionFacts DEF Init, RestTyped
<1>2. BidsKnown /\ TasksAreFirst /\ OrderOnce
  BY Constants DEF Init, BidsKnown, TasksAreFirst, OrderOnce
<1>3. ASSUME NEW u \in User
      PROVE  /\ wallet[u].locked = Reserved(u, {a \in Auction : bid[a] = "ACTIVE"})
             /\ wallet[u].escrow = Reserved(u, {a \in Auction : orders[a] = 1})
  <2>1. {a \in Auction : orders[a] = 1} = {}
    BY DEF Init
  <2>2. \A a \in Auction : HasBid(a) => bid[a] = "ACTIVE"
    BY DEF Init
  <2>3. Reserved(u, {a \in Auction : bid[a] = "ACTIVE"}) = Reserved(u, Auction)
    <3>1. {x \in {a \in Auction : bid[a] = "ACTIVE"} : HasBid(x) /\ Winner[x] = u}
             = {x \in Auction : HasBid(x) /\ Winner[x] = u}
      BY <2>2
    <3> QED
      BY <3>1 DEF Reserved
  <2>4. wallet[u].locked = Reserved(u, Auction) /\ wallet[u].escrow = 0
    BY DEF Init
  <2> QED
    BY <2>1, <2>3, <2>4, ReservedNothing
<1>4. FundsFollowBids
  BY <1>3 DEF FundsFollowBids
<1> QED
  BY <1>1, <1>2, <1>4 DEF MInv, FInv

-----------------------------------------------------------------------------
\* Moving m from what u has locked to another balance of u.
LEMMA MoveLockedFacts ==
    ASSUME wallet \in [User -> [available: Nat, locked: Nat, escrow: Nat]],
           NEW w \in User, NEW m \in Nat, NEW to \in {"available", "escrow"},
           MoveLocked(w, m, to)
    PROVE  /\ wallet' \in [User -> [available: Nat, locked: Nat, escrow: Nat]]
           /\ \A u \in User :
                 /\ wallet'[u].locked = wallet[u].locked - IF u = w THEN m ELSE 0
                 /\ wallet'[u].escrow =
                       wallet[u].escrow + IF u = w /\ to = "escrow" THEN m ELSE 0
<1>1. wallet[w].locked >= m /\ wallet[w] \in [available: Nat, locked: Nat, escrow: Nat]
  BY DEF MoveLocked
<1>2. CASE to = "available"
  <2>1. wallet' = [wallet EXCEPT ![w].locked = @ - m, ![w].available = @ + m]
    BY <1>2 DEF MoveLocked
  <2> DEFINE row == [available |-> wallet[w].available + m, locked |-> wallet[w].locked - m,
                   escrow |-> wallet[w].escrow]
  <2>2. row \in [available: Nat, locked: Nat, escrow: Nat]
    BY <1>1
  <2>3. wallet'[w] = row /\ wallet' = [wallet EXCEPT ![w] = wallet'[w]]
    BY <1>1, <2>1
  <2>4. wallet' \in [User -> [available: Nat, locked: Nat, escrow: Nat]]
    <3> HIDE DEF row
    <3> QED
      BY <2>2, <2>3
  <2> QED
    BY <1>2, <2>1, <2>4
<1>3. CASE to = "escrow"
  <2>1. wallet' = [wallet EXCEPT ![w].locked = @ - m, ![w].escrow = @ + m]
    BY <1>3 DEF MoveLocked
  <2> DEFINE row == [available |-> wallet[w].available, locked |-> wallet[w].locked - m,
                   escrow |-> wallet[w].escrow + m]
  <2>2. row \in [available: Nat, locked: Nat, escrow: Nat]
    BY <1>1
  <2>3. wallet'[w] = row /\ wallet' = [wallet EXCEPT ![w] = wallet'[w]]
    BY <1>1, <2>1
  <2>4. wallet' \in [User -> [available: Nat, locked: Nat, escrow: Nat]]
    <3> HIDE DEF row
    <3> QED
      BY <2>2, <2>3
  <2> QED
    BY <1>3, <2>1, <2>4
<1> QED
  BY <1>2, <1>3

\* The task that moves funds, and what it moves.
LEMMA MovingTask ==
    ASSUME IInv, MInv, NEW t \in Task, EndReserveNotMet(t) \/ Settle(t)
    PROVE  /\ target[t] \in Auction /\ HasBid(target[t])
           /\ Winner[target[t]] \in User /\ HighestAmount[target[t]] \in Nat
           /\ HighestAmount[target[t]] > 0
           /\ wallet[Winner[target[t]]].locked >= HighestAmount[target[t]]
           /\ pc[t] \in {"unlock", "settle"}
           /\ wallet' \in [User -> [available: Nat, locked: Nat, escrow: Nat]]
           /\ \A u \in User :
                 LET m == IF u = Winner[target[t]] THEN HighestAmount[target[t]] ELSE 0
                 IN  /\ wallet'[u].locked = wallet[u].locked - m
                     /\ EndReserveNotMet(t) => wallet'[u].escrow = wallet[u].escrow
                     /\ Settle(t) => wallet'[u].escrow = wallet[u].escrow + m
<1> DEFINE a == target[t]
<1>1. pc[t] \in {"unlock", "settle"}
  BY DEF EndReserveNotMet, Settle, Writes
<1>2. a \in Auction /\ HasBid(a)
  BY <1>1 DEF IInv, TasksFit, Fits
<1>3. Winner[a] \in User /\ HighestAmount[a] \in Nat /\ HighestAmount[a] > 0
  BY <1>2, AuctionFacts, Constants DEF HasBid
<1>4. wallet \in [User -> [available: Nat, locked: Nat, escrow: Nat]]
  BY DEF MInv, RestTyped
<1>5. \/ EndReserveNotMet(t) /\ ~Settle(t) /\ MoveLocked(Winner[a], HighestAmount[a], "available")
      \/ Settle(t) /\ ~EndReserveNotMet(t) /\ MoveLocked(Winner[a], HighestAmount[a], "escrow")
  BY DEF EndReserveNotMet, Settle, Writes
<1>6. wallet[Winner[a]].locked >= HighestAmount[a]
  BY <1>5 DEF MoveLocked
<1> HIDE DEF a
<1>7. CASE EndReserveNotMet(t) /\ ~Settle(t) /\ MoveLocked(Winner[a], HighestAmount[a], "available")
  <2>1. /\ wallet' \in [User -> [available: Nat, locked: Nat, escrow: Nat]]
        /\ \A u \in User :
              /\ wallet'[u].locked =
                    wallet[u].locked - IF u = Winner[a] THEN HighestAmount[a] ELSE 0
              /\ wallet'[u].escrow = wallet[u].escrow + 0
    BY <1>3, <1>4, <1>7, MoveLockedFacts
  <2>2. \A u \in User : wallet[u].escrow + 0 = wallet[u].escrow
    BY <1>4
  <2> QED
    BY <1>1, <1>2, <1>3, <1>6, <1>7, <2>1, <2>2 DEF a
<1>8. CASE Settle(t) /\ ~EndReserveNotMet(t) /\ MoveLocked(Winner[a], HighestAmount[a], "escrow")
  <2>1. /\ wallet' \in [User -> [available: Nat, locked: Nat, escrow: Nat]]
        /\ \A u \in User :
              /\ wallet'[u].locked =
                    wallet[u].locked - IF u = Winner[a] THEN HighestAmount[a] ELSE 0
              /\ wallet'[u].escrow =
                    wallet[u].escrow + IF u = Winner[a] THEN HighestAmount[a] ELSE 0
    BY <1>3, <1>4, <1>8, MoveLockedFacts
  <2> QED
    BY <1>1, <1>2, <1>3, <1>6, <1>8, <2>1 DEF a
<1> QED
  BY <1>5, <1>7, <1>8

\* What any other step is to the money: nothing.
LEMMA QuietSteps ==
    ASSUME IInv, [Next]_vars
    PROVE  \/ \E t \in Task : EndReserveNotMet(t) \/ Settle(t)
           \/ /\ UNCHANGED <<wallet, orders>>
              /\ \/ UNCHANGED bid
                 \/ \E t \in Task : EndNoBids(t)
<1>1. ASSUME NEW f \in Finder, Find(f) \/ ClaimStep(f) \/ LoseClaim(f)
      PROVE  UNCHANGED <<wallet, orders, bid>>
  BY <1>1 DEF Find, get_auctions_to_settle, ClaimStep, Claim, AlreadyClaimed, CommitClaim,
              LoseClaim, db
<1>2. ASSUME NEW t \in Task, Start(t) \/ RereadReserve(t) \/ UnlockRefused(t) \/ Notify(t)
                             \/ Fail(t) \/ Crash(t)
      PROVE  UNCHANGED <<wallet, orders, bid>>
  BY <1>2 DEF Start, RereadReserve, UnlockRefused, Notify, Fail, Crash, Retry, db
<1>3. ASSUME NEW t \in Task, EndNoBids(t)
      PROVE  UNCHANGED <<wallet, orders>>
  BY <1>3 DEF EndNoBids
<1>4. ASSUME NEW a \in Auction, \/ EndTimePasses(a) \/ ExtendAuction(a)
                                \/ CancelAuction(a) \/ CancelAuctionAdmin(a)
      PROVE  UNCHANGED <<wallet, orders, bid>>
  BY <1>4 DEF EndTimePasses, ExtendAuction, CancelAuction, CancelAuctionAdmin, Cancel
<1>5. CASE UNCHANGED vars
  BY <1>5 DEF vars, db
<1> QED
  BY <1>1, <1>2, <1>3, <1>4, <1>5 DEF Next, Run

\* The other types.
LEMMA RestTypedKept ==
    ASSUME IInv, MInv, [Next]_vars
    PROVE  RestTyped'
<1>1. /\ ended \in [Auction -> BOOLEAN]
      /\ item \in [Auction -> {"IN_AUCTION", "SOLD", "APPROVED"}]
      /\ wallet \in [User -> [available: Nat, locked: Nat, escrow: Nat]]
      /\ found \in [Finder -> SUBSET Auction]
      /\ retries \in [Task -> 0..MaxRetries]
      /\ MaxRetries \in Nat
  BY AuctionFacts DEF MInv, RestTyped
<1>2. wallet' \in [User -> [available: Nat, locked: Nat, escrow: Nat]]
  BY <1>1, QuietSteps, MovingTask
<1>3. ASSUME NEW f \in Finder, Find(f) \/ ClaimStep(f) \/ LoseClaim(f)
      PROVE  found' \in [Finder -> SUBSET Auction] /\ UNCHANGED <<ended, item, retries>>
  <2>1. UNCHANGED <<ended, item, retries>>
    BY <1>3 DEF Find, get_auctions_to_settle, ClaimStep, Claim, AlreadyClaimed, CommitClaim,
                LoseClaim, db, tasks
  <2>2. CASE Find(f)
    <3>1. PICK stale \in SUBSET InProgress :
             found' = [found EXCEPT ![f] =
                          {a \in Auction : status[a] = "ACTIVE" /\ ended[a]} \union stale]
      BY <2>2 DEF Find, get_auctions_to_settle
    <3>2. stale \subseteq Auction
      BY DEF InProgress
    <3> QED
      BY <1>1, <2>1, <3>1, <3>2
  <2>3. CASE \/ \E a \in Auction, t \in Task : Claim(f, a, t)
             \/ \E a \in Auction : AlreadyClaimed(f, a)
    BY <1>1, <2>1, <2>3 DEF Claim, AlreadyClaimed
  <2>4. CASE CommitClaim(f) \/ LoseClaim(f)
    BY <1>1, <2>1, <2>4 DEF CommitClaim, LoseClaim
  <2> QED
    BY <1>3, <2>2, <2>3, <2>4 DEF ClaimStep
<1>4. ASSUME NEW t \in Task, Retry(t)
      PROVE  /\ retries' \in [Task -> 0..MaxRetries]
             /\ UNCHANGED <<ended, item, found>>
  BY <1>1, <1>4 DEF Retry, db, finders
<1>5. ASSUME NEW t \in Task, Run(t) \/ Fail(t) \/ Crash(t)
      PROVE  /\ retries' \in [Task -> 0..MaxRetries]
             /\ item' \in [Auction -> {"IN_AUCTION", "SOLD", "APPROVED"}]
             /\ UNCHANGED <<ended, found>>
  <2>1. CASE UnlockRefused(t) \/ Fail(t)
    BY <1>1, <1>4, <2>1 DEF UnlockRefused, Fail
  <2>2. CASE Start(t) \/ RereadReserve(t) \/ Notify(t) \/ Crash(t)
    BY <1>1, <2>2 DEF Start, RereadReserve, Notify, Crash, db, finders
  <2>3. CASE EndNoBids(t) \/ EndReserveNotMet(t) \/ Settle(t)
    BY <1>1, <2>3 DEF EndNoBids, EndReserveNotMet, Settle, Writes, Record, finders
  <2> QED
    BY <1>5, <2>1, <2>2, <2>3 DEF Run
<1>6. ASSUME NEW a \in Auction, \/ EndTimePasses(a) \/ ExtendAuction(a)
                                \/ CancelAuction(a) \/ CancelAuctionAdmin(a)
      PROVE  /\ ended' \in [Auction -> BOOLEAN]
             /\ item' \in [Auction -> {"IN_AUCTION", "SOLD", "APPROVED"}]
             /\ UNCHANGED <<found, retries>>
  <2>1. CASE EndTimePasses(a)
    <3>1. ended' = [ended EXCEPT ![a] = TRUE] /\ UNCHANGED <<item, found, retries>>
      BY <2>1 DEF EndTimePasses, finders, tasks
    <3> QED
      BY <1>1, <3>1
  <2>2. CASE ExtendAuction(a)
    <3>1. ended' = [ended EXCEPT ![a] = FALSE] /\ UNCHANGED <<item, found, retries>>
      BY <2>2 DEF ExtendAuction, finders, tasks
    <3> QED
      BY <1>1, <3>1
  <2>3. CASE Cancel(a)
    <3>1. item' = [item EXCEPT ![a] = "APPROVED"] /\ UNCHANGED <<ended, found, retries>>
      BY <2>3 DEF Cancel, finders, tasks
    <3> QED
      BY <1>1, <3>1
  <2> QED
    BY <1>6, <2>1, <2>2, <2>3 DEF CancelAuction, CancelAuctionAdmin
<1>7. /\ ended' \in [Auction -> BOOLEAN]
      /\ item' \in [Auction -> {"IN_AUCTION", "SOLD", "APPROVED"}]
      /\ found' \in [Finder -> SUBSET Auction]
      /\ retries' \in [Task -> 0..MaxRetries]
  <2>1. CASE \E f \in Finder : Find(f) \/ ClaimStep(f) \/ LoseClaim(f)
    BY <1>1, <1>3, <2>1
  <2>2. CASE \E t \in Task : Run(t) \/ Fail(t) \/ Crash(t)
    BY <1>1, <1>5, <2>2
  <2>3. CASE \E a \in Auction : \/ EndTimePasses(a) \/ ExtendAuction(a)
                                \/ CancelAuction(a) \/ CancelAuctionAdmin(a)
    BY <1>1, <1>6, <2>3
  <2>4. CASE UNCHANGED vars
    BY <1>1, <2>4 DEF vars, db, finders, tasks
  <2> QED
    BY <2>1, <2>2, <2>3, <2>4 DEF Next
<1> QED
  BY <1>2, <1>7 DEF RestTyped

\* A bid that is there stays there, and a task that records an outcome marks it.
LEMMA BidSteps ==
    ASSUME IInv, MInv, [Next]_vars
    PROVE  \/ UNCHANGED bid
           \/ \E t \in Task :
                 /\ target[t] \in Auction /\ Busy(t)
                 /\ pc' = [pc EXCEPT ![t] = pc'[t]] /\ pc'[t] \in {"notify", "done"}
                 /\ UNCHANGED target
                 /\ \/ bid' = [bid EXCEPT ![target[t]] = None] /\ ~HasBid(target[t])
                    \/ bid' = [bid EXCEPT ![target[t]] = "LOST"]
                    \/ bid' = [bid EXCEPT ![target[t]] = "WON"]
<1>1. pc \in [Task -> Location]
  BY DEF IInv, Typed
<1>2. ASSUME NEW t \in Task, EndNoBids(t)
      PROVE  /\ target[t] \in Auction /\ Busy(t) /\ ~HasBid(target[t])
             /\ pc' = [pc EXCEPT ![t] = "done"]
             /\ bid' = [bid EXCEPT ![target[t]] = None] /\ UNCHANGED target
  BY <1>2 DEF EndNoBids, Writes, Goto, Record, Busy, IInv, TasksFit, Fits
<1>3. ASSUME NEW t \in Task, EndReserveNotMet(t) \/ Settle(t)
      PROVE  /\ target[t] \in Auction /\ Busy(t)
             /\ pc' = [pc EXCEPT ![t] = "notify"] /\ UNCHANGED target
             /\ \/ bid' = [bid EXCEPT ![target[t]] = "LOST"]
                \/ bid' = [bid EXCEPT ![target[t]] = "WON"]
  BY <1>3 DEF EndReserveNotMet, Settle, Writes, Goto, Record, Busy, IInv, TasksFit, Fits
<1>4. CASE \E t \in Task : EndNoBids(t)
  BY <1>1, <1>2, <1>4
<1>5. CASE \E t \in Task : EndReserveNotMet(t) \/ Settle(t)
  BY <1>1, <1>3, <1>5
<1> QED
  BY <1>4, <1>5, QuietSteps

LEMMA BidsKnownKept ==
    ASSUME IInv, MInv, [Next]_vars
    PROVE  BidsKnown'
<1>1. bid \in [Auction -> {"ACTIVE", "WON", "LOST", None}] /\ None \notin {"WON", "LOST"}
  BY Constants DEF IInv, Typed
<1>2. \A a \in Auction : HasBid(a) => bid[a] # None
  BY DEF MInv, BidsKnown
<1>3. \A a \in Auction : HasBid(a) => bid'[a] # None
  BY <1>1, <1>2, BidSteps
<1> QED
  BY <1>3 DEF BidsKnown, HasBid

\* Without lost claims a task that will move funds is the only one on its auction,
\* and has seen it before any outcome was recorded.
LEMMA TasksAreFirstKept ==
    ASSUME IInv, MInv, [Next]_vars, MaxClaimLosses = 0
    PROVE  TasksAreFirst'
<1> DEFINE Moving == {"reserve", "unlock", "settle"}
<1>1. /\ pc \in [Task -> Location] /\ target \in [Task -> Auction \union {None}]
      /\ bid \in [Auction -> {"ACTIVE", "WON", "LOST", None}]
      /\ Alone /\ TasksAreFirst
      /\ \A t \in Task : pc[t] # "unused" => target[t] \in Auction
  BY DEF IInv, Typed, MInv, TasksFit, Fits
<1>2. ASSUME UNCHANGED bid,
             \A s \in Task : pc'[s] \in Moving =>
                 pc[s] \in Moving /\ target'[s] = target[s]
      PROVE  TasksAreFirst'
  BY <1>1, <1>2 DEF TasksAreFirst
<1>3. ASSUME NEW f \in Finder, Find(f) \/ ClaimStep(f) \/ LoseClaim(f)
      PROVE  TasksAreFirst'
  <2>1. CASE \E a \in Auction, t \in Task : Claim(f, a, t)
    <3>1. PICK a \in Auction, t \in Task : Claim(f, a, t)
      BY <2>1
    <3>2. /\ pc' = [pc EXCEPT ![t] = "queued"] /\ target' = [target EXCEPT ![t] = a]
          /\ UNCHANGED bid
      BY <3>1 DEF Claim, db
    <3> QED
      BY <1>1, <1>2, <3>2
  <2>2. CASE \/ Find(f) \/ CommitClaim(f) \/ LoseClaim(f)
             \/ \E a \in Auction : AlreadyClaimed(f, a)
    <3>1. UNCHANGED <<bid, pc, target>>
      BY <2>2 DEF Find, get_auctions_to_settle, AlreadyClaimed, CommitClaim, LoseClaim,
                  db, tasks
    <3> QED
      BY <1>2, <3>1
  <2> QED
    BY <1>3, <2>1, <2>2 DEF ClaimStep
<1>4. ASSUME NEW t \in Task, Start(t)
      PROVE  TasksAreFirst'
  <2> DEFINE a == target[t]
  <2>1. /\ pc[t] = "queued" /\ a \in Auction /\ UNCHANGED <<bid, target>>
        /\ \A s \in Task : s # t => pc'[s] = pc[s]
    BY <1>1, <1>4 DEF Start, Goto, db
  <2>2. pc'[t] \in Moving => status[a] \notin Terminal /\ HasBid(a)
    BY <1>1, <1>4 DEF Start, Goto
  <2>3. pc'[t] \in Moving => bid[a] = "ACTIVE"
    BY <1>1, <2>1, <2>2 DEF IInv, OneOutcome, Terminal, MInv, BidsKnown
  <2> QED
    BY <1>1, <2>1, <2>3 DEF TasksAreFirst
<1>5. ASSUME NEW t \in Task, RereadReserve(t)
      PROVE  TasksAreFirst'
  <2>1. /\ pc[t] = "reserve" /\ UNCHANGED <<bid, target>>
        /\ \A s \in Task : s # t => pc'[s] = pc[s]
    BY <1>1, <1>5 DEF RereadReserve, Goto, db
  <2> QED
    BY <1>2, <2>1
<1>6. ASSUME NEW t \in Task, NEW l, l \notin Moving, Goto(t, l), UNCHANGED <<bid, target>>
      PROVE  TasksAreFirst'
  <2>1. \A s \in Task : pc'[s] = IF s = t THEN l ELSE pc[s]
    BY <1>1, <1>6 DEF Goto
  <2> QED
    BY <1>2, <1>6, <2>1
<1>7. ASSUME NEW t \in Task, \/ UnlockRefused(t) \/ Fail(t) \/ Notify(t) \/ Crash(t)
      PROVE  TasksAreFirst'
  BY <1>6, <1>7 DEF UnlockRefused, Fail, Notify, Crash, Retry, db
<1>8. ASSUME NEW t \in Task, EndNoBids(t) \/ EndReserveNotMet(t) \/ Settle(t)
      PROVE  TasksAreFirst'
  <2> DEFINE a == target[t]
  <2>1. /\ pc[t] # "unused" /\ a \in Auction /\ UNCHANGED target
        /\ \E l \in {"done", "notify"} : pc' = [pc EXCEPT ![t] = l]
        /\ \E b : bid' = [bid EXCEPT ![a] = b]
    BY <1>1, <1>8 DEF EndNoBids, EndReserveNotMet, Settle, Writes, Goto, Record
  <2> SUFFICES ASSUME NEW s \in Task, pc'[s] \in Moving
               PROVE  bid'[target[s]] = "ACTIVE"
    BY <2>1 DEF TasksAreFirst
  <2>2. s # t /\ pc[s] \in Moving
    BY <1>1, <2>1
  <2>3. target[s] \in Auction /\ target[s] # a
    BY <1>1, <2>1, <2>2 DEF Alone, Busy
  <2> QED
    BY <1>1, <2>1, <2>2, <2>3 DEF TasksAreFirst
<1>9. ASSUME NEW a \in Auction, \/ EndTimePasses(a) \/ ExtendAuction(a)
                                \/ CancelAuction(a) \/ CancelAuctionAdmin(a)
      PROVE  TasksAreFirst'
  <2>1. UNCHANGED <<bid, pc, target>>
    BY <1>9 DEF EndTimePasses, ExtendAuction, CancelAuction, CancelAuctionAdmin, Cancel, tasks
  <2> QED
    BY <1>2, <2>1
<1>10. CASE UNCHANGED vars
  BY <1>2, <1>10 DEF vars, db, tasks
<1> QED
  BY <1>3, <1>4, <1>5, <1>7, <1>8, <1>9, <1>10 DEF Next, Run

-----------------------------------------------------------------------------
\* The bid whose funds are moved leads, and its auction has no order.
LEMMA MovesLeading ==
    ASSUME IInv, MInv, FInv, MaxClaimLosses = 0 \/ OneLeadEach,
           NEW t \in Task, EndReserveNotMet(t) \/ Settle(t)
    PROVE  target[t] \in Leading /\ target[t] \notin Sold /\ orders[target[t]] = 0
<1> DEFINE a == target[t]
<1>1. /\ a \in Auction /\ HasBid(a) /\ Winner[a] \in User
      /\ HighestAmount[a] \in Nat /\ HighestAmount[a] > 0
      /\ wallet[Winner[a]].locked >= HighestAmount[a] /\ pc[t] \in {"unlock", "settle"}
  BY MovingTask
<1>2. bid[a] = "ACTIVE"
  <2>1. CASE MaxClaimLosses = 0
    BY <1>1, <2>1 DEF MInv, TasksAreFirst
  <2>2. CASE OneLeadEach
    <3>1. a \notin Leading => Reserved(Winner[a], Leading) = 0
      BY <1>1, <2>2, ReservedElsewhere DEF Leading
    <3>2. wallet[Winner[a]].locked = Reserved(Winner[a], Leading)
      BY <1>1 DEF FInv, FundsFollowBids, Leading
    <3>3. a \in Leading
      BY <1>1, <3>1, <3>2
    <3> QED
      BY <3>3 DEF Leading
  <2> QED
    BY <2>1, <2>2
<1>3. orders[a] = 0
  BY <1>1, <1>2 DEF IInv, OneOutcome, Typed
<1> QED
  BY <1>1, <1>2, <1>3 DEF Leading, Sold

LEMMA MoveKeepsFunds ==
    ASSUME IInv, MInv, FInv, MaxClaimLosses = 0 \/ OneLeadEach,
           NEW t \in Task, EndReserveNotMet(t) \/ Settle(t)
    PROVE  FInv'
<1> DEFINE a == target[t]
           m(u) == IF u = Winner[a] THEN HighestAmount[a] ELSE 0
<1>1. a \in Auction /\ HasBid(a) /\ a \in Leading /\ a \notin Sold /\ orders[a] = 0
  BY MovingTask, MovesLeading
<1>2. /\ bid \in [Auction -> {"ACTIVE", "WON", "LOST", None}] /\ orders \in [Auction -> Nat]
      /\ wallet \in [User -> [available: Nat, locked: Nat, escrow: Nat]]
  BY DEF IInv, Typed, MInv, RestTyped
<1>3. Leading' = Leading \ {a}
  <2>1. bid' = [bid EXCEPT ![a] = "LOST"] \/ bid' = [bid EXCEPT ![a] = "WON"]
    BY DEF EndReserveNotMet, Settle, Record
  <2> HIDE DEF a
  <2> QED
    BY <1>1, <1>2, <2>1 DEF Leading
<1>4. /\ EndReserveNotMet(t) => Sold' = Sold /\ orders' = orders
      /\ Settle(t) => Sold' = Sold \union {a} /\ orders' = [orders EXCEPT ![a] = 1]
  <2>1. EndReserveNotMet(t) => orders' = orders
    BY DEF EndReserveNotMet
  <2>2. Settle(t) => orders' = [orders EXCEPT ![a] = 1]
    BY <1>1, <1>2 DEF Settle, CreateOrder
  <2> HIDE DEF a
  <2>3. EndReserveNotMet(t) => Sold' = Sold
    BY <2>1 DEF Sold
  <2>4. Settle(t) => Sold' = Sold \union {a}
    BY <1>1, <1>2, <2>2 DEF Sold
  <2> QED
    BY <2>1, <2>2, <2>3, <2>4
<1>5. ASSUME NEW u \in User
      PROVE  wallet'[u].locked = Reserved(u, Leading') /\ wallet'[u].escrow = Reserved(u, Sold')
  <2>1. /\ wallet'[u].locked = wallet[u].locked - m(u)
        /\ EndReserveNotMet(t) => wallet'[u].escrow = wallet[u].escrow
        /\ Settle(t) => wallet'[u].escrow = wallet[u].escrow + m(u)
    BY MovingTask
  <2>2. wallet[u].locked = Reserved(u, Leading) /\ wallet[u].escrow = Reserved(u, Sold)
    BY DEF FInv, FundsFollowBids, Leading, Sold
  <2>3. Leading \subseteq Auction /\ Sold \subseteq Auction
    BY DEF Leading, Sold
  <2>4. /\ Reserved(u, Leading \ {a}) = Reserved(u, Leading) - m(u)
        /\ Reserved(u, Sold \union {a}) = Reserved(u, Sold) + m(u)
    BY <1>1, <2>3, ReservedFacts
  <2> HIDE DEF a, m
  <2> QED
    BY <1>3, <1>4, <2>1, <2>2, <2>4
<1>6. FundsFollowBids'
  BY <1>5 DEF FundsFollowBids, Leading, Sold
<1>7. OrderOnce'
  <2>1. \A x \in Auction : orders[x] <= 1
    BY DEF FInv, OrderOnce
  <2>2. \A x \in Auction : orders'[x] <= 1
    BY <1>1, <1>2, <1>4, <2>1
  <2> QED
    BY <2>2 DEF OrderOnce
<1> QED
  BY <1>6, <1>7 DEF FInv

LEMMA QuietKeepsFunds ==
    ASSUME IInv, MInv, FInv, UNCHANGED <<wallet, orders>>,
           UNCHANGED bid \/ \E t \in Task : EndNoBids(t)
    PROVE  FInv'
<1>1. \A a \in Auction : HasBid(a) => bid'[a] = bid[a]
  <2>1. ASSUME NEW t \in Task, EndNoBids(t)
        PROVE  \A a \in Auction : HasBid(a) => bid'[a] = bid[a]
    <3>1. bid' = [bid EXCEPT ![target[t]] = None] /\ ~HasBid(target[t])
      BY <2>1 DEF EndNoBids, Writes, Record, IInv, TasksFit, Fits
    <3> QED
      BY <3>1 DEF IInv, Typed
  <2> QED
    BY <2>1
<1>2. ASSUME NEW u
      PROVE  Reserved(u, {a \in Auction : bid'[a] = "ACTIVE"})
                = Reserved(u, {a \in Auction : bid[a] = "ACTIVE"})
  <2>1. {x \in {a \in Auction : bid'[a] = "ACTIVE"} : HasBid(x) /\ Winner[x] = u}
           = {x \in {a \in Auction : bid[a] = "ACTIVE"} : HasBid(x) /\ Winner[x] = u}
    BY <1>1
  <2> QED
    BY <2>1 DEF Reserved
<1>3. FundsFollowBids'
  BY <1>2 DEF FInv, FundsFollowBids
<1>4. OrderOnce'
  BY DEF FInv, OrderOnce
<1> QED
  BY <1>3, <1>4 DEF FInv

LEMMA MoneyInvariance ==
    ASSUME MaxClaimLosses = 0 \/ OneLeadEach
    PROVE  Spec => [](IInv /\ MInv /\ FInv)
<1>1. IInv /\ MInv /\ FInv /\ [Next]_vars => MInv' /\ FInv'
  <2> SUFFICES ASSUME IInv, MInv, FInv, [Next]_vars
               PROVE  MInv' /\ FInv'
    OBVIOUS
  <2>1. MInv'
    BY RestTypedKept, BidsKnownKept, TasksAreFirstKept DEF MInv
  <2>2. FInv'
    BY QuietSteps, QuietKeepsFunds, MoveKeepsFunds
  <2> QED
    BY <2>1, <2>2
<1> QED
  BY <1>1, InitMoney, Invariance, PTL DEF Spec

LEMMA TypeInvariance == Spec => [](IInv /\ MInv)
<1>1. IInv /\ MInv /\ [Next]_vars => MInv'
  BY RestTypedKept, BidsKnownKept, TasksAreFirstKept DEF MInv
<1> QED
  BY <1>1, InitMoney, Invariance, PTL DEF Spec

-----------------------------------------------------------------------------
(***************************************************************************)
(* The theorems.                                                           *)
(***************************************************************************)

\* Every state is well typed: no settlement, refused reserve, retry or second message
\* takes a wallet below zero, whatever else was lost.
THEOREM TypeCorrect == Spec => []TypeOK
<1>1. IInv /\ MInv => TypeOK
  BY DEF IInv, Typed, MInv, RestTyped, TypeOK
<1> QED
  BY <1>1, TypeInvariance, PTL

\* The outcomes of an auction exclude one another: an order means the bid won, a
\* reserve that was not met that it lost, whichever of the workers, messages,
\* retries and cancellations came first.
THEOREM OutcomesExclude == Spec => []OneOutcome
<1>1. IInv => OneOutcome
  BY DEF IInv
<1> QED
  BY Invariance, <1>1, PTL

\* As long as no claim loses its commit, or nobody leads two auctions, settlement is
\* idempotent: however many workers list an auction, however often its task fails and
\* is retried, whoever wins and whoever cancels, there is one order at most.
THEOREM SettledOnce == MaxClaimLosses = 0 \/ OneLeadEach => (Spec => []OrderOnce)
<1> SUFFICES ASSUME MaxClaimLosses = 0 \/ OneLeadEach PROVE Spec => []OrderOnce
  OBVIOUS
<1>1. IInv /\ MInv /\ FInv => OrderOnce
  BY DEF FInv
<1> QED
  BY MoneyInvariance, <1>1, PTL

\* Under the same hypothesis, which is what the claim has to provide for leaders of
\* several auctions: the funds of each wallet are those of the bids that lead and of
\* the orders that were made, through every race, retry and death of a worker.
THEOREM FundsAreBacked == MaxClaimLosses = 0 \/ OneLeadEach => (Spec => []FundsFollowBids)
<1> SUFFICES ASSUME MaxClaimLosses = 0 \/ OneLeadEach PROVE Spec => []FundsFollowBids
  OBVIOUS
<1>1. IInv /\ MInv /\ FInv => FundsFollowBids
  BY DEF FInv
<1> QED
  BY MoneyInvariance, <1>1, PTL

-----------------------------------------------------------------------------
(***************************************************************************)
(* Settlement implements Sale.                                             *)
(***************************************************************************)

LEMMA InitSale == Init => Promised!Init
<1> SUFFICES ASSUME Init PROVE Promised!Init
  OBVIOUS
<1>1. \A a \in Auction : Result(a) = "pending"
  BY Constants DEF Init, Result
<1>2. wallet = [u \in User |->
           [available |-> 0, locked |-> [v \in User |-> Reserved(v, Auction)][u], escrow |-> 0]]
  BY DEF Init
<1> QED
  BY <1>1, <1>2 DEF Promised!Init

\* The result of an auction that a task decides, and nobody else's, becomes r.
LEMMA OneResult ==
    ASSUME IInv, NEW a \in Auction, orders[a] = 0,
           NEW b \in {"WON", "LOST"}, NEW n \in {0, 1}, n = 1 <=> b = "WON",
           bid' = [bid EXCEPT ![a] = b], orders' = [orders EXCEPT ![a] = n],
           NEW r, r = IF n = 1 THEN "sold" ELSE "refused"
    PROVE  [x \in Auction |-> Result(x)]' = [[x \in Auction |-> Result(x)] EXCEPT ![a] = r]
<1>1. Result(a)' = r
  BY DEF IInv, Typed, Result
<1>2. \A x \in Auction \ {a} : Result(x)' = Result(x)
  BY DEF IInv, Typed, Result
<1> QED
  BY <1>1, <1>2

\* A settlement sells, a reserve that was not met refuses.
LEMMA DecidesOnce ==
    ASSUME IInv, MInv, FInv, MaxClaimLosses = 0 \/ OneLeadEach,
           NEW t \in Task, EndReserveNotMet(t) \/ Settle(t)
    PROVE  Promised!Sell(target[t]) \/ Promised!Refuse(target[t])
<1> DEFINE a == target[t]
<1>1. /\ a \in Auction /\ HasBid(a) /\ bid[a] = "ACTIVE" /\ orders[a] = 0
      /\ HighestAmount[a] \in Nat /\ ReservePrice[a] \in Nat
  BY MovingTask, MovesLeading, Constants DEF Leading
<1>2. HighestAmount[a] > 0 /\ Result(a) = "pending"
  BY <1>1 DEF HasBid, Result
<1>3. CASE Settle(t)
  <2>1. /\ bid' = [bid EXCEPT ![a] = "WON"]
        /\ orders' = [orders EXCEPT ![a] = 1]
        /\ MoveLocked(Winner[a], HighestAmount[a], "escrow")
        /\ pc[t] = "settle"
    BY <1>1, <1>3 DEF Settle, CreateOrder, Record, Writes
  <2>2. ~ReserveNotMet(a)
    BY <2>1 DEF IInv, TasksFit, Fits
  <2> HIDE DEF a
  <2>3. [x \in Auction |-> Result(x)]' = [[x \in Auction |-> Result(x)] EXCEPT ![a] = "sold"]
    BY <1>1, <2>1, OneResult
  <2>4. Promised!Sell(a)
    BY <1>1, <1>2, <2>1, <2>2, <2>3
       DEF Promised!Sell, Promised!Decide, MoveLocked, ReserveNotMet
  <2> QED
    BY <2>4 DEF a
<1>4. CASE EndReserveNotMet(t)
  <2>1. /\ bid' = [bid EXCEPT ![a] = "LOST"]
        /\ UNCHANGED orders
        /\ MoveLocked(Winner[a], HighestAmount[a], "available")
        /\ pc[t] = "unlock"
    BY <1>4 DEF EndReserveNotMet, Record, Writes
  <2>2. ReserveNotMet(a)
    BY <2>1 DEF IInv, TasksFit, Fits
  <2> HIDE DEF a
  <2>3. orders' = [orders EXCEPT ![a] = 0]
    BY <1>1, <2>1 DEF IInv, Typed
  <2>4. [x \in Auction |-> Result(x)]' =
           [[x \in Auction |-> Result(x)] EXCEPT ![a] = "refused"]
    <3>1. (0 = 1 <=> "LOST" = "WON") /\ "refused" = IF 0 = 1 THEN "sold" ELSE "refused"
      OBVIOUS
    <3> QED
      BY <1>1, <2>1, <2>3, <3>1, OneResult
  <2>5. Promised!Refuse(a)
    BY <1>1, <1>2, <2>1, <2>2, <2>4
       DEF Promised!Refuse, Promised!Decide, MoveLocked, ReserveNotMet
  <2> QED
    BY <2>5 DEF a
<1> QED
  BY <1>3, <1>4

\* Every other step leaves the result of each auction as it is.
LEMMA QuietDecidesNothing ==
    ASSUME IInv, UNCHANGED <<wallet, orders>>,
           UNCHANGED bid \/ \E t \in Task : EndNoBids(t)
    PROVE  UNCHANGED Promised!sale
<1>1. \A a \in Auction : bid'[a] = "LOST" <=> bid[a] = "LOST"
  <2>1. ASSUME NEW t \in Task, EndNoBids(t)
        PROVE  \A a \in Auction : bid'[a] = "LOST" <=> bid[a] = "LOST"
    <3>1. bid' = [bid EXCEPT ![target[t]] = None] /\ ~HasBid(target[t])
      BY <2>1 DEF EndNoBids, Writes, Record, IInv, TasksFit, Fits
    <3> QED
      BY <3>1, Constants DEF IInv, Typed, BidsFit
  <2> QED
    BY <2>1
<1>2. \A a \in Auction : Result(a)' = Result(a)
  BY <1>1 DEF Result
<1>3. [a \in Auction |-> Result(a)]' = [a \in Auction |-> Result(a)]
  BY <1>2
<1> QED
  BY <1>3 DEF Promised!sale

\* Under the hypothesis of FundsAreBacked, every behaviour of the workers, messages,
\* retries and cancellations is one of Sale: funds move once per auction, in the step
\* that decides it, and the decision is the one its reserve price calls for.
THEOREM SalesAreAtomic == MaxClaimLosses = 0 \/ OneLeadEach => (Spec => SaleIsAtomic)
<1> SUFFICES ASSUME MaxClaimLosses = 0 \/ OneLeadEach PROVE Spec => SaleIsAtomic
  OBVIOUS
<1>1. IInv /\ MInv /\ FInv /\ [Next]_vars => [Promised!Next]_(Promised!sale)
  <2> SUFFICES ASSUME IInv, MInv, FInv, [Next]_vars
               PROVE  [Promised!Next]_(Promised!sale)
    OBVIOUS
  <2>1. ASSUME NEW t \in Task, EndReserveNotMet(t) \/ Settle(t)
        PROVE  Promised!Next
    BY <2>1, MovingTask, DecidesOnce DEF Promised!Next
  <2> QED
    BY <2>1, QuietSteps, QuietDecidesNothing
<1> QED
  BY <1>1, InitSale, MoneyInvariance, PTL DEF Spec, SaleIsAtomic, Promised!Spec
=============================================================================
