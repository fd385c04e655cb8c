--------------------------- MODULE EnglishAuction ---------------------------
(***************************************************************************)
(* What place_bid promises: an auction is open or closed and has a leading *)
(* offer; a bid replaces the leader in one step, by the rules, while the   *)
(* auction is open; and a closed auction keeps its leader for ever.        *)
(*                                                                         *)
(* No requests, locks, snapshots or bid rows: Bidding implements this.     *)
(***************************************************************************)
EXTENDS Integers

CONSTANTS
    User, Auction, Amount, Seller, StartingPrice,
    Increment(_),  \* by how much a bid must exceed the amount it beats
    NoOffer

VARIABLES
    open,    \* does the auction take bids?
    offer    \* the leading bidder and amount of each auction, or NoOffer

bidding == <<open, offer>>

Init ==
    /\ open = [a \in Auction |-> TRUE]
    /\ offer = [a \in Auction |-> NoOffer]

Wins(a, u, m) ==
    IF offer[a] = NoOffer
    THEN m >= StartingPrice[a]
    ELSE /\ u # offer[a].bidder
         /\ m >= offer[a].amount + Increment(offer[a].amount)

Bid(a, u, m) ==
    /\ open[a]
    /\ u # Seller[a]
    /\ Wins(a, u, m)
    /\ offer' = [offer EXCEPT ![a] = [bidder |-> u, amount |-> m]]
    /\ UNCHANGED open

Close(a) ==
    /\ open[a]
    /\ open' = [open EXCEPT ![a] = FALSE]
    /\ UNCHANGED offer

Next ==
    \E a \in Auction : Close(a) \/ \E u \in User, m \in Amount : Bid(a, u, m)

Spec == Init /\ [][Next]_bidding
=============================================================================
