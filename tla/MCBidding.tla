------------------------------ MODULE MCBidding ------------------------------
(***************************************************************************)
(* Instances of Bidding for TLC.  One seller; the amounts are small        *)
(* integers and the increment table covers part of them, so that the       *)
(* lookup takes both branches.                                             *)
(***************************************************************************)
EXTENDS Bidding, TLC

CONSTANTS seller, ann, ben, a1, a2, r1, r2, r3, r4

MCSeller == [a \in Auction |-> seller]
MCStartingPrice == [a \in Auction |-> 1]
MCFunds == [u \in User |-> CASE u = ann -> 4 [] u = ben -> 3 [] OTHER -> 0]
MCBidLimit == [u \in User |-> IF u = ann THEN 4 ELSE 3]

MCIncrementTiers ==
    {[min_value |-> 0, max_value |-> 1, increment |-> 1, is_active |-> TRUE],
     [min_value |-> 1, max_value |-> 2, increment |-> 2, is_active |-> FALSE]}

Symmetry == Permutations(Request)

-----------------------------------------------------------------------------
(***************************************************************************)
(* Two auctions that have a leader each, in states that Spec reaches from  *)
(* Init: ann leads a1 with r1; ben leads a2 with r2, or ann does, whose    *)
(* two bids read the wallet before either of them was committed, so that   *)
(* one update of it is lost.                                               *)
(***************************************************************************)
LeadersInit ==
    \E second \in {ann, ben} :
    /\ status = [a \in Auction |-> "ACTIVE"]
    /\ ended = [a \in Auction |-> FALSE]
    /\ highest_bid = [a \in Auction |-> IF a = a1 THEN r1 ELSE r2]
    /\ bids = [r \in Request |-> IF r \in {r1, r2} THEN "ACTIVE" ELSE None]
    /\ wallet = [u \in User |->
                    IF u \in {ann, second} THEN [available |-> Funds[u] - 1, locked |-> 1]
                    ELSE [available |-> Funds[u], locked |-> 0]]
    /\ ledger = [u \in User |->
                    (IF u = ann THEN -1 ELSE 0) - (IF u = second THEN 1 ELSE 0)]
    /\ transfers = 0
    /\ auction_lock = [a \in Auction |-> None]
    /\ wallet_lock = [u \in User |-> None]
    /\ pc = [r \in Request |-> IF r \in {r1, r2} THEN "accepted" ELSE "idle"]
    /\ req = [r \in Request |->
                CASE r = r1 -> [auction |-> a1, bidder |-> ann, amount |-> 1]
                  [] r = r2 -> [auction |-> a2, bidder |-> second, amount |-> 1]
                  [] OTHER -> NoCall]
    /\ current_highest = [r \in Request |-> None]
    /\ snapshot = [r \in Request |->
                    CASE r = r1 -> [available |-> Funds[ann], locked |-> 0]
                      [] r = r2 -> [available |-> Funds[second], locked |-> 0]
                      [] OTHER -> NoWallet]

LeadersSpec == LeadersInit /\ [][Next]_vars /\ Fairness
=============================================================================
