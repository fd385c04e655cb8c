-------------------------------- MODULE Sale --------------------------------
(***************************************************************************)
(* What settling an auction promises its bidders: the funds pledged for a  *)
(* bid move once, in one step with the result, into escrow when the        *)
(* auction sells and back to their owner when the reserve price is not     *)
(* met; and a result is final.                                             *)
(*                                                                         *)
(* No workers, messages, claims or retries: Settlement implements this.    *)
(***************************************************************************)
EXTENDS Integers

CONSTANTS
    User, Auction,
    Winner, Price,   \* who leads each auction and with what amount, 0 for nobody
    ReservePrice,
    Pledged          \* what each user's bids have locked

VARIABLES
    result,          \* "pending", "sold" or "refused"
    wallet

sale == <<result, wallet>>

Init ==
    /\ result = [a \in Auction |-> "pending"]
    /\ wallet = [u \in User |-> [available |-> 0, locked |-> Pledged[u], escrow |-> 0]]

Decide(a, verdict, to) ==
    /\ Price[a] > 0
    /\ result[a] = "pending"
    /\ result' = [result EXCEPT ![a] = verdict]
    /\ wallet' = [wallet EXCEPT ![Winner[a]].locked = @ - Price[a],
                                ![Winner[a]][to] = @ + Price[a]]

Sell(a) == Price[a] >= ReservePrice[a] /\ Decide(a, "sold", "escrow")

Refuse(a) == Price[a] < ReservePrice[a] /\ Decide(a, "refused", "available")

Next == \E a \in Auction : Sell(a) \/ Refuse(a)

Spec == Init /\ [][Next]_sale
=============================================================================
