---------------------------- MODULE BidIncrement ----------------------------
(***************************************************************************)
(* The platform's bid increment table (apps/auctions/models.py,            *)
(* BidIncrementTier) and its lookup.  Amounts are integers in a unit of    *)
(* the caller's choice: the lookup only compares and adds them.            *)
(***************************************************************************)
EXTENDS Integers

CONSTANTS
    IncrementTiers,    \* set of rows [min_value, max_value, increment, is_active]
    DefaultIncrement,  \* what the lookup returns when no row covers the amount
    NoMax              \* the NULL of max_value: the row has no upper limit

ASSUME IncrementAssumption ==
    /\ DefaultIncrement \in Nat \ {0}
    /\ \A t \in IncrementTiers :
          /\ t.min_value \in Nat
          /\ t.increment \in Nat \ {0}
          /\ t.is_active \in BOOLEAN
          /\ t.max_value = NoMax \/ t.max_value \in Nat

Covering(current_bid) ==
    {t \in IncrementTiers :
        /\ t.is_active
        /\ t.min_value <= current_bid
        /\ t.max_value = NoMax \/ t.max_value >= current_bid}

\* ORDER BY min_value DESC LIMIT 1, or the default with a warning in the log.
get_increment_for_amount(current_bid) ==
    IF Covering(current_bid) = {}
    THEN DefaultIncrement
    ELSE (CHOOSE t \in Covering(current_bid) :
             \A u \in Covering(current_bid) : u.min_value <= t.min_value).increment
=============================================================================
