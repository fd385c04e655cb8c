----------------------------- MODULE MCWallets -----------------------------
(***************************************************************************)
(* The instance of Wallets for TLC: one wallet with two payments and two   *)
(* withdrawals, one of which needs the money of a payment.                 *)
(***************************************************************************)
EXTENDS Wallets

CONSTANTS p1, p2, w1, w2, ann, s1, s2

MCOwner == [x \in Payment \union Withdrawal |-> ann]
MCAmount == [x \in Payment \union Withdrawal |-> IF x \in {p2, w2} THEN 2 ELSE 1]
MCOpening == [u \in User |-> 2]
MCWalletLimit == [u \in User |-> 4]
MCDailyLimit == [u \in User |-> 3]
=============================================================================
