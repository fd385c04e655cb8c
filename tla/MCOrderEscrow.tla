--------------------------- MODULE MCOrderEscrow ---------------------------
(***************************************************************************)
(* Instances of OrderEscrow for TLC: orders o1 and o2 sold by sam, to one  *)
(* buyer or to two.                                                        *)
(***************************************************************************)
EXTENDS OrderEscrow, TLC

CONSTANTS o1, o2, sam, ann, ben, s1, s2, d1, d2, t1, t2

MCSeller == [o \in Order |-> sam]
MCOneBuyer == [o \in Order |-> ann]
MCBuyers == [o \in Order |-> IF o = o1 THEN ann ELSE ben]
MCAmount == [o \in Order |-> 2]
MCCommission == [o \in Order |-> 1]

\* What settlement leaves: the amounts of a buyer's orders.
MCEscrowFunds == [u \in User |-> SumFunctionOnSet(Amount, {o \in Order : Buyer[o] = u})]

Symmetry == Permutations(Session) \union Permutations(Dispute) \union Permutations(Task)
SymmetryOrders == Symmetry \union Permutations(Order)
=============================================================================
