---------------------------- MODULE MCSettlement ----------------------------
(***************************************************************************)
(* Instances of Settlement for TLC: a1 sells, a2 misses its reserve price  *)
(* and a3 has no bids.                                                     *)
(***************************************************************************)
EXTENDS Settlement, TLC

CONSTANTS a1, a2, a3, ann, ben, f1, f2, t1, t2, t3

MCHighestAmount == [a \in Auction |-> CASE a = a1 -> 2 [] a = a2 -> 3 [] OTHER -> 0]
MCReservePrice == [a \in Auction |-> CASE a = a1 -> 2 [] a = a2 -> 4 [] OTHER -> 0]

MCWinners == [a \in Auction |-> IF a = a2 THEN ben ELSE ann]

Symmetry == Permutations(Finder) \union Permutations(Task)
=============================================================================
