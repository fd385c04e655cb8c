----------------------------- MODULE MCListing -----------------------------
(***************************************************************************)
(* An instance of Listing for TLC: one seller, whose item two auctions and *)
(* three images compete for.                                               *)
(***************************************************************************)
EXTENDS Listing, TLC

CONSTANTS a1, a2, i1, m1, m2, m3, r1, r2, ann

MCSellerOf == [x \in Item \union Auction |-> ann]

MCStartingPrice == [i \in Item |-> 1]
Symmetry == Permutations(Auction) \union Permutations(Image) \union Permutations(Request)
=============================================================================
