----------------------------- MODULE MCAccounts -----------------------------
(***************************************************************************)
(* An instance of Accounts for TLC: ann registers, and three members apply *)
(* as sellers or show the same BVN.                                        *)
(***************************************************************************)
EXTENDS Accounts, TLC

CONSTANTS ann, ben, cat, dan, b1

MCMembers == {ben, cat, dan}
MCApplicants == {cat}
MCSent == {<<"notify_outbid_user", ben>>}

\* Each part of an account is exercised by the users who suffice for it.
MCUses ==
    [op \in Op |->
        CASE op \in {"register", "resend", "verify_email"} -> {ann}
          [] op \in {"verify_bvn", "bvn_attempt"} -> {ben, cat, dan}
          [] op \in Decision -> {ben, cat}
          [] OTHER -> {ben}]
=============================================================================
