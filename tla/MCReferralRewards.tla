-------------------------- MODULE MCReferralRewards --------------------------
(***************************************************************************)
(* An instance of ReferralRewards for TLC: one milestone, and a benefit    *)
(* whose first version grants a day pass and whose second grants access.   *)
(***************************************************************************)
EXTENDS ReferralRewards, TLC

CONSTANTS m1, g1, g2

Versions == (m1 :> 0) @@ (g1 :> 1) @@ (g2 :> 2)
KindOf   == (m1 :> "DAY_PASS") @@ (g1 :> "DAY_PASS") @@ (g2 :> "MONTHLY_ACCESS")
Takes    == (m1 :> 2) @@ (g1 :> 1) @@ (g2 :> 1)
OneDay   == [c \in {m1, g1, g2} |-> 1]

\* Requests are interchangeable, and so are the referred members.
Interchangeable == Permutations(Session) \cup Permutations(Referral)
=============================================================================
