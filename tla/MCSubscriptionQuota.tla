------------------------ MODULE MCSubscriptionQuota ------------------------
(* Instances of SubscriptionQuota for TLC. *)
EXTENDS SubscriptionQuota, TLC

CONSTANTS r1, r2

TwoTotals == 1 :> 3 @@ 2 :> 4
OneTotal == 1 :> 4
Symmetry == Permutations(Requests)
=============================================================================
