------------------------ MODULE MCSubscriptionReset ------------------------
(* Instances of SubscriptionReset for TLC. *)
EXTENDS SubscriptionReset, TLC

CONSTANTS s1, s2, s3

Periods == s1 :> 2 @@ s2 :> 3 @@ s3 :> 1
Ends == s1 :> 9 @@ s2 :> 9 @@ s3 :> 5
StuckPeriods == s1 :> 1 @@ s2 :> 2
StuckEnds == s1 :> 9 @@ s2 :> 9
=============================================================================
