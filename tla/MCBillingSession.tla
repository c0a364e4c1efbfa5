-------------------------- MODULE MCBillingSession --------------------------
(* Instances of BillingSession for TLC. *)
EXTENDS BillingSession, TLC

CONSTANTS r1, r2

Profile(p, pg, f) == [pref |-> p, playground |-> pg, force |-> f]

MixedProfiles == {Profile("wallet_first", FALSE, FALSE),
                  Profile("subscription_first", TRUE, TRUE)}
Symmetry == Permutations(Requests)
=============================================================================
