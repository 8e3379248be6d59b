---------------------------- MODULE MCWebhook ----------------------------
(***************************************************************************)
(* Instances of Webhook for TLC.                                           *)
(***************************************************************************)
EXTENDS Webhook, TLC

CONSTANTS w1, w2, u1, s1, s2, s3

\* One buyer with two subscriptions: a plan dropped and bought again.
Resubscriber == s1 :> u1 @@ s2 :> u1

\* One buyer's plan, a customer without email and another application's plan.
MixedAccount == s1 :> u1 @@ s2 :> NoEmail @@ s3 :> u1

TwoRevisions == s1 :> 2 @@ s2 :> 2
MixedRevisions == s1 :> 2 @@ s2 :> 1 @@ s3 :> 1

SameWorkers == Permutations({w1, w2})

==========================================================================
