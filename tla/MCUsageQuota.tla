---------------------------- MODULE MCUsageQuota ----------------------------
(***************************************************************************)
(* Instances of UsageQuota for TLC.                                        *)
(***************************************************************************)
EXTENDS UsageQuota, TLC

CONSTANTS w1, w2, w3

SameWorkers == Permutations(Workers)

=============================================================================
