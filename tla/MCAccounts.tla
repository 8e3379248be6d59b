----------------------------- MODULE MCAccounts -----------------------------
(***************************************************************************)
(* An instance of Accounts for TLC.                                        *)
(***************************************************************************)
EXTENDS Accounts, TLC

CONSTANTS t1, t2, e1, e2, i1, i2

Symmetry ==
  Permutations({t1, t2}) \cup Permutations({e1, e2}) \cup Permutations({i1, i2})

=============================================================================
