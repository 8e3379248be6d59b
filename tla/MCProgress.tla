----------------------------- MODULE MCProgress -----------------------------
(***************************************************************************)
(* An instance of Progress for TLC.                                        *)
(***************************************************************************)
EXTENDS Progress, TLC

CONSTANTS t1, t2, u1, u2, g1, g2

Symmetry == Permutations({t1, t2}) \cup Permutations({g1, g2})

=============================================================================
