---------------------------- MODULE MCGuardState ----------------------------
(* Small instances of GuardState for TLC.  Setups are interchangeable, so the  *)
(* safety runs may permute them.                                               *)
EXTENDS GuardState, TLC

CONSTANTS g1, g2, g3

SymmetricSetups == Permutations(Setups)
=============================================================================
