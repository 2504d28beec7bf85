--------------------------- MODULE MCCommonSubquery ---------------------------
(* Instances of CommonSubquery for TLC.                                     *)
EXTENDS CommonSubquery, TLC

NameSymmetry == Permutations(Names)
=============================================================================
