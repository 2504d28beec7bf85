--------------------------- MODULE MCLogStructured ---------------------------
(* Instances of LogStructured for TLC.                                      *)
EXTENDS LogStructured, TLC

Symmetry == Permutations(Clients) \cup Permutations(Keys)
=============================================================================
