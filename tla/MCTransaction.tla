--------------------------- MODULE MCTransaction ---------------------------
(* Two interchangeable files with two versions, for TLC.                     *)
EXTENDS TransactionProperties, TLC

Symmetry == Permutations(File) \cup Permutations(Content)
=============================================================================
