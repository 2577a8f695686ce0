------------------------------- MODULE MCLoad -------------------------------
(* Load on files of at most four bytes and lists of at most three ranges,  *)
(* with two readers, which are alike.                                      *)
EXTENDS Load, TLC

MCBytes == 0..4
MCSymmetry == Permutations(Readers)
=============================================================================
