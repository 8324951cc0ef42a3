------------------------------ MODULE MCIdMap -------------------------------
(* Model-checking instance of IdMap: every hash function into Hashes.      *)
EXTENDS IdMap, TLC

IdSymmetry == Permutations(Ids)
=============================================================================
