----------------------------- MODULE MCLevelStore -----------------------------
(* Model-checking instance of LevelStore.                                  *)
EXTENDS LevelStore

NodeSymmetry == Permutations(Nodes)
=============================================================================
