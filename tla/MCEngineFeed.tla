---------------------------- MODULE MCEngineFeed ----------------------------
(* Model-checking instance of EngineFeed.                                  *)
EXTENDS EngineFeed

\* What FeedAgrees and ReplicaUncrossed are proved from.
ASSUME FitAssumption == PricesFit

IdSymmetry == Permutations(Ids)
=============================================================================
