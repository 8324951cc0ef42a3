------------------------- MODULE MCOrderBookArrival -------------------------
(* Model-checking instance of OrderBookArrival.                            *)
EXTENDS OrderBookArrival

AllKinds == KindNames
AllPolicies == PolicyNames
IdSymmetry == Permutations(Ids)
=============================================================================
