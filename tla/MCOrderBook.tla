---------------------------- MODULE MCOrderBook ----------------------------
(* Model-checking instance of OrderBook.  Ids are model values, so they    *)
(* are interchangeable; every operator uses them only as such.  No guard   *)
(* reads the counters and no property more than their change in a step.    *)
EXTENDS OrderBook

AllKinds == KindNames
AllPolicies == PolicyNames
IdSymmetry == Permutations(Ids)
WithoutCounters == <<stp, book, call, exec, result>>
=============================================================================
