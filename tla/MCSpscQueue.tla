---------------------------- MODULE MCSpscQueue ----------------------------
(* Model-checking instance of SpscQueue: four slots, two kinds of item.    *)
EXTENDS SpscQueue

=============================================================================
