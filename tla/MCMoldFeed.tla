------------------------------ MODULE MCMoldFeed ------------------------------
(* Model-checking instance of MoldFeed.                                    *)
EXTENDS MoldFeed
=============================================================================
