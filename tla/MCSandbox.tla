------------------------------ MODULE MCSandbox -------------------------------
(* Model-checking instance of Sandbox.                                        *)
EXTENDS Sandbox, TLC

CONSTANTS b1, b2, a1, other, AAPL, MSFT

MCRefsOf == [Bid |-> {b1, b2}, Ask |-> {a1}]

Symmetry == Permutations({b1, b2})

\* What the next steps and the properties depend on: not the replayer's
\* statistics, nor the price and the size of a quote that is not active.
LiveQuotes == [side \in Sides |-> IF quotes[side].active THEN <<quotes[side], behind[side]>> ELSE <<>>]

WhatCounts == <<books, owner, queueModel, lastMid, LiveQuotes, position>>
=============================================================================
