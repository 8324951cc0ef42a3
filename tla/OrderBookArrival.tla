------------------------- MODULE OrderBookArrival --------------------------
(***************************************************************************)
(* Order entry of OrderBook implements ReferenceBook.  The refinement      *)
(* mapping needs the order in which live orders arrived across levels,     *)
(* which the real book does not keep: arrival is a history variable that   *)
(* records it by watching orders appear and disappear.                     *)
(***************************************************************************)
EXTENDS OrderBook

VARIABLE arrival   \* history: live ids, earliest first

ArrivalInit == Init /\ arrival = <<>>

\* An id that left is dropped, one that came is added at the end (a step takes
\* at most one order off the book, or adds at most one).
Observe ==
  LET left == {k \in DOMAIN arrival : orders'[arrival[k]] = NoOrder}
      came == {i \in Ids : orders[i] = NoOrder /\ orders'[i] # NoOrder}
      stayed == IF left = {} THEN arrival ELSE RemoveAt(arrival, CHOOSE k \in left : TRUE)
  IN arrival' = IF came = {} THEN stayed ELSE Append(stayed, CHOOSE i \in came : TRUE)

ArrivalNext == (OrderEntry \/ MatchStep) /\ Observe

ArrivalSpec == ArrivalInit /\ [][ArrivalNext]_<<vars, arrival>>

\* The flat list of the reference book.
RefLive ==
  [k \in DOMAIN arrival |->
     LET o == orders[arrival[k]]
     IN [id |-> arrival[k], side |-> o.side, price |-> o.price, qty |-> o.qty,
         participant |-> o.participant]]

RefTally ==
  [added |-> counters.added, traded |-> counters.traded,
   canceled |-> counters.canceled, prevented |-> counters.prevented]

Reference == INSTANCE ReferenceBook WITH live <- RefLive, tally <- RefTally

\* Price-time priority: whatever the levels, lists and aggregates do, every
\* execution, every self-trade prevention, every result and every counter is
\* what the one-vector reference book produces (the differential test of
\* tests/test_reference_diff.cpp, for all inputs of the instance).
ImplementsReference == Reference!Spec
=============================================================================
