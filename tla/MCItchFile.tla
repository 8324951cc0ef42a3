------------------------------ MODULE MCItchFile ------------------------------
(* Model-checking instance of ItchFile: one message of each type the Writer   *)
(* has, every byte of its number fields different from the next.              *)
EXTENDS ItchFile

Ref == 19088743          \* 0x01234567
Match == 124076833       \* 0x07654321
Time == 10467295         \* 0x9fb7df
Shares == 17185          \* 0x4321
Price == 51966           \* 0xcafe
Name == <<80, 84, 73, 77, 69, 32, 32, 32>>

Order == [type |-> "A", timestamp |-> Time, reference |-> Ref, side |-> "bid", shares |-> Shares,
          symbol |-> Name, price |-> Price]
Executed == [type |-> "E", timestamp |-> Time, reference |-> Ref, shares |-> Shares,
             match_number |-> Match, has_price |-> FALSE, printable |-> TRUE, price |-> 0]

MCRecords ==
  {[type |-> "S", timestamp |-> Time, code |-> Ascii.O],
   [type |-> "R", timestamp |-> Time, symbol |-> Name, market_category |-> Ascii.Q],
   Order, [Order EXCEPT !.type = "F", !.side = "ask"],
   Executed,
   [Executed EXCEPT !.type = "C", !.has_price = TRUE, !.printable = FALSE, !.price = Price],
   [type |-> "X", timestamp |-> Time, reference |-> Ref, shares |-> Shares],
   [type |-> "D", timestamp |-> Time, reference |-> Ref],
   [type |-> "U", timestamp |-> Time, original_reference |-> Ref, new_reference |-> Match,
    shares |-> Shares, price |-> Price],
   [Order EXCEPT !.type = "P"] @@ ("match_number" :> Match),
   [type |-> "H", timestamp |-> Time, symbol |-> Name, state |-> Ascii.H]}

\* 63 bytes are the most that fit behind every chunk; of 100, some do not.
MCNewMessages == {[i \in 1..n |-> 122] : n \in {1, 63, 100}}
=============================================================================
