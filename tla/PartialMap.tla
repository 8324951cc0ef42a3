----------------------------- MODULE PartialMap -----------------------------
(***************************************************************************)
(* What the book and the replayer expect of an id map (the list at the top *)
(* of include/pricetime/id_map.hpp): a partial function from ids to        *)
(* pointers.  StdIdMap is this and nothing more.                           *)
(***************************************************************************)
CONSTANTS Ids, Values, NoValue

VARIABLES map,    \* id -> value, or NoValue
          answer  \* what the last call returned

vars == <<map, answer>>

Init ==
  /\ map = [i \in Ids |-> NoValue]
  /\ answer = NoValue

Find(i) == answer' = map[i] /\ UNCHANGED map

\* An id that is there already keeps its value.
Insert(i, v) ==
  \/ map[i] # NoValue /\ answer' = FALSE /\ UNCHANGED map
  \/ map[i] = NoValue /\ answer' = TRUE /\ map' = [map EXCEPT ![i] = v]

Erase(i) ==
  /\ answer' = (map[i] # NoValue)
  /\ map' = [map EXCEPT ![i] = NoValue]

Next ==
  \E i \in Ids : Find(i) \/ Erase(i) \/ \E v \in Values : Insert(i, v)

Spec == Init /\ [][Next]_vars
=============================================================================
