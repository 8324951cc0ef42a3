----------------------------- MODULE LevelQueues -----------------------------
(***************************************************************************)
(* What the book expects of its storage: a queue of orders at each price   *)
(* of each side.  An order joins one queue, at the end, and leaves it from *)
(* wherever it has got to.  The abstract specification of LevelStore.      *)
(***************************************************************************)
EXTENDS Integers, Sequences, SequencesExt

CONSTANTS Nodes, Prices

VARIABLE queue

Sides == {"Bid", "Ask"}

Init == queue = [s \in Sides |-> [p \in Prices |-> <<>>]]

Queued(o) == \E s \in Sides, p \in Prices : o \in ToSet(queue[s][p])

Join(o, s, p) ==
  /\ ~Queued(o)
  /\ queue' = [queue EXCEPT ![s][p] = Append(@, o)]

Leave(o, s, p) ==
  \E k \in DOMAIN queue[s][p] :
    /\ queue[s][p][k] = o
    /\ queue' = [queue EXCEPT ![s][p] = RemoveAt(@, k)]

Next == \E o \in Nodes, s \in Sides, p \in Prices : Join(o, s, p) \/ Leave(o, s, p)

Spec == Init /\ [][Next]_queue
=============================================================================
