---------------------------- MODULE BoundedFifo ----------------------------
(***************************************************************************)
(* What SpscQueue promises its two threads: a first-in first-out queue of  *)
(* at most Capacity items.  lastIn is the item the last successful push    *)
(* handed over, lastOut the item the last successful pop returned; both    *)
(* are there so that an implementation cannot accept one item and queue    *)
(* another, or hand out anything but the oldest one.                       *)
(***************************************************************************)
EXTENDS Naturals, Sequences

CONSTANTS Items,     \* what the queue carries
          NoItem,    \* stands for "nothing yet" in lastIn and lastOut
          Capacity   \* usable slots

VARIABLES queue, lastIn, lastOut

vars == <<queue, lastIn, lastOut>>

Init ==
  /\ queue = <<>>
  /\ lastIn = NoItem
  /\ lastOut = NoItem

Push(v) ==
  /\ Len(queue) < Capacity
  /\ queue' = Append(queue, v)
  /\ lastIn' = v
  /\ UNCHANGED lastOut

Pop ==
  /\ queue # <<>>
  /\ queue' = Tail(queue)
  /\ lastOut' = Head(queue)
  /\ UNCHANGED lastIn

Next == (\E v \in Items : Push(v)) \/ Pop

Spec == Init /\ [][Next]_vars
=============================================================================
