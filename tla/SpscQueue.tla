----------------------------- MODULE SpscQueue -----------------------------
(***************************************************************************)
(* include/pricetime/spsc_queue.hpp: the single-producer single-consumer   *)
(* ring between two engine threads.                                        *)
(*                                                                         *)
(* Each thread has a program counter, so that the plain (non-atomic) slot  *)
(* access and the release store that publishes it are separate steps and   *)
(* every interleaving of the two threads is explored.  An acquire load of  *)
(* the other thread's index may return any value that index has had since  *)
(* this thread last loaded it (the memory model orders it after what was   *)
(* already seen, and promises no more): Seen below.                        *)
(***************************************************************************)
EXTENDS Naturals, Sequences

CONSTANTS Items,   \* what the queue carries
          NoItem,  \* a default-constructed T
          Mask     \* mask_: number of slots minus one, the usable capacity

\* A capacity of at least 1 gives a mask_ of at least 1 (constructor, line 60).
ASSUME MaskAssumption == Mask \in Nat \ {0}
ASSUME NoItemAssumption == NoItem \notin Items

VARIABLES
  slots,       \* slots_
  head,        \* head_, stored by the producer with release
  cachedTail,  \* cached_tail_, private to the producer
  tail,        \* tail_, stored by the consumer with release
  cachedHead,  \* cached_head_, private to the consumer
  ppc, val,    \* where the producer is in push_spin / try_push, its argument
  cpc, out,    \* where the consumer is in try_pop, its out parameter
  lastIn,      \* history: the item of the last try_push that returned true
  lastOut      \* history: the item of the last try_pop that returned true

producer == <<head, cachedTail, ppc, val, lastIn>>
consumer == <<tail, cachedHead, cpc, out, lastOut>>
vars == <<slots, producer, consumer>>

Index == 0..Mask

\* Mutant: the index is not masked.
NextIndex_Unmasked(i) == i + 1

\* (i + 1) & mask_, for an index i.
NextIndex(i) == IF i = Mask THEN 0 ELSE i + 1

\* (b - a) & mask_: how far index b is ahead of index a.
Ahead(a, b) == IF b >= a THEN b - a ELSE b + Mask + 1 - a

\* The values an index now at `current` has had since it was at `last`.
Seen(last, current) == {i \in Index : Ahead(last, i) <= Ahead(last, current)}

TypeOK ==
  /\ slots \in [Index -> Items \cup {NoItem}]
  /\ head \in Index /\ cachedTail \in Index
  /\ tail \in Index /\ cachedHead \in Index
  /\ ppc \in {"idle", "check", "write", "publish"}
  /\ cpc \in {"idle", "read", "advance"}
  /\ val \in Items \cup {NoItem} /\ out \in Items \cup {NoItem}
  /\ lastIn \in Items \cup {NoItem} /\ lastOut \in Items \cup {NoItem}

Init ==
  /\ slots = [i \in Index |-> NoItem]
  /\ head = 0 /\ cachedTail = 0
  /\ tail = 0 /\ cachedHead = 0
  /\ ppc = "idle" /\ val = NoItem
  /\ cpc = "idle" /\ out = NoItem
  /\ lastIn = NoItem /\ lastOut = NoItem

-----------------------------------------------------------------------------
(* The producer: push_spin calls try_push until it returns true.           *)

CallPush(v) ==
  /\ ppc = "idle"
  /\ ppc' = "check"
  /\ val' = v
  /\ UNCHANGED <<slots, head, cachedTail, lastIn, consumer>>

\* Mutant: no slot is sacrificed, so full and empty look alike.
LooksFull_AllSlots(t) == Ahead(t, head) = Mask + 1

LooksFull(t) == NextIndex(head) = t

\* The cached index already shows room: the consumer's line is not touched.
RoomInCache ==
  /\ ppc = "check"
  /\ ~LooksFull(cachedTail)
  /\ ppc' = "write"
  /\ UNCHANGED <<slots, head, cachedTail, val, lastIn, consumer>>

\* Mutant: the reload is not kept.
ReloadTail_Ignored(t) ==
  /\ ppc = "check"
  /\ LooksFull(cachedTail)
  /\ t \in Index
  /\ UNCHANGED vars

\* Re-read tail_; still full means false, and push_spin starts over.
ReloadTail(t) ==
  /\ ppc = "check"
  /\ LooksFull(cachedTail)
  /\ cachedTail' = t
  /\ ppc' = IF LooksFull(t) THEN "check" ELSE "write"
  /\ UNCHANGED <<slots, head, val, lastIn, consumer>>

\* Mutant: the slot after the one that is published.
WriteSlot_NextSlot ==
  /\ ppc = "write"
  /\ slots' = [slots EXCEPT ![NextIndex(head)] = val]
  /\ ppc' = "publish"
  /\ UNCHANGED <<head, cachedTail, val, lastIn, consumer>>

WriteSlot ==
  /\ ppc = "write"
  /\ slots' = [slots EXCEPT ![head] = val]
  /\ ppc' = "publish"
  /\ UNCHANGED <<head, cachedTail, val, lastIn, consumer>>

PublishHead ==
  /\ ppc = "publish"
  /\ head' = NextIndex(head)
  /\ lastIn' = val
  /\ ppc' = "idle"
  /\ UNCHANGED <<slots, cachedTail, val, consumer>>

-----------------------------------------------------------------------------
(* The consumer: every engine stage calls try_pop in a loop.               *)

ItemInCache ==
  /\ cpc = "idle"
  /\ tail # cachedHead
  /\ cpc' = "read"
  /\ UNCHANGED <<slots, tail, cachedHead, out, lastOut, producer>>

\* Mutant: the reload is not kept.
ReloadHead_Ignored(h) ==
  /\ cpc = "idle"
  /\ tail = cachedHead
  /\ h \in Index
  /\ UNCHANGED vars

\* Re-read head_; still empty means false, and the stage polls again.
ReloadHead(h) ==
  /\ cpc = "idle"
  /\ tail = cachedHead
  /\ cachedHead' = h
  /\ cpc' = IF tail = h THEN "idle" ELSE "read"
  /\ UNCHANGED <<slots, tail, out, lastOut, producer>>

ReadSlot ==
  /\ cpc = "read"
  /\ out' = slots[tail]
  /\ cpc' = "advance"
  /\ UNCHANGED <<slots, tail, cachedHead, lastOut, producer>>

AdvanceTail ==
  /\ cpc = "advance"
  /\ tail' = NextIndex(tail)
  /\ lastOut' = out
  /\ cpc' = "idle"
  /\ UNCHANGED <<slots, cachedHead, out, producer>>

-----------------------------------------------------------------------------

TryPush ==
  \/ RoomInCache
  \/ \E t \in Seen(cachedTail, tail) : ReloadTail(t)
  \/ WriteSlot
  \/ PublishHead

TryPop ==
  \/ ItemInCache
  \/ \E h \in Seen(cachedHead, head) : ReloadHead(h)
  \/ ReadSlot
  \/ AdvanceTail

Next == (\E v \in Items : CallPush(v)) \/ TryPush \/ TryPop

Spec == Init /\ [][Next]_vars

(***************************************************************************)
(* Both threads keep running and every store becomes visible in the end:   *)
(* a reload that finds the index's present value is not put off for ever.  *)
(***************************************************************************)
Fairness ==
  /\ WF_vars(RoomInCache) /\ WF_vars(ReloadTail(tail))
  /\ WF_vars(WriteSlot) /\ WF_vars(PublishHead)
  /\ WF_vars(ItemInCache) /\ WF_vars(ReloadHead(head))
  /\ WF_vars(ReadSlot) /\ WF_vars(AdvanceTail)

FairSpec == Spec /\ Fairness

-----------------------------------------------------------------------------
(* Properties                                                              *)

\* Neither thread ever writes a slot the other one may be reading: the plain
\* accesses of lines 76 and 90 are kept apart by the two indices alone, even
\* when both cached indices are out of date.
NoSlotRace == ~(ppc = "write" /\ cpc = "read" /\ head = tail)

\* The private caches lag behind, never overtake: going round the ring from
\* the producer's cached tail one meets tail_, the consumer's cached head and
\* head_ in that order, and never more than Mask slots in all.
CachesLag ==
  /\ Ahead(cachedTail, tail) + Ahead(tail, head) = Ahead(cachedTail, head)
  /\ Ahead(tail, cachedHead) + Ahead(cachedHead, head) = Ahead(tail, head)

\* The queue's contents: the slots from tail_ up to head_, oldest first.
Wrap(i) == IF i > Mask THEN i - (Mask + 1) ELSE i
Contents == [k \in 1..Ahead(tail, head) |-> slots[Wrap(tail + k - 1)]]

\* The ring is a bounded FIFO: nothing is lost, duplicated, reordered or
\* overwritten, at most capacity() items are held, and a pop returns the
\* oldest item that was pushed.
Fifo == INSTANCE BoundedFifo WITH Capacity <- Mask, queue <- Contents
FifoSpec == Fifo!Spec

\* An item that is in the queue is handed out in the end.
PopProgress == \A i \in Index : (tail = i /\ head # i) ~> (tail # i)

\* A producer spinning on a full queue gets in: the consumer makes room and
\* the producer's reload notices.
PushProgress == (ppc = "check") ~> (ppc = "idle")
=============================================================================
