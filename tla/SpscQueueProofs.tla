-------------------------- MODULE SpscQueueProofs --------------------------
(***************************************************************************)
(* For every queue size and every set of items: the ring never lets its    *)
(* two threads touch one slot at the same time, and implements the bounded *)
(* FIFO.  The inductive invariant Inv says where the four indices stand    *)
(* relative to each other (CachesLag) and what each thread has established *)
(* at each of its program points.                                          *)
(***************************************************************************)
EXTENDS SpscQueue, SequenceTheorems, TLAPS

\* What the producer knows between its full-check and its publication.
ProducerInv ==
  /\ ppc \in {"write", "publish"} => NextIndex(head) # cachedTail
  /\ ppc \in {"check", "write", "publish"} => val \in Items
  /\ ppc = "publish" => slots[head] = val

\* What the consumer knows between its empty-check and its advance.
ConsumerInv ==
  /\ cpc \in {"read", "advance"} => tail # cachedHead
  /\ cpc = "advance" => out = slots[tail]

Inv == TypeOK /\ CachesLag /\ ProducerInv /\ ConsumerInv

-----------------------------------------------------------------------------
(* Facts about going round the ring.                                       *)

\* The distance between two indices is an index again, zero only for equals.
LEMMA AheadRange ==
  ASSUME NEW a \in Index, NEW b \in Index
  PROVE  /\ Ahead(a, b) \in Index
         /\ Ahead(a, b) = 0 <=> a = b
  BY MaskAssumption DEF Ahead, Index

\* The following index is an index, one step ahead.
LEMMA NextRange ==
  ASSUME NEW a \in Index
  PROVE  NextIndex(a) \in Index /\ NextIndex(a) # a
  BY MaskAssumption DEF NextIndex, Index

\* Moving the far end one step on lengthens the distance by one, unless it
\* would run into the near end.
LEMMA AheadNextFar ==
  ASSUME NEW a \in Index, NEW b \in Index, NextIndex(b) # a
  PROVE  Ahead(a, NextIndex(b)) = Ahead(a, b) + 1
  BY MaskAssumption DEF Ahead, NextIndex, Index

\* Moving the near end one step on shortens a nonzero distance by one.
LEMMA AheadNextNear ==
  ASSUME NEW a \in Index, NEW b \in Index, a # b
  PROVE  Ahead(NextIndex(a), b) = Ahead(a, b) - 1
  BY MaskAssumption DEF Ahead, NextIndex, Index

\* A value the index had on its way from a to b splits the way in two.
LEMMA SeenSplits ==
  ASSUME NEW a \in Index, NEW b \in Index, NEW m \in Seen(a, b)
  PROVE  m \in Index /\ Ahead(a, m) + Ahead(m, b) = Ahead(a, b)
  BY MaskAssumption DEF Ahead, Seen, Index

\* If b lies on the way from a to c then the way from m, itself on the way
\* from a to b, to c also goes by b.
LEMMA SplitTail ==
  ASSUME NEW a \in Index, NEW b \in Index, NEW c \in Index, NEW m \in Index,
         Ahead(a, b) + Ahead(b, c) = Ahead(a, c),
         Ahead(a, m) + Ahead(m, b) = Ahead(a, b)
  PROVE  Ahead(m, b) + Ahead(b, c) = Ahead(m, c)
  BY MaskAssumption DEF Ahead, Index

\* The tail can never catch the producer: a head whose successor is not the
\* cached tail has a successor that is not the tail either.
LEMMA RoomIsReal ==
  ASSUME NEW ct \in Index, NEW t \in Index, NEW h \in Index,
         Ahead(ct, t) + Ahead(t, h) = Ahead(ct, h),
         NextIndex(h) # ct
  PROVE  NextIndex(h) # t /\ Ahead(t, h) < Mask
  BY MaskAssumption DEF Ahead, NextIndex, Index

\* An item the cached head shows is really there.
LEMMA ItemIsReal ==
  ASSUME NEW t \in Index, NEW ch \in Index, NEW h \in Index,
         Ahead(t, ch) + Ahead(ch, h) = Ahead(t, h),
         t # ch
  PROVE  t # h
  BY MaskAssumption DEF Ahead, Index

-----------------------------------------------------------------------------
(* The invariant.                                                          *)

LEMMA InitInv == Init => Inv
  BY MaskAssumption
  DEF Init, Inv, TypeOK, CachesLag, ProducerInv, ConsumerInv, Index, Ahead

\* The type part, for every step.
LEMMA NextType == Inv /\ [Next]_vars => TypeOK'
<1> SUFFICES ASSUME Inv, [Next]_vars PROVE TypeOK'
  OBVIOUS
<1> USE DEF Inv, TypeOK
<1>1. ASSUME NEW v \in Items, CallPush(v) PROVE TypeOK'
  BY <1>1 DEF CallPush, consumer
<1>2. CASE TryPush
  <2>1. CASE RoomInCache
    BY <2>1 DEF RoomInCache, consumer
  <2>2. ASSUME NEW t \in Seen(cachedTail, tail), ReloadTail(t) PROVE TypeOK'
    BY <2>2, SeenSplits DEF ReloadTail, consumer
  <2>3. CASE WriteSlot
    BY <2>3 DEF WriteSlot, consumer
  <2>4. CASE PublishHead
    BY <2>4, NextRange DEF PublishHead, consumer
  <2> QED BY <1>2, <2>1, <2>2, <2>3, <2>4 DEF TryPush
<1>3. CASE TryPop
  <2>1. CASE ItemInCache
    BY <2>1 DEF ItemInCache, producer
  <2>2. ASSUME NEW h \in Seen(cachedHead, head), ReloadHead(h) PROVE TypeOK'
    BY <2>2, SeenSplits DEF ReloadHead, producer
  <2>3. CASE ReadSlot
    BY <2>3 DEF ReadSlot, producer
  <2>4. CASE AdvanceTail
    BY <2>4, NextRange DEF AdvanceTail, producer
  <2> QED BY <1>3, <2>1, <2>2, <2>3, <2>4 DEF TryPop
<1>4. CASE UNCHANGED vars
  BY <1>4 DEF vars, producer, consumer
<1> QED BY <1>1, <1>2, <1>3, <1>4 DEF Next

\* Where the indices stand, for every step.  A publication needs room, an
\* advance needs an item; a reload picks a point on the way.
LEMMA NextLag == Inv /\ [Next]_vars => CachesLag'
<1> SUFFICES ASSUME Inv, [Next]_vars PROVE CachesLag'
  OBVIOUS
<1> USE DEF Inv, TypeOK
<1>a. CASE UNCHANGED <<head, cachedTail, tail, cachedHead>>
  BY <1>a DEF CachesLag, Ahead
<1>1. ASSUME NEW v \in Items, CallPush(v) PROVE CachesLag'
  BY <1>1, <1>a DEF CallPush, consumer
<1>2. CASE TryPush
  <2>1. CASE RoomInCache
    BY <2>1, <1>a DEF RoomInCache, consumer
  <2>2. ASSUME NEW t \in Seen(cachedTail, tail), ReloadTail(t) PROVE CachesLag'
    <3>1. Ahead(t, tail) + Ahead(tail, head) = Ahead(t, head)
      BY <2>2, SeenSplits, SplitTail DEF CachesLag
    <3>2. cachedTail' = t /\ UNCHANGED <<head, tail, cachedHead>>
      BY <2>2 DEF ReloadTail, consumer
    <3> QED BY <3>1, <3>2 DEF CachesLag, Ahead
  <2>3. CASE WriteSlot
    BY <2>3, <1>a DEF WriteSlot, consumer
  <2>4. CASE PublishHead
    <3> DEFINE h == NextIndex(head)
    <3>1. head' = h /\ UNCHANGED <<cachedTail, tail, cachedHead>>
      BY <2>4 DEF PublishHead, consumer
    <3>2. h # cachedTail
      BY <2>4 DEF PublishHead, ProducerInv
    <3>3. h # tail
      BY <3>2, RoomIsReal DEF CachesLag
    <3>4. h # cachedHead
      BY <3>3, MaskAssumption DEF CachesLag, Ahead, NextIndex, Index
    <3>5. /\ Ahead(cachedTail, h) = Ahead(cachedTail, head) + 1
          /\ Ahead(tail, h) = Ahead(tail, head) + 1
          /\ Ahead(cachedHead, h) = Ahead(cachedHead, head) + 1
      BY <3>2, <3>3, <3>4, AheadNextFar
    <3>6. /\ Ahead(cachedTail, tail) \in Nat /\ Ahead(tail, head) \in Nat
          /\ Ahead(tail, cachedHead) \in Nat /\ Ahead(cachedHead, head) \in Nat
      BY AheadRange DEF Index
    <3>7. /\ Ahead(cachedTail, tail) + Ahead(tail, h) = Ahead(cachedTail, h)
          /\ Ahead(tail, cachedHead) + Ahead(cachedHead, h) = Ahead(tail, h)
      BY <3>5, <3>6 DEF CachesLag
    <3> QED BY <3>1, <3>7 DEF CachesLag, Ahead
  <2> QED BY <1>2, <2>1, <2>2, <2>3, <2>4 DEF TryPush
<1>3. CASE TryPop
  <2>1. CASE ItemInCache
    BY <2>1, <1>a DEF ItemInCache, producer
  <2>2. ASSUME NEW h \in Seen(cachedHead, head), ReloadHead(h) PROVE CachesLag'
    <3>1. Ahead(tail, h) + Ahead(h, head) = Ahead(tail, head)
      BY <2>2, SeenSplits DEF ReloadHead
    <3>2. cachedHead' = h /\ UNCHANGED <<head, tail, cachedTail>>
      BY <2>2 DEF ReloadHead, producer
    <3> QED BY <3>1, <3>2 DEF CachesLag, Ahead
  <2>3. CASE ReadSlot
    BY <2>3, <1>a DEF ReadSlot, producer
  <2>4. CASE AdvanceTail
    <3> DEFINE t == NextIndex(tail)
    <3>1. tail' = t /\ UNCHANGED <<head, cachedTail, cachedHead>>
      BY <2>4 DEF AdvanceTail, producer
    <3>2. tail # cachedHead /\ tail # head
      BY <2>4, ItemIsReal DEF AdvanceTail, ConsumerInv, CachesLag
    <3>3. t # cachedTail
      BY <3>2, MaskAssumption DEF CachesLag, Ahead, NextIndex, Index
    <3>4. /\ Ahead(cachedTail, t) = Ahead(cachedTail, tail) + 1
          /\ Ahead(t, head) = Ahead(tail, head) - 1
          /\ Ahead(t, cachedHead) = Ahead(tail, cachedHead) - 1
      BY <3>2, <3>3, AheadNextFar, AheadNextNear
    <3>5. /\ Ahead(cachedTail, tail) \in Nat /\ Ahead(tail, head) \in Nat
          /\ Ahead(tail, cachedHead) \in Nat /\ Ahead(cachedHead, head) \in Nat
      BY AheadRange DEF Index
    <3>6. /\ Ahead(cachedTail, t) + Ahead(t, head) = Ahead(cachedTail, head)
          /\ Ahead(t, cachedHead) + Ahead(cachedHead, head) = Ahead(t, head)
      BY <3>4, <3>5 DEF CachesLag
    <3> QED BY <3>1, <3>6 DEF CachesLag, Ahead
  <2> QED BY <1>3, <2>1, <2>2, <2>3, <2>4 DEF TryPop
<1>4. CASE UNCHANGED vars
  BY <1>4, <1>a DEF vars, producer, consumer
<1> QED BY <1>1, <1>2, <1>3, <1>4 DEF Next

\* What each thread knows, for every step.  The only step that touches what
\* the other thread relies on is the slot write, and it hits another slot.
LEMMA NextLocal == Inv /\ [Next]_vars => ProducerInv' /\ ConsumerInv'
<1> SUFFICES ASSUME Inv, [Next]_vars PROVE ProducerInv' /\ ConsumerInv'
  OBVIOUS
<1> USE DEF Inv, TypeOK, ProducerInv, ConsumerInv
<1>1. ASSUME NEW v \in Items, CallPush(v) PROVE ProducerInv' /\ ConsumerInv'
  BY <1>1 DEF CallPush, consumer
<1>2. CASE TryPush
  <2>1. CASE RoomInCache
    BY <2>1 DEF RoomInCache, LooksFull, consumer
  <2>2. ASSUME NEW t \in Seen(cachedTail, tail), ReloadTail(t)
        PROVE ProducerInv' /\ ConsumerInv'
    BY <2>2 DEF ReloadTail, LooksFull, consumer
  <2>3. CASE WriteSlot
    <3>1. cpc = "advance" => tail # head
      BY ItemIsReal DEF CachesLag
    <3> QED BY <2>3, <3>1 DEF WriteSlot, consumer
  <2>4. CASE PublishHead
    BY <2>4 DEF PublishHead, consumer
  <2> QED BY <1>2, <2>1, <2>2, <2>3, <2>4 DEF TryPush
<1>3. CASE TryPop
  <2>1. CASE ItemInCache
    BY <2>1 DEF ItemInCache, producer
  <2>2. ASSUME NEW h \in Seen(cachedHead, head), ReloadHead(h)
        PROVE ProducerInv' /\ ConsumerInv'
    BY <2>2 DEF ReloadHead, producer
  <2>3. CASE ReadSlot
    BY <2>3 DEF ReadSlot, producer
  <2>4. CASE AdvanceTail
    BY <2>4 DEF AdvanceTail, producer
  <2> QED BY <1>3, <2>1, <2>2, <2>3, <2>4 DEF TryPop
<1>4. CASE UNCHANGED vars
  BY <1>4 DEF vars, producer, consumer
<1> QED BY <1>1, <1>2, <1>3, <1>4 DEF Next

\* Inv is inductive, hence holds in every reachable state.
THEOREM Invariance == Spec => []Inv
<1>1. Inv /\ [Next]_vars => Inv'
  BY NextType, NextLag, NextLocal DEF Inv
<1> QED BY InitInv, <1>1, PTL DEF Spec

\* Type correctness of the ring, for every size.
THEOREM TypeCorrect == Spec => []TypeOK
  BY Invariance, PTL DEF Inv

\* The cached indices lag behind the real ones and are never overtaken.
THEOREM CachesLagAlways == Spec => []CachesLag
  BY Invariance, PTL DEF Inv

\* Data-race freedom of the slots, for every size and under stale index loads.
THEOREM RaceFree == Spec => []NoSlotRace
<1>1. Inv => NoSlotRace
  BY ItemIsReal DEF Inv, TypeOK, CachesLag, ConsumerInv, NoSlotRace
<1> QED BY Invariance, <1>1, PTL

-----------------------------------------------------------------------------
(* The ring implements the bounded FIFO.                                   *)

\* Append and Tail, written as functions.
LEMMA AppendIs ==
  ASSUME NEW S, NEW s \in Seq(S), NEW e \in S
  PROVE  Append(s, e) = [k \in 1..(Len(s) + 1) |-> IF k = Len(s) + 1 THEN e ELSE s[k]]
<1> DEFINE f == [k \in 1..(Len(s) + 1) |-> IF k = Len(s) + 1 THEN e ELSE s[k]]
<1>1. Len(s) \in Nat /\ \A k \in 1..Len(s) : s[k] \in S
  BY ElementOfSeq, LenProperties
<1>2. f \in Seq(S) /\ Len(f) = Len(s) + 1
  BY <1>1
<1>3. \A k \in 1..(Len(s) + 1) : Append(s, e)[k] = f[k]
  BY <1>1, AppendProperties
<1>4. Append(s, e) \in Seq(S) /\ Len(Append(s, e)) = Len(s) + 1
  BY AppendProperties
<1> QED BY <1>2, <1>3, <1>4, SeqEqual

LEMMA TailIs ==
  ASSUME NEW S, NEW s \in Seq(S), s # <<>>
  PROVE  Tail(s) = [k \in 1..(Len(s) - 1) |-> s[k + 1]]
<1> DEFINE f == [k \in 1..(Len(s) - 1) |-> s[k + 1]]
<1>1. Len(s) \in Nat \ {0} /\ \A k \in 1..Len(s) : s[k] \in S
  BY ElementOfSeq, LenProperties, EmptySeq
<1>2. f \in Seq(S) /\ Len(f) = Len(s) - 1
  BY <1>1
<1>3. Tail(s) \in Seq(S) /\ Len(Tail(s)) = Len(s) - 1
  BY HeadTailProperties
<1>4. \A k \in 1..(Len(s) - 1) : Tail(s)[k] = f[k]
  BY <1>3, HeadTailProperties
<1> QED BY <1>2, <1>3, <1>4, SeqEqual

\* Contents is a sequence of items of the expected length.
LEMMA ContentsLen ==
  ASSUME TypeOK
  PROVE  Contents \in Seq(Items \cup {NoItem}) /\ Len(Contents) = Ahead(tail, head)
<1>1. Ahead(tail, head) \in Nat /\ Ahead(tail, head) <= Mask
  BY MaskAssumption DEF TypeOK, Ahead, Index
<1>2. \A k \in 1..Ahead(tail, head) : Wrap(tail + k - 1) \in Index
  BY <1>1, MaskAssumption DEF TypeOK, Index, Wrap
<1> QED BY <1>1, <1>2 DEF Contents, TypeOK

\* Writing the free slot at head leaves the contents alone.
LEMMA WriteKeepsContents ==
  ASSUME Inv, WriteSlot PROVE Contents' = Contents
<1> USE DEF Inv, TypeOK
<1>1. UNCHANGED <<head, tail>> /\ slots' = [slots EXCEPT ![head] = val]
  BY DEF WriteSlot, consumer
<1>2. ASSUME NEW k \in 1..Ahead(tail, head)
      PROVE  Wrap(tail + k - 1) \in Index /\ Wrap(tail + k - 1) # head
  BY MaskAssumption DEF Ahead, Index, Wrap
<1>3. \A k \in 1..Ahead(tail, head) :
        slots'[Wrap(tail + k - 1)] = slots[Wrap(tail + k - 1)]
  BY <1>1, <1>2
<1> QED BY <1>1, <1>3 DEF Contents, Ahead, Wrap

\* Publishing appends the item that push_spin was called with.
LEMMA PublishPushes ==
  ASSUME Inv, PublishHead PROVE Fifo!Push(val) /\ val \in Items
<1> USE DEF Inv, TypeOK
<1>1. /\ head' = NextIndex(head) /\ UNCHANGED <<slots, tail, lastOut>>
      /\ lastIn' = val /\ val \in Items /\ slots[head] = val
  BY DEF PublishHead, consumer, ProducerInv
<1>2. NextIndex(head) # tail /\ Ahead(tail, head) < Mask
  BY RoomIsReal DEF PublishHead, ProducerInv, CachesLag
<1>3. Ahead(tail, head)' = Ahead(tail, head) + 1
  BY <1>1, <1>2, AheadNextFar DEF Ahead
<1>4. Len(Contents) < Mask
  BY <1>2, ContentsLen
<1>5. Wrap(tail + Ahead(tail, head)) = head
  BY MaskAssumption DEF Wrap, Ahead, Index
<1>6. Contents' = [k \in 1..(Ahead(tail, head) + 1) |-> slots[Wrap(tail + k - 1)]]
  BY <1>1, <1>3 DEF Contents, Wrap
<1>7. Append(Contents, val)
        = [k \in 1..(Ahead(tail, head) + 1) |-> slots[Wrap(tail + k - 1)]]
  <2> DEFINE n == Ahead(tail, head)
  <2>1. n \in Nat
    BY AheadRange DEF Index
  <2>2. Append(Contents, val)
          = [k \in 1..(n + 1) |-> IF k = n + 1 THEN val ELSE Contents[k]]
    BY <2>1, ContentsLen, AppendIs
  <2>3. ASSUME NEW k \in 1..(n + 1)
        PROVE (IF k = n + 1 THEN val ELSE Contents[k]) = slots[Wrap(tail + k - 1)]
    <3>1. CASE k = n + 1
      BY <3>1, <2>1, <1>1, <1>5
    <3>2. CASE k # n + 1
      BY <3>2, <2>1 DEF Contents
    <3> QED BY <3>1, <3>2
  <2> QED BY <2>2, <2>3
<1> QED BY <1>1, <1>4, <1>6, <1>7 DEF Fifo!Push

\* Advancing removes the oldest item, and that item is what try_pop returns.
LEMMA AdvancePops ==
  ASSUME Inv, AdvanceTail PROVE Fifo!Pop
<1> USE DEF Inv, TypeOK
<1>1. /\ tail' = NextIndex(tail) /\ UNCHANGED <<slots, head, lastIn>>
      /\ lastOut' = out /\ out = slots[tail] /\ tail # head
  BY ItemIsReal DEF AdvanceTail, producer, ConsumerInv, CachesLag
<1> DEFINE n == Ahead(tail, head)
<1>2. n \in Nat /\ n > 0
  BY <1>1, AheadRange DEF Index
<1>3. Ahead(tail, head)' = n - 1
  BY <1>1, AheadNextNear DEF Ahead
<1>4. Contents \in Seq(Items \cup {NoItem}) /\ Len(Contents) = n
  BY ContentsLen
<1>5. Contents # <<>> /\ Head(Contents) = slots[tail]
  <2>1. Wrap(tail + 1 - 1) = tail
    BY MaskAssumption DEF Wrap, Index
  <2>2. Contents[1] = slots[tail]
    BY <2>1, <1>2 DEF Contents
  <2> QED BY <2>2, <1>2, <1>4
<1>6. Contents' = [k \in 1..(n - 1) |-> slots[Wrap(NextIndex(tail) + k - 1)]]
  BY <1>1, <1>3 DEF Contents, Wrap
<1>7. Tail(Contents) = [k \in 1..(n - 1) |-> Contents[k + 1]]
  BY <1>4, <1>5, TailIs
<1>8. ASSUME NEW k \in 1..(n - 1)
      PROVE  Contents[k + 1] = slots[Wrap(NextIndex(tail) + k - 1)]
  <2>1. Wrap(NextIndex(tail) + k - 1) = Wrap(tail + (k + 1) - 1)
    BY <1>2, MaskAssumption DEF Wrap, NextIndex, Index, Ahead
  <2>2. Contents[k + 1] = slots[Wrap(tail + (k + 1) - 1)]
    BY <1>2 DEF Contents
  <2> QED BY <2>1, <2>2
<1>9. Contents' = Tail(Contents)
  BY <1>6, <1>7, <1>8
<1> QED BY <1>1, <1>5, <1>9 DEF Fifo!Pop

\* Every behaviour of the ring is a behaviour of the bounded FIFO: a publish is
\* a push, an advance a pop, and every other step of either thread is invisible.
THEOREM Refinement == Spec => FifoSpec
<1>1. Init => Fifo!Init
  BY MaskAssumption DEF Init, Fifo!Init, Contents, Ahead
<1>2. Inv /\ [Next]_vars => [Fifo!Next]_(Fifo!vars)
  <2> SUFFICES ASSUME Inv, [Next]_vars PROVE [Fifo!Next]_(Fifo!vars)
    OBVIOUS
  <2>a. CASE UNCHANGED <<slots, head, tail, lastIn, lastOut>>
    BY <2>a DEF Fifo!vars, Contents, Ahead, Wrap
  <2>1. ASSUME NEW v \in Items, CallPush(v) PROVE [Fifo!Next]_(Fifo!vars)
    BY <2>1, <2>a DEF CallPush, consumer
  <2>2. CASE TryPush
    <3>1. CASE RoomInCache
      BY <3>1, <2>a DEF RoomInCache, consumer
    <3>2. ASSUME NEW t \in Seen(cachedTail, tail), ReloadTail(t)
          PROVE [Fifo!Next]_(Fifo!vars)
      BY <3>2, <2>a DEF ReloadTail, consumer
    <3>3. CASE WriteSlot
      BY <3>3, WriteKeepsContents DEF WriteSlot, consumer, Fifo!vars
    <3>4. CASE PublishHead
      BY <3>4, PublishPushes DEF Fifo!Next
    <3> QED BY <2>2, <3>1, <3>2, <3>3, <3>4 DEF TryPush
  <2>3. CASE TryPop
    <3>1. CASE ItemInCache
      BY <3>1, <2>a DEF ItemInCache, producer
    <3>2. ASSUME NEW h \in Seen(cachedHead, head), ReloadHead(h)
          PROVE [Fifo!Next]_(Fifo!vars)
      BY <3>2, <2>a DEF ReloadHead, producer
    <3>3. CASE ReadSlot
      BY <3>3, <2>a DEF ReadSlot, producer
    <3>4. CASE AdvanceTail
      BY <3>4, AdvancePops DEF Fifo!Next
    <3> QED BY <2>3, <3>1, <3>2, <3>3, <3>4 DEF TryPop
  <2>4. CASE UNCHANGED vars
    BY <2>4, <2>a DEF vars, producer, consumer
  <2> QED BY <2>1, <2>2, <2>3, <2>4 DEF Next
<1> QED BY <1>1, <1>2, Invariance, PTL DEF Spec, FifoSpec, Fifo!Spec
=============================================================================
