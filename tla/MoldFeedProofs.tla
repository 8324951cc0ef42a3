--------------------------- MODULE MoldFeedProofs ---------------------------
(***************************************************************************)
(* For a session of any length and packets of any size: what the tracker   *)
(* of a receiver counts as missed is exactly what it was not handed in     *)
(* time, and once the end of the session has been heard the account is     *)
(* complete, whatever the network loses, repeats or reorders.              *)
(*                                                                         *)
(* The heart of the argument is Aligned: next_ never points into a packet. *)
(* Packets never overlap half-way, so a packet lies wholly before next_ or *)
(* wholly after it, and on_packet may look at its first number only.       *)
(***************************************************************************)
EXTENDS MoldFeed, FiniteSetTheorems, TLAPS

Packets == [kind : {"data", "heartbeat", "end"}, sequence : 1..(MaxMessages + 1), count : Nat]

\* What the variables hold, whatever the network does.
TypeInv ==
  /\ seq \in 1..(MaxMessages + 1) /\ closed \in BOOLEAN
  /\ network \subseteq Packets
  /\ started \in BOOLEAN /\ next \in 1..seq /\ missed \in Nat
  /\ heard \subseteq network /\ first \in 1..next
  /\ late \subseteq Delivered \cap (first..(next - 1))

\* What was sent lies below the next number, only data carries messages, and
\* the end announces the last number there will be.
SenderInv ==
  \A p \in network :
    /\ End(p) <= seq
    /\ p.kind # "data" => p.count = 0
    /\ p.kind = "end" => closed /\ p.sequence = seq

\* A number between two messages of a packet.
Inside(b, p) == p.sequence < b /\ b < End(p)

Aligned ==
  \A p \in network :
    /\ ~Inside(next, p)
    /\ \A q \in network : ~Inside(p.sequence, q) /\ ~Inside(End(p), q)

\* Before the first packet the tracker knows nothing; from then on everything
\* it was handed lies behind it.
TrackerInv ==
  /\ ~started => heard = {} /\ next = 1 /\ missed = 0
  /\ \A p \in heard : End(p) <= next

Inv == TypeInv /\ SenderInv /\ Aligned /\ TrackerInv /\ MissedIsExact

-----------------------------------------------------------------------------
(* The pieces of a session.                                                *)

\* A piece of the session is finite, and counts what lies between its ends.
LEMMA PieceSize ==
  ASSUME NEW a \in Nat, NEW b \in Nat, a <= b, NEW S
  PROVE  /\ IsFiniteSet((a..(b - 1)) \ S) /\ IsFiniteSet((a..(b - 1)) \cap S)
         /\ Cardinality((a..(b - 1)) \ S) \in Nat
         /\ Cardinality((a..(b - 1)) \cap S) \in Nat
         /\ Cardinality((a..(b - 1)) \ S) + Cardinality((a..(b - 1)) \cap S) = b - a
<1> DEFINE c == b - 1
           I == a..c
<1>1. a \in Int /\ c \in Int /\ (a > c <=> a = b)
  OBVIOUS
<1> HIDE DEF c
<1>a. IsFiniteSet(I) /\ Cardinality(I) = IF a > c THEN 0 ELSE c - a + 1
  BY <1>1, FS_Interval
<1>2. IsFiniteSet(I) /\ Cardinality(I) = b - a
  BY <1>a, <1>1 DEF c
<1> HIDE DEF I
<1>3. IsFiniteSet(I \ S) /\ Cardinality(I \ S) = Cardinality(I) - Cardinality(I \cap S)
  BY <1>2, FS_Difference
<1>4. IsFiniteSet(I \cap S)
  BY <1>2, FS_Intersection
<1>5. Cardinality(I \ S) \in Nat /\ Cardinality(I \cap S) \in Nat
  BY <1>3, <1>4, FS_CardinalityType
<1>6. Cardinality(I \ S) + Cardinality(I \cap S) = b - a
  BY <1>2, <1>3, <1>5
<1> QED BY <1>3, <1>4, <1>5, <1>6 DEF I, c

\* Moving elements from one finite set to another that has none of them keeps
\* the sum of their sizes.
LEMMA Moved ==
  ASSUME NEW A, NEW B, NEW S, IsFiniteSet(A), IsFiniteSet(B), A \cap B = {}
  PROVE  /\ IsFiniteSet(B \cup (A \cap S))
         /\ Cardinality(A \ S) + Cardinality(B \cup (A \cap S)) = Cardinality(A) + Cardinality(B)
<1>1. IsFiniteSet(A \cap S)
  BY FS_Intersection
<1>2. Cardinality(A \ S) = Cardinality(A) - Cardinality(A \cap S)
  BY FS_Difference
<1>3. Cardinality(B \cap (A \cap S)) = 0
  <2>1. B \cap (A \cap S) = {}
    OBVIOUS
  <2> QED BY <2>1, FS_EmptySet, Zenon
<1>4. /\ IsFiniteSet(B \cup (A \cap S))
      /\ Cardinality(B \cup (A \cap S)) =
           Cardinality(B) + Cardinality(A \cap S) - Cardinality(B \cap (A \cap S))
  BY <1>1, FS_Union
<1>5. Cardinality(A) \in Nat /\ Cardinality(B) \in Nat /\ Cardinality(A \cap S) \in Nat
  BY <1>1, FS_CardinalityType
<1>6. Cardinality(B \cup (A \cap S)) = Cardinality(B) + Cardinality(A \cap S)
  BY <1>3, <1>4, <1>5
<1> QED BY <1>2, <1>4, <1>5, <1>6

\* What came late lies in the past of the tracker, a piece of the session.
LEMMA LateFinite ==
  ASSUME TypeInv
  PROVE  IsFiniteSet(late)
<1>1. first \in Nat /\ next \in Nat /\ first <= next /\ late = (first..(next - 1)) \cap late
  BY DEF TypeInv
<1>2. IsFiniteSet((first..(next - 1)) \cap late)
  BY <1>1, PieceSize
<1> QED BY <1>1, <1>2, Zenon

\* The numbers of a packet, and how they add to what has been delivered.
LEMMA DeliveredGrows ==
  ASSUME NEW p, heard' = heard \cup {p}
  PROVE  Delivered' = Delivered \cup Carried(p)
  BY DEF Delivered, Carried

-----------------------------------------------------------------------------
(* The invariant.                                                          *)

\* The session begins with nothing sent and nothing heard.
LEMMA InitInv == Init => Inv
<1> SUFFICES ASSUME Init PROVE Inv
  OBVIOUS
<1>1. TypeInv
  <2>1. seq \in 1..(MaxMessages + 1) /\ next \in 1..seq /\ missed \in Nat /\ first \in 1..next
    BY BoundsAssumption DEF Init
  <2>2. closed \in BOOLEAN /\ started \in BOOLEAN
    BY DEF Init
  <2>3. network \subseteq Packets /\ heard \subseteq network /\ late = {}
    BY DEF Init
  <2> QED BY <2>1, <2>2, <2>3 DEF TypeInv
<1>2. SenderInv /\ Aligned /\ TrackerInv /\ MissedIsExact
  BY DEF Init, SenderInv, Aligned, TrackerInv, MissedIsExact
<1> QED BY <1>1, <1>2 DEF Inv

\* A packet sent begins at seq, where all the others have ended.
LEMMA SendKeeps ==
  ASSUME Inv, NEW kind \in {"data", "heartbeat", "end"}, NEW n \in Nat,
         Send(Packet(kind, seq, n)), seq' = seq + n, seq + n <= MaxMessages + 1, ~closed,
         kind # "data" => n = 0,
         closed' \in BOOLEAN, kind = "end" => closed',
         UNCHANGED <<tracker, history>>
  PROVE  Inv'
<1> DEFINE new == Packet(kind, seq, n)
<1> USE DEF Inv, TypeInv
<1>1. /\ new \in Packets /\ new.kind = kind /\ new.sequence = seq /\ new.count = n
      /\ network' = network \cup {new} /\ closed' \in BOOLEAN
  BY BoundsAssumption DEF Packets, Packet, Send
<1>2. Delivered' = Delivered /\ UNCHANGED <<started, next, missed, heard, first, late>>
  BY DEF Delivered, tracker, history
<1>3. seq' \in 1..(MaxMessages + 1) /\ next \in 1..seq'
  BY BoundsAssumption
<1> HIDE DEF new
<1>4. TypeInv'
  BY <1>1, <1>2, <1>3
<1>5. \A p \in network : p \in Packets /\ End(p) \in Nat /\ End(p) <= seq
  BY DEF SenderInv, Packets, End
<1>6. SenderInv'
  <2>1. ASSUME NEW p \in network
        PROVE  /\ End(p) <= seq'
               /\ p.kind # "data" => p.count = 0
               /\ p.kind # "end"
    BY <1>3, <1>5 DEF SenderInv
  <2>2. /\ End(new) = seq'
        /\ new.kind # "data" => new.count = 0
        /\ new.kind = "end" => closed' /\ new.sequence = seq'
    BY <1>1 DEF End
  <2> QED BY <1>1, <1>3, <2>1, <2>2 DEF SenderInv, End
<1>7. Aligned'
  <2>1. \A p \in network : ~Inside(seq, p) /\ ~Inside(seq + n, p)
    BY <1>5 DEF Inside, Packets
  <2>2. \A b \in 1..seq : ~Inside(b, new)
    BY <1>1 DEF Inside
  <2>3. \A p \in network : p.sequence \in 1..seq /\ End(p) \in 1..seq
    BY <1>5 DEF End, Packets
  <2>4. ~Inside(seq, new) /\ ~Inside(seq + n, new) /\ End(new) = seq + n
    BY <1>1 DEF Inside, End
  <2> QED BY <1>1, <1>2, <2>1, <2>2, <2>3, <2>4 DEF Aligned
<1>8. TrackerInv' /\ MissedIsExact'
  BY <1>2 DEF TrackerInv, MissedIsExact, End
<1> QED BY <1>4, <1>6, <1>7, <1>8

\* A packet received lies wholly before next_, which leaves the tracker alone
\* and makes late what was missed; or begins at next_ or after it, and next_
\* moves to its end.
LEMMA ReceiveKeeps ==
  ASSUME Inv, NEW p \in network, Receive(p)
  PROVE  Inv'
<1> USE DEF Inv, TypeInv
<1>1. /\ p \in Packets /\ p.sequence \in 1..seq /\ p.count \in Nat
      /\ End(p) \in 1..seq /\ End(p) = p.sequence + p.count
      /\ Carried(p) = p.sequence..(End(p) - 1)
  BY DEF SenderInv, Packets, End, Carried
<1>2. /\ heard' = heard \cup {p} /\ UNCHANGED <<seq, closed, network>>
      /\ Delivered' = Delivered \cup Carried(p)
  BY DeliveredGrows DEF Receive, sender
<1>3. Delivered \subseteq 1..(next - 1)
  <2> SUFFICES ASSUME NEW q \in heard, NEW m \in Carried(q) PROVE m \in 1..(next - 1)
    BY DEF Delivered
  <2>1. q \in Packets /\ End(q) <= next
    BY DEF TrackerInv
  <2> QED BY <2>1 DEF Carried, End, Packets
<1>4. SenderInv'
  BY <1>2 DEF SenderInv, End
<1>8. (\A q \in network : ~Inside(next', q)) => Aligned'
  BY <1>2 DEF Aligned, End, Inside
<1>9. first \in Nat /\ next \in Nat /\ first <= next /\ p.sequence \in Nat
  BY <1>1
<1>5. p.kind # "data" => p.count = 0
  BY DEF SenderInv
<1>6. late' = late \cup {m \in Carried(p) \ Delivered : started /\ first <= m /\ m < next}
  BY DEF Receive
<1>7. missed' = missed + (IF started /\ p.sequence > next THEN p.sequence - next ELSE 0)
  BY DEF Receive, OnPacket
<1>0. IF ~started \/ p.sequence >= next
      THEN /\ started' = TRUE
           /\ next' = IF p.kind = "data" THEN End(p)
                      ELSE IF p.sequence > next THEN p.sequence ELSE next
      ELSE started' = started /\ next' = next
  BY DEF Receive, OnPacket
<1>e. first' = IF started THEN first ELSE p.sequence
  BY DEF Receive
<1>a. \A q \in network : ~Inside(End(p), q)
  BY DEF Aligned
<1>b. CASE ~started
  <2>1. Delivered = {} /\ next = 1 /\ late = {} /\ heard = {}
    BY <1>b, <1>3 DEF TrackerInv, Delivered
  <2>2. started' = TRUE /\ next' = End(p) /\ first' = p.sequence /\ missed' = 0 /\ late' = {}
    BY <1>0, <1>1, <1>5, <1>6, <1>7, <1>b, <1>e, <2>1 DEF TrackerInv
  <2>3. TypeInv'
    BY <1>1, <1>2, <2>1, <2>2
  <2>4. Aligned' /\ TrackerInv'
    BY <1>1, <1>2, <1>8, <1>a, <2>1, <2>2 DEF TrackerInv, End
  <2>5. MissedIsExact'
    <3>1. (first'..(next' - 1)) \ Delivered' = {}
      BY <1>1, <1>2, <2>2
    <3>2. Cardinality({}) = 0
      BY FS_EmptySet
    <3>3. Cardinality((first'..(next' - 1)) \ Delivered') + Cardinality(late') = 0
      <4>1. Cardinality((first'..(next' - 1)) \ Delivered') = 0 /\ Cardinality(late') = 0
        BY <2>2, <3>1, <3>2, Zenon
      <4> QED BY <4>1
    <3> QED BY <2>2, <3>3, Zenon DEF MissedIsExact
  <2> QED BY <1>4, <2>3, <2>4, <2>5
<1>c. CASE started /\ p.sequence < next
  <2> DEFINE gap == (first..(next - 1)) \ Delivered
  <2>1. End(p) <= next
    BY <1>1, <1>c DEF Aligned, Inside
  <2>2. UNCHANGED <<started, next, missed, first>>
    <3>1. ~(p.sequence >= next) /\ ~(p.sequence > next)
      BY <1>9, <1>c
    <3>2. started' = started /\ next' = next /\ first' = first
      BY <1>0, <1>c, <1>e, <3>1, Zenon
    <3>3. missed' = missed
      BY <1>7, <3>1
    <3> QED BY <3>2, <3>3
  <2>3. late' = late \cup (gap \cap Carried(p))
    <3>1. {m \in Carried(p) \ Delivered : started /\ first <= m /\ m < next} = gap \cap Carried(p)
      BY <1>1, <1>c
    <3> QED BY <3>1, <1>6
  <2>4. TypeInv'
    BY <1>2, <2>2, <2>3
  <2>5. Aligned' /\ TrackerInv'
    BY <1>2, <1>8, <1>c, <2>1, <2>2 DEF Aligned, TrackerInv, End
  <2>6. MissedIsExact'
    <3>1. (first'..(next' - 1)) \ Delivered' = gap \ Carried(p)
      BY <1>2, <2>2
    <3>2. gap \cap late = {} /\ IsFiniteSet(gap)
      BY <1>9, PieceSize
    <3>3. IsFiniteSet(late)
      BY LateFinite
    <3>4. Cardinality(gap \ Carried(p)) + Cardinality(late') = Cardinality(gap) + Cardinality(late)
      BY <2>3, <3>2, <3>3, Moved
    <3>5. missed = Cardinality(gap) + Cardinality(late)
      BY <1>c DEF MissedIsExact
    <3> QED BY <2>2, <3>1, <3>4, <3>5 DEF MissedIsExact
  <2> QED BY <1>4, <2>4, <2>5, <2>6
<1>d. CASE started /\ p.sequence >= next
  <2>1. started' = TRUE /\ next' = End(p) /\ first' = first
    <3>1. started' = TRUE /\ first' = first
      BY <1>0, <1>d, <1>e, Zenon
    <3>2. next' = IF p.kind = "data" THEN End(p)
                  ELSE IF p.sequence > next THEN p.sequence ELSE next
      BY <1>0, <1>d, Zenon
    <3>3. next' = End(p)
      BY <1>1, <1>5, <1>9, <1>d, <3>2
    <3> QED BY <3>1, <3>3
  <2>2. missed' = missed + (p.sequence - next)
    BY <1>1, <1>7, <1>d
  <2>3. late' = late
    <3>1. {m \in Carried(p) \ Delivered : started /\ first <= m /\ m < next} = {}
      BY <1>1, <1>d
    <3> QED BY <3>1, <1>6
  <2>4. TypeInv'
    <3>1. next' \in 1..seq /\ next <= next' /\ first' \in 1..next'
      BY <1>1, <1>9, <1>d, <2>1
    <3>2. missed' \in Nat
      BY <1>9, <1>d, <2>2
    <3>3. heard' \subseteq network' /\ Delivered \subseteq Delivered'
      BY <1>2
    <3>4. late' \subseteq Delivered' \cap (first'..(next' - 1))
      BY <1>9, <2>1, <2>3, <3>1, <3>3
    <3> QED BY <1>2, <2>1, <3>1, <3>2, <3>3, <3>4
  <2>5. Aligned' /\ TrackerInv'
    <3>1. \A q \in heard' : End(q) \in Nat /\ End(q) <= next'
      <4>1. \A q \in heard : End(q) \in Nat /\ End(q) <= next
        BY DEF TrackerInv, End, Packets
      <4>2. End(p) \in Nat /\ next <= End(p)
        BY <1>1, <1>9, <1>d
      <4> QED BY <1>2, <1>9, <2>1, <4>1, <4>2
    <3>2. TrackerInv'
      BY <2>1, <3>1 DEF TrackerInv, End
    <3> QED BY <1>8, <1>a, <2>1, <3>2
  <2>6. MissedIsExact'
    <3> DEFINE gap == (first..(next - 1)) \ Delivered
               new == next..(p.sequence - 1)
    <3>1. (first'..(next' - 1)) \ Delivered' = gap \cup new
      BY <1>1, <1>2, <1>3, <1>d, <2>1
    <3>2. gap \cap new = {} /\ IsFiniteSet(gap) /\ Cardinality(gap) \in Nat
      <4>1. IsFiniteSet(gap) /\ Cardinality(gap) \in Nat
        BY <1>9, PieceSize
      <4>2. gap \cap new = {}
        BY <1>9
      <4> QED BY <4>1, <4>2
    <3>3. IsFiniteSet(new) /\ Cardinality(new) = p.sequence - next
      <4>1. new \ {} = new /\ new \cap {} = {}
        OBVIOUS
      <4>2. /\ IsFiniteSet(new \ {}) /\ Cardinality(new \ {}) \in Nat
            /\ Cardinality(new \ {}) + Cardinality(new \cap {}) = p.sequence - next
        BY <1>9, <1>d, PieceSize
      <4>3. Cardinality(new \cap {}) = 0
        BY <4>1, FS_EmptySet, Zenon
      <4> QED BY <4>1, <4>2, <4>3
    <3>4. Cardinality(gap \cup new) = Cardinality(gap) + Cardinality(new)
      <4>1. Cardinality(gap \cup new) =
              Cardinality(gap) + Cardinality(new) - Cardinality(gap \cap new)
        BY <3>2, <3>3, FS_Union
      <4>2. Cardinality(gap \cap new) = 0
        BY <3>2, FS_EmptySet, Zenon
      <4> QED BY <1>9, <1>d, <3>2, <3>3, <4>1, <4>2
    <3>5. missed = Cardinality(gap) + Cardinality(late)
      BY <1>d DEF MissedIsExact
    <3>6. Cardinality(late) \in Nat
      BY <3>2, <3>5, LateFinite, FS_CardinalityType
    <3>7. Cardinality(gap \cup new) + Cardinality(late) = missed + (p.sequence - next)
      BY <1>9, <3>2, <3>3, <3>4, <3>5, <3>6
    <3> QED BY <2>2, <2>3, <3>1, <3>7, Zenon DEF MissedIsExact
  <2> QED BY <1>4, <2>4, <2>5, <2>6
<1>f. p.sequence < next \/ p.sequence >= next
  BY <1>9
<1> QED BY <1>b, <1>c, <1>d, <1>f, Zenon

\* Inv is inductive, hence holds in every reachable state.
THEOREM Invariance == Spec => []Inv
<1>1. Inv /\ [Next]_vars => Inv'
  <2> SUFFICES ASSUME Inv, [Next]_vars PROVE Inv'
    OBVIOUS
  <2>1. ASSUME NEW n \in 1..PacketRoom, SendData(n) PROVE Inv'
    <3>1. n \in Nat /\ seq + n <= MaxMessages + 1 /\ closed' \in BOOLEAN
      BY <2>1, BoundsAssumption DEF SendData, Inv, TypeInv
    <3> QED BY <2>1, <3>1, SendKeeps DEF SendData
  <2>2. CASE SendHeartbeat
    <3>1. seq' = seq + 0 /\ seq + 0 <= MaxMessages + 1 /\ closed' \in BOOLEAN
      BY <2>2, BoundsAssumption DEF SendHeartbeat, Inv, TypeInv, sender
    <3> QED BY <2>2, <3>1, SendKeeps DEF SendHeartbeat
  <2>3. CASE SendEnd
    <3>1. seq' = seq + 0 /\ seq + 0 <= MaxMessages + 1 /\ closed' \in BOOLEAN
      BY <2>3, BoundsAssumption DEF SendEnd, Inv, TypeInv
    <3> QED BY <2>3, <3>1, SendKeeps DEF SendEnd
  <2>4. ASSUME NEW p \in network, Receive(p) PROVE Inv'
    BY <2>4, ReceiveKeeps
  <2>5. CASE UNCHANGED vars
    BY <2>5 DEF vars, sender, tracker, history, Inv, TypeInv, SenderInv, Aligned,
                TrackerInv, MissedIsExact, Delivered, Inside, End
  <2> QED BY <2>1, <2>2, <2>3, <2>4, <2>5 DEF Next
<1> QED BY InitInv, <1>1, PTL DEF Spec

\* MissedIsExact (the count of missed messages) holds for every session.
THEOREM MissedIsAlwaysExact == Spec => []MissedIsExact
  BY Invariance, PTL DEF Inv

\* EndAccountsForAll: once the end has been heard the tracker stands at the
\* number it announced, and what lies behind it was handed over or is missed.
THEOREM EndAlwaysAccounts == Spec => []EndAccountsForAll
<1>1. ASSUME Inv PROVE EndAccountsForAll
  <2> USE <1>1 DEF Inv, TypeInv
  <2> SUFFICES ASSUME NEW p \in heard, p.kind = "end"
               PROVE  Cardinality(Delivered \cap (first..MaxMessages)) + missed
                        = seq - first + Cardinality(late)
    BY DEF EndAccountsForAll
  <2>1. started /\ next = seq
    <3>1. p \in Packets /\ p.count = 0 /\ p.sequence = seq /\ End(p) <= next
      BY DEF SenderInv, TrackerInv
    <3>2. started
      BY DEF TrackerInv
    <3> QED BY <3>1, <3>2 DEF End
  <2>2. first \in Nat /\ next \in Nat /\ first <= next
    BY <2>1
  <2>3. Delivered \cap (first..MaxMessages) = (first..(next - 1)) \cap Delivered
    <3>1. ASSUME NEW q \in heard, NEW m \in Carried(q) PROVE m \in Int /\ m < next
      BY DEF TrackerInv, Carried, End, Packets
    <3>2. \A m \in Delivered : m \in Int /\ m < next
      BY <3>1 DEF Delivered
    <3> QED BY <2>1, <2>2, <3>2, BoundsAssumption
  <2>4. missed = Cardinality((first..(next - 1)) \ Delivered) + Cardinality(late)
    BY <2>1 DEF MissedIsExact
  <2>5. Cardinality(late) \in Nat
    BY LateFinite, FS_CardinalityType
  <2>6. /\ Cardinality((first..(next - 1)) \ Delivered) \in Nat
        /\ Cardinality((first..(next - 1)) \cap Delivered) \in Nat
        /\ Cardinality((first..(next - 1)) \ Delivered)
             + Cardinality((first..(next - 1)) \cap Delivered) = next - first
    BY <2>2, PieceSize
  <2>7. Cardinality(Delivered \cap (first..MaxMessages))
          = Cardinality((first..(next - 1)) \cap Delivered)
    BY <2>3, Zenon
  <2> QED BY <2>1, <2>2, <2>4, <2>5, <2>6, <2>7
<1> QED BY Invariance, <1>1, PTL
=============================================================================
