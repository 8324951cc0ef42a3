-------------------------- MODULE OrderBookProofs --------------------------
(***************************************************************************)
(* For every set of ids, prices, participants and policies, and any bound  *)
(* on the quantities: the id map and the level lists agree and the ladder  *)
(* holds exactly the nonempty levels, whatever sequence of calls is made;  *)
(* and a book that is only entered through matching is never crossed.      *)
(* Shares neither appear nor vanish: each level's running total is the sum *)
(* of what rests there, the counters account for every share ever added, a *)
(* call that was accepted comes to an end, and a fill-or-kill that was     *)
(* accepted fills completely.                                              *)
(*                                                                         *)
(* The book changes in three ways only (Unlink, Shrink, Rest); each has a  *)
(* lemma, and every action is one of them plus bookkeeping.  The sums are  *)
(* of the shares of sets of orders; what they are made of is shown first,  *)
(* from the recursive definition of MapThenSumSet.                         *)
(*                                                                         *)
(* The book implements the reference book, which keeps all orders in one   *)
(* list in the order they came.  And what the engine answers and publishes *)
(* of the book is enough to rebuild it: a client's count and a replayer's  *)
(* book agree with it.  Both rest on the same facts on lists that hold     *)
(* each live order once.                                                   *)
(*                                                                         *)
(* In this order: the indexes; rejected calls; sums, shares and counters;  *)
(* fill or kill; the live orders in one list; the reference book; the      *)
(* replayer, what is published, and the feed.                              *)
(***************************************************************************)
EXTENDS OrderBookArrival, EngineFeed, SequenceFacts, FiniteSetTheorems

\* What a running call has established: its id is free, so that resting it
\* cannot list an id twice, and its price is one the ladder can hold.
CallInv ==
  call # NoCall =>
    /\ ~Live(call.id)
    /\ call.left + call.filled <= call.qty
    /\ call.kind # "market" => call.price \in ValidPrices

BookInv == BookTypeOK /\ IndexesAgree /\ LevelsLive

Inv == TypeOK /\ IndexesAgree /\ LevelsLive /\ CallInv

-----------------------------------------------------------------------------
(* Positions and counters.                                                 *)

\* Position finds an element that is there.
LEMMA PositionFinds ==
  ASSUME NEW s, NEW x, \E k \in 1..Len(s) : s[k] = x
  PROVE  Position(s, x) \in 1..Len(s) /\ s[Position(s, x)] = x
  BY DEF Position

\* A counter stays a counter.
LEMMA ModRange ==
  ASSUME NEW n \in Int
  PROVE  n % CounterModulus \in Counter
  BY ModulusAssumption DEF Counter

-----------------------------------------------------------------------------
(* The three ways the book changes.                                        *)

\* Taking an order out.
LEMMA UnlinkKeeps ==
  ASSUME BookInv, NEW i \in Resting, Unlink(i)
  PROVE  /\ BookInv'
         /\ \A j : Live(j)' <=> Live(j) /\ j # i
         /\ \A s \in Sides : levels'[s] \subseteq levels[s]
<1> DEFINE o == orders[i]
           q == fifo[o.side][o.price]
           n == Position(q, i)
           r == RemoveAt(q, n)
<1>1. o \in Order /\ i \in Ids /\ o.side \in Sides /\ o.price \in ValidPrices
  BY DEF BookInv, BookTypeOK, Resting, Order
<1>2. q \in Seq(Ids)
  BY <1>1 DEF BookInv, BookTypeOK
<1>3. n \in 1..Len(q) /\ q[n] = i
  <2>1. \E k \in DOMAIN q : q[k] = i
    BY DEF BookInv, IndexesAgree
  <2> QED BY <2>1, <1>2, PositionFinds, LenProperties
<1>4. \A j, k \in 1..Len(q) : q[j] = q[k] => j = k
  BY <1>1, <1>2, LenProperties DEF BookInv, IndexesAgree
<1>5. r \in Seq(Ids)
  BY <1>2, <1>3, RemoveAtIs
<1>6. /\ \A k \in 1..Len(r) : r[k] # i /\ \E j \in 1..Len(q) : r[k] = q[j]
      /\ \A j \in 1..Len(q) : q[j] # i => \E k \in 1..Len(r) : r[k] = q[j]
      /\ \A j, k \in 1..Len(r) : r[j] = r[k] => j = k
  <2> HIDE DEF q, n
  <2> QED BY <1>2, <1>3, <1>4, RemoveAtElements
<1>9. /\ orders' = [orders EXCEPT ![i] = NoOrder]
      /\ fifo' = [fifo EXCEPT ![o.side][o.price] = r]
      /\ total' = [total EXCEPT ![o.side][o.price] = @ - o.qty]
      /\ levels' = IF r = <<>> THEN [levels EXCEPT ![o.side] = @ \ {o.price}] ELSE levels
  BY DEF Unlink
<1>10. DOMAIN q = 1..Len(q) /\ DOMAIN r = 1..Len(r)
  BY <1>2, <1>5, LenProperties
<1> HIDE DEF q, n, r
<1>11. fifo'[o.side][o.price] = r
  BY <1>1, <1>9 DEF BookInv, BookTypeOK
<1>12. \A s \in Sides, p \in ValidPrices :
         ~(s = o.side /\ p = o.price) => fifo'[s][p] = fifo[s][p]
  BY <1>1, <1>9 DEF BookInv, BookTypeOK
<1>13. \A j \in Ids : orders'[j] = IF j = i THEN NoOrder ELSE orders[j]
  BY <1>9 DEF BookInv, BookTypeOK
<1>14. \A j : Live(j)' <=> Live(j) /\ j # i
  BY <1>13 DEF Live
<1>15. BookTypeOK'
  <2>1. orders' \in [Ids -> Order \cup {NoOrder}]
    BY <1>9 DEF BookInv, BookTypeOK
  <2>2. fifo' \in [Sides -> [ValidPrices -> Seq(Ids)]]
    BY <1>1, <1>5, <1>9 DEF BookInv, BookTypeOK
  <2>3. total' \in [Sides -> [ValidPrices -> Int]]
    <3>1. o.qty \in Int
      BY <1>1, QtyAssumption DEF Order, Qtys
    <3>2. total[o.side][o.price] - o.qty \in Int
      BY <1>1, <3>1 DEF BookInv, BookTypeOK
    <3> QED BY <1>1, <1>9, <3>2 DEF BookInv, BookTypeOK
  <2>4. levels' \in [Sides -> SUBSET ValidPrices]
    BY <1>1, <1>9 DEF BookInv, BookTypeOK
  <2> QED BY <2>1, <2>2, <2>3, <2>4 DEF BookTypeOK
<1>16. ASSUME NEW s \in Sides, NEW p \in ValidPrices, NEW k \in DOMAIN fifo'[s][p]
       PROVE  /\ fifo'[s][p][k] \in Resting'
              /\ orders'[fifo'[s][p][k]].side = s
              /\ orders'[fifo'[s][p][k]].price = p
  <2>1. CASE s = o.side /\ p = o.price
    <3>1. PICK j \in 1..Len(q) : r[k] = q[j]
      BY <2>1, <1>6, <1>10, <1>11
    <3>2. r[k] # i
      BY <2>1, <1>6, <1>10, <1>11
    <3>3. Live(q[j]) /\ orders[q[j]].side = s /\ orders[q[j]].price = p
      BY <2>1, <1>1, <1>10 DEF BookInv, IndexesAgree, q
    <3> QED BY <2>1, <3>1, <3>2, <3>3, <1>11, <1>13 DEF Live, Resting
  <2>2. CASE ~(s = o.side /\ p = o.price)
    <3>1. k \in DOMAIN fifo[s][p] /\ fifo'[s][p][k] = fifo[s][p][k]
      BY <2>2, <1>12
    <3> DEFINE j == fifo[s][p][k]
    <3>2. Live(j) /\ orders[j].side = s /\ orders[j].price = p
      BY <3>1 DEF BookInv, IndexesAgree
    <3>3. j # i
      BY <2>2, <3>2
    <3> QED BY <3>1, <3>2, <3>3, <1>13 DEF Live, Resting
  <2> QED BY <2>1, <2>2
<1>17. ASSUME NEW j \in Resting'
       PROVE  \E k \in DOMAIN fifo'[orders'[j].side][orders'[j].price] :
                fifo'[orders'[j].side][orders'[j].price][k] = j
  <2>1. j \in Resting /\ j # i /\ orders'[j] = orders[j]
    BY <1>13 DEF Resting
  <2>2. PICK k \in DOMAIN fifo[orders[j].side][orders[j].price] :
          fifo[orders[j].side][orders[j].price][k] = j
    BY <2>1 DEF BookInv, IndexesAgree
  <2>3. orders[j].side \in Sides /\ orders[j].price \in ValidPrices
    BY <2>1 DEF BookInv, BookTypeOK, Resting, Order
  <2>4. CASE orders[j].side = o.side /\ orders[j].price = o.price
    <3>1. k \in 1..Len(q) /\ q[k] = j
      BY <2>2, <2>4, <1>10 DEF q
    <3>2. \E m \in 1..Len(r) : r[m] = j
      BY <3>1, <2>1, <1>6
    <3> QED BY <3>2, <2>1, <2>4, <1>10, <1>11
  <2>5. CASE ~(orders[j].side = o.side /\ orders[j].price = o.price)
    BY <2>1, <2>2, <2>3, <2>5, <1>12
  <2> QED BY <2>4, <2>5
<1>18. ASSUME NEW s \in Sides, NEW p \in ValidPrices,
              NEW j \in DOMAIN fifo'[s][p], NEW k \in DOMAIN fifo'[s][p],
              fifo'[s][p][j] = fifo'[s][p][k]
       PROVE  j = k
  <2>1. CASE s = o.side /\ p = o.price
    BY <2>1, <1>6, <1>10, <1>11, <1>18
  <2>2. CASE ~(s = o.side /\ p = o.price)
    BY <2>2, <1>12, <1>18 DEF BookInv, IndexesAgree
  <2> QED BY <2>1, <2>2
<1>19. IndexesAgree'
  BY <1>16, <1>17, <1>18 DEF IndexesAgree, Live, Resting
<1>20. LevelsLive'
  <2> SUFFICES ASSUME NEW s \in Sides, NEW p \in ValidPrices
               PROVE  p \in levels'[s] <=> fifo'[s][p] # <<>>
    BY DEF LevelsLive
  <2>0. p \in levels[s] <=> fifo[s][p] # <<>>
    BY DEF BookInv, LevelsLive
  <2>1. CASE s = o.side /\ p = o.price
    <3>1. p \in levels[s]
      BY <2>0, <2>1, <1>2, <1>3, EmptySeq DEF q
    <3> QED BY <2>1, <3>1, <1>1, <1>9, <1>11 DEF BookInv, BookTypeOK
  <2>2. CASE ~(s = o.side /\ p = o.price)
    BY <2>0, <2>2, <1>1, <1>9, <1>12 DEF BookInv, BookTypeOK
  <2> QED BY <2>1, <2>2
<1>21. \A s \in Sides : levels'[s] \subseteq levels[s]
  BY <1>1, <1>9 DEF BookInv, BookTypeOK
<1> QED BY <1>14, <1>15, <1>19, <1>20, <1>21 DEF BookInv

\* Reducing an order in place.
LEMMA ShrinkKeeps ==
  ASSUME BookInv, NEW i \in Resting, NEW n \in Nat, n < orders[i].qty, Shrink(i, n)
  PROVE  /\ BookInv'
         /\ \A j : Live(j)' <=> Live(j)
         /\ UNCHANGED levels
<1> DEFINE o == orders[i]
<1>1. o \in Order /\ i \in Ids
  BY DEF BookInv, BookTypeOK, Resting
<1>2. o.qty - n \in Qtys
  BY <1>1, QtyAssumption DEF Order, Qtys
<1>3. /\ orders' = [orders EXCEPT ![i].qty = o.qty - n]
      /\ total' = [total EXCEPT ![o.side][o.price] = @ - n]
      /\ UNCHANGED <<fifo, levels>>
  BY DEF Shrink
<1>4. [o EXCEPT !.qty = o.qty - n] \in Order
  BY <1>1, <1>2 DEF Order
<1>5. orders' = [orders EXCEPT ![i] = [o EXCEPT !.qty = o.qty - n]]
  BY <1>3
<1>6. BookTypeOK'
  <2>1. orders' \in [Ids -> Order \cup {NoOrder}]
    BY <1>1, <1>4, <1>5 DEF BookInv, BookTypeOK
  <2>2. total' \in [Sides -> [ValidPrices -> Int]]
    <3>1. o.side \in Sides /\ o.price \in ValidPrices
      BY <1>1 DEF Order
    <3>2. total[o.side][o.price] - n \in Int
      BY <3>1 DEF BookInv, BookTypeOK
    <3> QED BY <1>3, <3>1, <3>2 DEF BookInv, BookTypeOK
  <2> QED BY <1>3, <2>1, <2>2 DEF BookInv, BookTypeOK
<1>7. ASSUME NEW j \in Ids
      PROVE  /\ (orders'[j] = NoOrder) <=> (orders[j] = NoOrder)
             /\ orders'[j].side = orders[j].side
             /\ orders'[j].price = orders[j].price
  <2>1. CASE j = i
    <3>1. orders'[j] = [o EXCEPT !.qty = o.qty - n]
      BY <2>1, <1>5 DEF BookInv, BookTypeOK
    <3>2. orders'[j] # NoOrder /\ orders[j] # NoOrder
      BY <2>1, <3>1, <1>4, NoOrderAssumption DEF Resting
    <3>3. orders'[j].side = o.side /\ orders'[j].price = o.price
      BY <3>1, <1>1 DEF Order
    <3> QED BY <2>1, <3>2, <3>3
  <2>2. CASE j # i
    BY <2>2, <1>5 DEF BookInv, BookTypeOK
  <2> QED BY <2>1, <2>2
<1>8. \A j : Live(j)' <=> Live(j)
  BY <1>7 DEF Live
<1>9. IndexesAgree'
  <2>1. Resting' = Resting
    BY <1>7 DEF Resting
  <2>2. \A j \in Resting : /\ orders'[j].side = orders[j].side
                           /\ orders'[j].price = orders[j].price
    BY <1>7 DEF Resting
  <2>3. \A s \in Sides, p \in ValidPrices : \A k \in DOMAIN fifo[s][p] :
          /\ fifo[s][p][k] \in Resting
          /\ orders[fifo[s][p][k]].side = s /\ orders[fifo[s][p][k]].price = p
    BY DEF BookInv, IndexesAgree, Live, Resting
  <2>4. \A s \in Sides, p \in ValidPrices : \A k \in DOMAIN fifo'[s][p] :
          /\ fifo'[s][p][k] \in Resting'
          /\ orders'[fifo'[s][p][k]].side = s /\ orders'[fifo'[s][p][k]].price = p
    BY <1>3, <2>1, <2>2, <2>3
  <2>5. \A j \in Resting' :
          \E k \in DOMAIN fifo'[orders'[j].side][orders'[j].price] :
            fifo'[orders'[j].side][orders'[j].price][k] = j
    BY <1>3, <2>1, <2>2 DEF BookInv, IndexesAgree
  <2>6. \A s \in Sides, p \in ValidPrices : \A j, k \in DOMAIN fifo'[s][p] :
          fifo'[s][p][j] = fifo'[s][p][k] => j = k
    BY <1>3 DEF BookInv, IndexesAgree
  <2> QED BY <2>4, <2>5, <2>6 DEF IndexesAgree, Live, Resting
<1>10. LevelsLive'
  BY <1>3 DEF BookInv, LevelsLive
<1> QED BY <1>3, <1>6, <1>8, <1>9, <1>10 DEF BookInv

\* Adding an order at the end of its level.
LEMMA RestKeeps ==
  ASSUME BookInv, NEW i \in Ids, ~Live(i), NEW side \in Sides, NEW price \in ValidPrices,
         NEW qty \in Qtys, NEW actor \in Participants, Rest(i, side, price, qty, actor)
  PROVE  /\ BookInv'
         /\ \A j : Live(j)' <=> Live(j) \/ j = i
         /\ levels' = [levels EXCEPT ![side] = @ \cup {price}]
<1> DEFINE o == [side |-> side, price |-> price, qty |-> qty, participant |-> actor]
           q == fifo[side][price]
           r == Append(q, i)
<1>1. o \in Order /\ o # NoOrder
  BY NoOrderAssumption DEF Order
<1>2. /\ orders' = [orders EXCEPT ![i] = o]
      /\ fifo' = [fifo EXCEPT ![side][price] = r]
      /\ total' = [total EXCEPT ![side][price] = @ + qty]
      /\ levels' = [levels EXCEPT ![side] = @ \cup {price}]
  BY DEF Rest
<1>3. q \in Seq(Ids) /\ r \in Seq(Ids) /\ Len(q) \in Nat
  BY LenProperties, AppendProperties DEF BookInv, BookTypeOK
<1>4. /\ Len(r) = Len(q) + 1 /\ r # <<>> /\ r[Len(q) + 1] = i
      /\ \A k \in 1..Len(q) : r[k] = q[k]
  BY <1>3, AppendProperties
<1>5. DOMAIN q = 1..Len(q) /\ DOMAIN r = 1..Len(r)
  BY <1>3, LenProperties
<1>6. \A k \in 1..Len(q) : /\ q[k] \in Resting /\ q[k] # i
                           /\ orders[q[k]].side = side /\ orders[q[k]].price = price
  BY <1>5 DEF BookInv, IndexesAgree, Live, Resting
<1>7. \A j, k \in 1..Len(q) : q[j] = q[k] => j = k
  BY <1>5 DEF BookInv, IndexesAgree
<1> HIDE DEF q, r
<1>8. fifo'[side][price] = r
  BY <1>2 DEF BookInv, BookTypeOK
<1>9. \A s \in Sides, p \in ValidPrices :
        ~(s = side /\ p = price) => fifo'[s][p] = fifo[s][p]
  BY <1>2 DEF BookInv, BookTypeOK
<1>10. \A j \in Ids : orders'[j] = IF j = i THEN o ELSE orders[j]
  BY <1>2 DEF BookInv, BookTypeOK
<1>11. o.side = side /\ o.price = price
  OBVIOUS
<1> HIDE DEF o
<1>12. \A j : Live(j)' <=> Live(j) \/ j = i
  BY <1>1, <1>10 DEF Live
<1>13. BookTypeOK'
  <2>1. orders' \in [Ids -> Order \cup {NoOrder}]
    BY <1>1, <1>2 DEF BookInv, BookTypeOK
  <2>2. fifo' \in [Sides -> [ValidPrices -> Seq(Ids)]]
    BY <1>2, <1>3 DEF BookInv, BookTypeOK
  <2>3. total' \in [Sides -> [ValidPrices -> Int]]
    <3>1. total[side][price] + qty \in Int
      BY QtyAssumption DEF BookInv, BookTypeOK, Qtys
    <3> QED BY <1>2, <3>1 DEF BookInv, BookTypeOK
  <2>4. levels' \in [Sides -> SUBSET ValidPrices]
    BY <1>2 DEF BookInv, BookTypeOK
  <2> QED BY <2>1, <2>2, <2>3, <2>4 DEF BookTypeOK
<1>14. ASSUME NEW s \in Sides, NEW p \in ValidPrices, NEW k \in DOMAIN fifo'[s][p]
       PROVE  /\ fifo'[s][p][k] \in Resting'
              /\ orders'[fifo'[s][p][k]].side = s
              /\ orders'[fifo'[s][p][k]].price = p
  <2>1. CASE s = side /\ p = price
    <3>1. CASE k = Len(q) + 1
      BY <2>1, <3>1, <1>1, <1>4, <1>8, <1>10, <1>11 DEF Resting
    <3>2. CASE k # Len(q) + 1
      <4>1. k \in 1..Len(q)
        BY <2>1, <3>2, <1>3, <1>4, <1>5, <1>8
      <4> QED BY <2>1, <4>1, <1>4, <1>6, <1>8, <1>10 DEF Resting
    <3> QED BY <3>1, <3>2
  <2>2. CASE ~(s = side /\ p = price)
    <3>1. k \in DOMAIN fifo[s][p] /\ fifo'[s][p][k] = fifo[s][p][k]
      BY <2>2, <1>9
    <3>2. /\ fifo[s][p][k] \in Resting
          /\ orders[fifo[s][p][k]].side = s /\ orders[fifo[s][p][k]].price = p
      BY <3>1 DEF BookInv, IndexesAgree, Live, Resting
    <3>3. fifo[s][p][k] # i
      BY <3>2 DEF Live, Resting
    <3> QED BY <3>1, <3>2, <3>3, <1>10 DEF Resting
  <2> QED BY <2>1, <2>2
<1>15. ASSUME NEW j \in Resting'
       PROVE  \E k \in DOMAIN fifo'[orders'[j].side][orders'[j].price] :
                fifo'[orders'[j].side][orders'[j].price][k] = j
  <2>1. CASE j = i
    <3>1. Len(q) + 1 \in 1..Len(r) /\ r[Len(q) + 1] = j
      BY <2>1, <1>3, <1>4
    <3> QED BY <2>1, <3>1, <1>5, <1>8, <1>10, <1>11
  <2>2. CASE j # i
    <3>1. j \in Resting /\ orders'[j] = orders[j]
      BY <2>2, <1>10 DEF Resting
    <3>2. PICK k \in DOMAIN fifo[orders[j].side][orders[j].price] :
            fifo[orders[j].side][orders[j].price][k] = j
      BY <3>1 DEF BookInv, IndexesAgree
    <3>3. orders[j].side \in Sides /\ orders[j].price \in ValidPrices
      BY <3>1 DEF BookInv, BookTypeOK, Resting, Order
    <3>4. CASE orders[j].side = side /\ orders[j].price = price
      <4>1. k \in 1..Len(r) /\ r[k] = j
        BY <3>2, <3>4, <1>3, <1>4, <1>5 DEF q
      <4> QED BY <3>1, <3>4, <4>1, <1>5, <1>8
    <3>5. CASE ~(orders[j].side = side /\ orders[j].price = price)
      BY <3>1, <3>2, <3>3, <3>5, <1>9
    <3> QED BY <3>4, <3>5
  <2> QED BY <2>1, <2>2
<1>16. ASSUME NEW s \in Sides, NEW p \in ValidPrices,
              NEW j \in DOMAIN fifo'[s][p], NEW k \in DOMAIN fifo'[s][p],
              fifo'[s][p][j] = fifo'[s][p][k]
       PROVE  j = k
  <2>1. CASE s = side /\ p = price
    <3>1. j \in 1..(Len(q) + 1) /\ k \in 1..(Len(q) + 1) /\ r[j] = r[k]
      BY <2>1, <1>4, <1>5, <1>8, <1>16
    <3> QED BY <3>1, <1>3, <1>4, <1>6, <1>7
  <2>2. CASE ~(s = side /\ p = price)
    BY <2>2, <1>9, <1>16 DEF BookInv, IndexesAgree
  <2> QED BY <2>1, <2>2
<1>17. IndexesAgree'
  BY <1>14, <1>15, <1>16 DEF IndexesAgree, Live, Resting
<1>18. LevelsLive'
  BY <1>2, <1>4, <1>8, <1>9 DEF BookInv, BookTypeOK, LevelsLive
<1> QED BY <1>2, <1>12, <1>13, <1>17, <1>18 DEF BookInv

-----------------------------------------------------------------------------
(* Bookkeeping facts the actions share.                                    *)

\* Counting keeps the counters counters.
LEMMA CountKeeps ==
  ASSUME counters \in Counters, NEW n \in Int,
         NEW f \in {"added", "traded", "canceled", "executed", "prevented"}
  PROVE  Count(f, n) \in Counters
<1>1. \A x \in Counter : (x + n) % CounterModulus \in Counter
  BY ModRange, ModulusAssumption DEF Counter
<1> QED BY <1>1 DEF Count, Counters

\* Counting a second event in the same step.
LEMMA CountAgainKeeps ==
  ASSUME NEW c \in Counters, NEW n \in Int
  PROVE  /\ [c EXCEPT !.added = (@ + n) % CounterModulus] \in Counters
         /\ [c EXCEPT !.prevented = (@ + 1) % CounterModulus] \in Counters
<1>1. \A x \in Counter : (x + n) % CounterModulus \in Counter
  BY ModRange, ModulusAssumption DEF Counter
<1>2. \A x \in Counter : (x + 1) % CounterModulus \in Counter
  BY ModRange, ModulusAssumption DEF Counter
<1> QED BY <1>1, <1>2 DEF Counters

\* What validation has checked when it answers Ok.
LEMMA ValidateOk ==
  ASSUME NEW kind, NEW i \in Ids \cup {0}, NEW price, NEW qty \in 0..MaxQty
  PROVE  /\ Validate(kind, i, price, qty) \in Results
         /\ Validate(kind, i, price, qty) = "Ok" =>
              /\ i \in Ids /\ qty \in Qtys /\ ~Live(i)
              /\ kind # "market" => price \in ValidPrices
  BY QtyAssumption DEF Validate, Results, Qtys

\* The head of a level that can be matched is a live order of that level.
LEMMA HeadIsResting ==
  ASSUME BookInv, NEW s \in Sides, NEW p \in levels[s]
  PROVE  /\ p \in ValidPrices /\ Head(fifo[s][p]) \in Resting
         /\ orders[Head(fifo[s][p])].side = s /\ orders[Head(fifo[s][p])].price = p
<1>1. p \in ValidPrices
  BY DEF BookInv, BookTypeOK
<1> DEFINE q == fifo[s][p]
<1>2. q \in Seq(Ids) /\ q # <<>>
  BY <1>1 DEF BookInv, BookTypeOK, LevelsLive
<1>3. 1 \in DOMAIN q /\ Head(q) = q[1]
  BY <1>2, EmptySeq, LenProperties
<1> QED BY <1>1, <1>3 DEF BookInv, IndexesAgree, Live, Resting

\* Levels only go away.
LevelsFall == \A s \in Sides : levels'[s] \subseteq levels[s]

\* Taking levels away cannot cross the book.
LEMMA FallKeepsUncrossed ==
  NeverCrossed /\ LevelsFall => NeverCrossed'
  BY DEF NeverCrossed, LevelsFall, Sides

\* Nothing happens to the book.
LEMMA SameBook ==
  ASSUME BookInv, UNCHANGED book
  PROVE  BookInv' /\ (\A j : Live(j)' <=> Live(j)) /\ LevelsFall
<1> USE DEF book
<1>1. BookTypeOK'
  BY DEF BookInv, BookTypeOK
<1>2. \A j : Live(j)' <=> Live(j)
  BY DEF Live
<1>3. IndexesAgree'
  BY DEF BookInv, IndexesAgree, Live, Resting
<1>4. LevelsLive'
  BY DEF BookInv, LevelsLive
<1> QED BY <1>1, <1>2, <1>3, <1>4 DEF BookInv, LevelsFall

\* A rejection changes nothing but the result.
LEMMA RejectKeeps ==
  ASSUME Inv, NEW r \in Results, Reject(r)
  PROVE  Inv' /\ LevelsFall
<1>1. UNCHANGED <<stp, book, counters, call, exec>> /\ result' = r
  BY DEF Reject
<1>2. BookInv' /\ (\A j : Live(j)' <=> Live(j)) /\ LevelsFall
  BY <1>1, SameBook DEF Inv, TypeOK, BookInv
<1>3. TypeOK'
  BY <1>1, <1>2 DEF Inv, TypeOK, BookInv
<1>4. CallInv'
  BY <1>1, <1>2 DEF Inv, CallInv
<1> QED BY <1>2, <1>3, <1>4 DEF Inv, BookInv

-----------------------------------------------------------------------------
(* The indexes: one lemma per action.                                      *)

\* One lemma for each action: it keeps the invariant, and a level that disappears
\* was emptied by it. First, an order or a replacement enters.
LEMMA EnterKeeps ==
  ASSUME Inv, NEW kind \in Kinds, NEW actor \in Participants, NEW i \in Ids \cup {0},
         NEW side \in Sides, NEW price \in Prices, NEW qty \in 0..MaxQty,
         Enter(kind, actor, i, side, price, qty)
  PROVE  Inv' /\ LevelsFall
<1> DEFINE r == Screen(kind, actor, i, side, price, qty)
<1>1. r \in Results /\ (r = "Ok" => Validate(kind, i, price, qty) = "Ok")
  <2>1. Validate(kind, i, price, qty) \in Results
    BY ValidateOk
  <2> QED BY <2>1 DEF Screen, Results
<1>2. CASE r # "Ok"
  <2>1. Reject(r)
    BY <1>2 DEF Enter
  <2> QED BY <1>1, <2>1, RejectKeeps
<1>3. CASE r = "Ok"
  <2>1. /\ i \in Ids /\ qty \in Qtys /\ ~Live(i)
        /\ kind # "market" => price \in ValidPrices
    BY <1>1, <1>3, ValidateOk
  <2>2. /\ call' = [kind |-> kind, actor |-> actor, id |-> i, side |-> side,
                    price |-> price, qty |-> qty, left |-> qty, filled |-> 0]
        /\ counters' = Count("added", qty)
        /\ UNCHANGED <<stp, book, exec, result>>
    BY <1>3 DEF Enter, StartMatching, Reject
  <2> HIDE DEF r
  <2>3. call' \in Call
    BY <2>1, <2>2, KindsAssumption, QtyAssumption DEF Call, Qtys
  <2>4. counters' \in Counters
    BY <2>2, CountKeeps DEF Inv, TypeOK
  <2>5. BookInv' /\ (\A j : Live(j)' <=> Live(j)) /\ LevelsFall
    BY <2>2, SameBook DEF Inv, TypeOK, BookInv
  <2>6. TypeOK'
    BY <2>2, <2>3, <2>4, <2>5 DEF Inv, TypeOK, BookInv
  <2>7. CallInv'
    BY <2>1, <2>2, <2>5, QtyAssumption DEF CallInv, Qtys
  <2> QED BY <2>5, <2>6, <2>7 DEF Inv, BookInv
<1> QED BY <1>2, <1>3

\* A trade.
LEMMA FillKeeps ==
  ASSUME Inv, NEW p \in ValidPrices, Fill(p)
  PROVE  Inv' /\ LevelsFall
<1> DEFINE resting == Front1(p)
           o == orders[resting]
           fill == Min2(call.left, o.qty)
<1>1. call \in Call /\ call.left > 0 /\ p \in levels[Opposite(call.side)]
  BY DEF Fill, CanMatch, IsBest, Inv, TypeOK
<1>2. Opposite(call.side) \in Sides
  BY <1>1 DEF Call, Opposite, Sides
<1>3. resting \in Resting /\ o.price = p
  BY <1>1, <1>2, HeadIsResting DEF Inv, TypeOK, BookInv, Front1
<1>4. o.qty \in Qtys /\ resting \in Ids
  BY <1>3 DEF Inv, TypeOK, BookTypeOK, Resting, Order
<1>5. /\ call.left \in 0..MaxQty /\ call.filled \in 0..MaxQty /\ call.qty \in Qtys
      /\ call.left + call.filled <= call.qty /\ ~Live(call.id) /\ call.id \in Ids
      /\ call.kind # "market" => call.price \in ValidPrices
  BY <1>1, NoCallAssumption DEF Call, Inv, CallInv
<1>6. fill \in Qtys /\ fill <= call.left /\ fill <= o.qty
  BY <1>1, <1>4, <1>5, QtyAssumption DEF Qtys, Min2
<1>7. /\ IF fill = o.qty THEN Unlink(resting) ELSE Shrink(resting, fill)
      /\ call' = [call EXCEPT !.left = @ - fill, !.filled = @ + fill]
      /\ counters' = Count("traded", fill)
      /\ exec' = [resting |-> resting, aggressor |-> call.id, price |-> p, qty |-> fill]
      /\ UNCHANGED <<stp, result>>
  BY DEF Fill
<1> HIDE DEF resting, fill
<1>8. BookInv' /\ (\A j : Live(j)' => Live(j)) /\ LevelsFall
  <2>1. CASE fill = o.qty
    BY <1>3, <1>7, <2>1, UnlinkKeeps DEF Inv, TypeOK, BookInv, LevelsFall
  <2>2. CASE fill # o.qty
    <3>1. fill \in Nat /\ fill < o.qty
      BY <1>4, <1>6, <2>2, QtyAssumption DEF Qtys
    <3> QED BY <1>3, <1>7, <2>2, <3>1, ShrinkKeeps DEF Inv, TypeOK, BookInv, LevelsFall
  <2> QED BY <2>1, <2>2
<1>9. call' \in Call
  <2>1. call.left - fill \in 0..MaxQty /\ call.filled + fill \in 0..MaxQty
    BY <1>5, <1>6, QtyAssumption DEF Qtys
  <2> QED BY <1>1, <1>7, <2>1 DEF Call
<1>10. counters' \in Counters
  <2>1. fill \in Int
    BY <1>6, QtyAssumption DEF Qtys
  <2> QED BY <1>7, <2>1, CountKeeps DEF Inv, TypeOK
<1>11. exec' \in Execution
  BY <1>4, <1>5, <1>6, <1>7 DEF Execution
<1>12. TypeOK'
  BY <1>7, <1>8, <1>9, <1>10, <1>11 DEF Inv, TypeOK, BookInv
<1>13. CallInv'
  <2>1. /\ call'.id = call.id /\ call'.kind = call.kind /\ call'.price = call.price
        /\ call'.qty = call.qty /\ call'.left = call.left - fill
        /\ call'.filled = call.filled + fill
    BY <1>1, <1>7 DEF Call
  <2>2. call'.left + call'.filled <= call'.qty
    BY <1>5, <1>6, <2>1, QtyAssumption DEF Qtys
  <2>3. ~Live(call.id)'
    BY <1>5, <1>8, <2>1 DEF Live
  <2> QED BY <1>5, <2>1, <2>2, <2>3 DEF CallInv
<1> QED BY <1>8, <1>12, <1>13 DEF Inv, BookInv

\* A self-trade that is prevented.
LEMMA PreventKeeps ==
  ASSUME Inv, NEW p \in ValidPrices, PreventSelfTrade(p)
  PROVE  Inv' /\ LevelsFall
<1> DEFINE resting == Front1(p)
           o == orders[resting]
           killed == (IF KillsResting THEN o.qty ELSE 0)
                     + (IF KillsAggressor THEN call.left ELSE 0)
           left == IF KillsAggressor THEN 0 ELSE call.left
<1>1. call \in Call /\ p \in levels[Opposite(call.side)]
  BY DEF PreventSelfTrade, CanMatch, IsBest, Inv, TypeOK
<1>2. Opposite(call.side) \in Sides
  BY <1>1 DEF Call, Opposite, Sides
<1>3. resting \in Resting
  BY <1>1, <1>2, HeadIsResting DEF Inv, TypeOK, BookInv, Front1
<1>4. o.qty \in Qtys
  BY <1>3 DEF Inv, TypeOK, BookTypeOK, Resting, Order
<1>5. /\ call.left \in 0..MaxQty /\ call.filled \in 0..MaxQty /\ call.qty \in Qtys
      /\ call.left + call.filled <= call.qty /\ ~Live(call.id)
      /\ call.kind # "market" => call.price \in ValidPrices
  BY <1>1, NoCallAssumption DEF Call, Inv, CallInv
<1>6. /\ IF KillsResting THEN Unlink(resting) ELSE UNCHANGED book
      /\ call' = [call EXCEPT !.left = left]
      /\ counters' = [Count("canceled", killed) EXCEPT !.prevented = (@ + 1) % CounterModulus]
      /\ exec' = NoExec
      /\ UNCHANGED <<stp, result>>
  BY DEF PreventSelfTrade
<1>7. killed \in Int /\ left \in 0..MaxQty /\ left <= call.left
  BY <1>4, <1>5, QtyAssumption DEF Qtys
<1> HIDE DEF resting, killed, left
<1>8. BookInv' /\ (\A j : Live(j)' => Live(j)) /\ LevelsFall
  <2>1. CASE KillsResting
    BY <1>3, <1>6, <2>1, UnlinkKeeps DEF Inv, TypeOK, BookInv, LevelsFall
  <2>2. CASE ~KillsResting
    BY <1>6, <2>2, SameBook DEF Inv, TypeOK, BookInv
  <2> QED BY <2>1, <2>2
<1>9. call' \in Call
  BY <1>1, <1>6, <1>7 DEF Call
<1>10. counters' \in Counters
  <2> DEFINE c == Count("canceled", killed)
  <2>1. c \in Counters
    BY <1>7, CountKeeps DEF Inv, TypeOK
  <2>2. counters' = [c EXCEPT !.prevented = (@ + 1) % CounterModulus]
    BY <1>6
  <2> HIDE DEF c
  <2>3. [c EXCEPT !.prevented = (@ + 1) % CounterModulus] \in Counters
    <3>1. 1 \in Int
      OBVIOUS
    <3> QED BY <2>1, <3>1, CountAgainKeeps
  <2> QED BY <2>2, <2>3
<1>11. TypeOK'
  BY <1>6, <1>8, <1>9, <1>10 DEF Inv, TypeOK, BookInv
<1>12. CallInv'
  <2>1. /\ call'.id = call.id /\ call'.kind = call.kind /\ call'.price = call.price
        /\ call'.qty = call.qty /\ call'.left = left /\ call'.filled = call.filled
    BY <1>1, <1>6 DEF Call
  <2>2. call'.left + call'.filled <= call'.qty
    BY <1>5, <1>7, <2>1, QtyAssumption DEF Qtys
  <2>3. ~Live(call.id)'
    BY <1>5, <1>8, <2>1 DEF Live
  <2> QED BY <1>5, <2>1, <2>2, <2>3 DEF CallInv
<1> QED BY <1>8, <1>11, <1>12 DEF Inv, BookInv

\* Finishing is the only step of matching that can add a level, and it does so
\* only when nothing on the other side crosses.
LEMMA FinishKeeps ==
  ASSUME Inv, Finish
  PROVE  Inv' /\ (NeverCrossed => NeverCrossed')
<1>1. call \in Call /\ MatchOver /\ call' = NoCall /\ exec' = NoExec /\ result' = "Ok"
      /\ UNCHANGED stp
  BY DEF Finish, MatchOver, Inv, TypeOK
<1>2. /\ call.left \in 0..MaxQty /\ call.id \in Ids /\ ~Live(call.id)
      /\ call.side \in Sides /\ call.actor \in Participants
      /\ call.kind # "market" => call.price \in ValidPrices
  BY <1>1, NoCallAssumption DEF Call, Inv, CallInv
<1>3. CallInv'
  BY <1>1 DEF CallInv
<1>4. CASE call.kind = "limit" /\ call.left > 0
  <2>1. /\ Rest(call.id, call.side, call.price, call.left, call.actor)
        /\ UNCHANGED counters
    BY <1>4 DEF Finish
  <2>2. call.left \in Qtys /\ call.price \in ValidPrices
    BY <1>2, <1>4, QtyAssumption DEF Qtys
  <2>3. BookInv' /\ levels' = [levels EXCEPT ![call.side] = @ \cup {call.price}]
    BY <1>2, <2>1, <2>2, RestKeeps DEF Inv, TypeOK, BookInv
  <2>4. TypeOK'
    BY <1>1, <2>1, <2>3 DEF Inv, TypeOK, BookInv, Results
  <2>5. ASSUME NeverCrossed PROVE NeverCrossed'
    <3>1. \A q \in levels[Opposite(call.side)] :
            ~(IF call.side = "Bid" THEN call.price >= q ELSE call.price <= q)
      BY <1>1, <1>4, <1>2, QtyAssumption DEF MatchOver, Crosses
    <3>2. levels \in [Sides -> SUBSET ValidPrices] /\ ValidPrices \subseteq Int
      BY PricesAssumption DEF Inv, TypeOK, BookTypeOK
    <3>3. CASE call.side = "Bid"
      <4>1. levels'["Bid"] = levels["Bid"] \cup {call.price} /\ levels'["Ask"] = levels["Ask"]
        BY <2>3, <3>2, <3>3 DEF Sides
      <4>2. \A a \in levels["Ask"] : ~(call.price >= a)
        BY <3>1, <3>3 DEF Opposite
      <4>3. call.price \in Int /\ levels["Ask"] \subseteq Int
        BY <2>2, <3>2 DEF Sides
      <4>4. \A a \in levels["Ask"] : call.price < a
        BY <4>2, <4>3
      <4> QED BY <2>5, <4>1, <4>4 DEF NeverCrossed
    <3>4. CASE call.side = "Ask"
      <4>1. levels'["Ask"] = levels["Ask"] \cup {call.price} /\ levels'["Bid"] = levels["Bid"]
        BY <2>3, <3>2, <3>4 DEF Sides
      <4>2. \A b \in levels["Bid"] : ~(call.price <= b)
        BY <3>1, <3>4 DEF Opposite
      <4>3. call.price \in Int /\ levels["Bid"] \subseteq Int
        BY <2>2, <3>2 DEF Sides
      <4>4. \A b \in levels["Bid"] : b < call.price
        BY <4>2, <4>3
      <4> QED BY <2>5, <4>1, <4>4 DEF NeverCrossed
    <3> QED BY <1>2, <3>3, <3>4 DEF Sides
  <2> QED BY <1>3, <2>3, <2>4, <2>5 DEF Inv, BookInv
<1>5. CASE ~(call.kind = "limit" /\ call.left > 0)
  <2>1. counters' = Count("canceled", call.left) /\ UNCHANGED book
    BY <1>5 DEF Finish
  <2>2. BookInv' /\ LevelsFall
    BY <2>1, SameBook DEF Inv, TypeOK, BookInv
  <2>3. counters' \in Counters
    <3>1. call.left \in Int
      BY <1>2
    <3> QED BY <2>1, <3>1, CountKeeps DEF Inv, TypeOK
  <2>4. TypeOK'
    BY <1>1, <2>2, <2>3 DEF Inv, TypeOK, BookInv, Results
  <2> QED BY <1>3, <2>2, <2>4, FallKeepsUncrossed DEF Inv, BookInv
<1> QED BY <1>4, <1>5

\* The call returns.
LEMMA ReturnKeeps ==
  ASSUME Inv, Return
  PROVE  Inv' /\ LevelsFall
<1>1. UNCHANGED <<stp, book, counters, call, exec>> /\ result' = "none"
  BY DEF Return
<1>2. BookInv' /\ (\A j : Live(j)' <=> Live(j)) /\ LevelsFall
  BY <1>1, SameBook DEF Inv, TypeOK, BookInv
<1>3. TypeOK' /\ CallInv'
  BY <1>1, <1>2 DEF Inv, TypeOK, BookInv, CallInv, Results
<1> QED BY <1>2, <1>3 DEF Inv, BookInv

\* The policy changes.
LEMMA SetPolicyKeeps ==
  ASSUME Inv, NEW policy \in Policies, SetPolicy(policy)
  PROVE  Inv' /\ LevelsFall
<1>1. UNCHANGED <<book, counters, call, exec, result>> /\ stp' \in PolicyNames
  BY PoliciesAssumption DEF SetPolicy
<1>2. BookInv' /\ (\A j : Live(j)' <=> Live(j)) /\ LevelsFall
  BY <1>1, SameBook DEF Inv, TypeOK, BookInv
<1>3. TypeOK' /\ CallInv'
  BY <1>1, <1>2 DEF Inv, TypeOK, BookInv, CallInv
<1> QED BY <1>2, <1>3 DEF Inv, BookInv

\* A cancel.
LEMMA CancelKeeps ==
  ASSUME Inv, NEW i \in Ids, Cancel(i)
  PROVE  Inv' /\ LevelsFall
<1>1. CASE ~Live(i)
  BY <1>1, RejectKeeps DEF Cancel, Results
<1>2. CASE Live(i)
  <2>1. /\ counters' = Count("canceled", orders[i].qty) /\ Unlink(i)
        /\ result' = "Ok" /\ UNCHANGED <<stp, call, exec>> /\ call = NoCall
    BY <1>2 DEF Cancel, Idle
  <2>2. i \in Resting
    BY <1>2 DEF Live, Resting
  <2>3. BookInv' /\ LevelsFall
    BY <2>1, <2>2, UnlinkKeeps DEF Inv, TypeOK, BookInv, LevelsFall
  <2>4. orders[i].qty \in Int
    BY <2>2, QtyAssumption DEF Inv, TypeOK, BookTypeOK, Resting, Order, Qtys
  <2>5. counters' \in Counters
    BY <2>1, <2>4, CountKeeps DEF Inv, TypeOK
  <2>6. TypeOK' /\ CallInv'
    BY <2>1, <2>3, <2>5 DEF Inv, TypeOK, BookInv, CallInv, Results
  <2> QED BY <2>3, <2>6 DEF Inv, BookInv
<1> QED BY <1>1, <1>2

\* What a replace does when it is not refused.
ReplacedAtOnce(old, new, price, qty) ==
  /\ StartMatching("limit", orders[old].participant, new, orders[old].side, price, qty)
  /\ counters' = [Count("canceled", orders[old].qty) EXCEPT !.added = (@ + qty) % CounterModulus]
  /\ Unlink(old)
  /\ UNCHANGED <<stp, exec, result>>

\* The second validation finds nothing that the first did not: what was valid
\* is still, and an id that was free or the old order's is free now.
LEMMA ReplaceIs ==
  ASSUME BookTypeOK, NEW old \in Ids, NEW new \in Ids \cup {0}, NEW price, NEW qty,
         Replace(old, new, price, qty)
  PROVE  LET r == ValidateReplace(old, new, price, qty)
         IN \/ r # "Ok" /\ Reject(r)
            \/ r = "Ok" /\ ReplacedAtOnce(old, new, price, qty)
<1> DEFINE r == ValidateReplace(old, new, price, qty)
<1>1. CASE r # "Ok"
  <2>1. Reject(r)
    BY <1>1 DEF Replace
  <2> QED BY <1>1, <2>1
<1>2. CASE r = "Ok"
  <2>1. Unlink(old) /\ EnterReplacement(orders[old], new, price, qty)
    BY <1>2 DEF Replace
  <2>2. /\ new # 0 /\ qty # 0 /\ price \in ValidPrices /\ new \in Ids
        /\ Live(new) => new = old
    BY <1>2 DEF ValidateReplace, Validate
  <2>3. orders' = [orders EXCEPT ![old] = NoOrder] /\ orders'[old] = NoOrder
    BY <2>1 DEF Unlink, BookTypeOK
  <2>4. ~Live(new)'
    BY <2>2, <2>3 DEF Live, BookTypeOK
  <2>5. Validate("limit", new, price, qty)' = "Ok"
    BY <2>2, <2>4 DEF Validate
  <2> QED BY <1>2, <2>1, <2>5 DEF EnterReplacement, ReplacedAtOnce
<1> QED BY <1>1, <1>2

\* A replace takes the old order out before the new one matches.
LEMMA ReplaceKeeps ==
  ASSUME Inv, NEW old \in Ids, NEW new \in Ids \cup {0}, NEW price \in Prices,
         NEW qty \in 0..MaxQty, Replace(old, new, price, qty)
  PROVE  Inv' /\ LevelsFall
<1> DEFINE v == Validate("limit", new, price, qty)
           r == ValidateReplace(old, new, price, qty)
           o == orders[old]
<1>1. v \in Results /\ r \in Results
  BY ValidateOk DEF ValidateReplace, Results
<1>2. CASE r # "Ok"
  <2>1. Reject(r)
    BY <1>2 DEF Replace
  <2> QED BY <1>1, <2>1, RejectKeeps
<1>3. CASE r = "Ok"
  <2>1. old \in Resting
    BY <1>3 DEF ValidateReplace, Live, Resting
  <2>2. new \in Ids /\ qty \in Qtys /\ price \in ValidPrices /\ (~Live(new) \/ new = old)
    BY <1>3, QtyAssumption DEF ValidateReplace, Validate, Qtys
  <2>3. /\ call' = [kind |-> "limit", actor |-> o.participant, id |-> new, side |-> o.side,
                    price |-> price, qty |-> qty, left |-> qty, filled |-> 0]
        /\ counters' = [Count("canceled", o.qty) EXCEPT !.added = (@ + qty) % CounterModulus]
        /\ Unlink(old)
        /\ UNCHANGED <<stp, exec, result>>
    BY <1>3, ReplaceIs DEF ReplacedAtOnce, StartMatching, Inv, TypeOK
  <2>4. o \in Order
    BY <2>1 DEF Inv, TypeOK, BookTypeOK, Resting
  <2>5. BookInv' /\ (\A j : Live(j)' <=> Live(j) /\ j # old) /\ LevelsFall
    BY <2>1, <2>3, UnlinkKeeps DEF Inv, TypeOK, BookInv, LevelsFall
  <2> HIDE DEF r, v
  <2>6. call' \in Call
    BY <2>2, <2>3, <2>4, QtyAssumption DEF Call, Order, Qtys, KindNames
  <2>7. counters' \in Counters
    <3>1. o.qty \in Int /\ qty \in Int
      BY <2>4, QtyAssumption DEF Order, Qtys
    <3>2. Count("canceled", o.qty) \in Counters
      BY <3>1, CountKeeps DEF Inv, TypeOK
    <3> QED BY <2>3, <3>1, <3>2, CountAgainKeeps
  <2>8. TypeOK'
    BY <2>3, <2>5, <2>6, <2>7 DEF Inv, TypeOK, BookInv
  <2>9. CallInv'
    <3>1. ~Live(new)'
      BY <2>2, <2>5
    <3>2. call'.id = new /\ call'.price = price /\ call'.left = qty /\ call'.qty = qty
          /\ call'.filled = 0
      BY <2>3
    <3>3. ~Live(call.id)'
      BY <3>1, <3>2 DEF Live
    <3> QED BY <2>2, <3>2, <3>3, QtyAssumption DEF CallInv, Qtys
  <2> QED BY <2>5, <2>8, <2>9 DEF Inv, BookInv
<1> QED BY <1>2, <1>3

\* A reduce or an execution reported by a feed.
LEMMA ConsumeKeeps ==
  ASSUME Inv, NEW i \in Ids, NEW qty \in 0..MaxQty, NEW f \in {"executed", "canceled"},
         Consume(i, qty, f)
  PROVE  Inv' /\ LevelsFall
<1> DEFINE take == Min2(qty, orders[i].qty)
<1>1. CASE ~(Live(i) /\ qty # 0)
  <2>1. \E r \in Results : Reject(r)
    BY <1>1 DEF Consume, Results
  <2> QED BY <2>1, RejectKeeps
<1>2. CASE Live(i) /\ qty # 0
  <2>0. CASE Reject("RejectedBadQty") \/ Reject("RejectedUnknownId")
    BY <2>0, RejectKeeps DEF Results
  <2>1. CASE ~(Reject("RejectedBadQty") \/ Reject("RejectedUnknownId"))
    <3>1. /\ counters' = Count(f, take)
          /\ IF take = orders[i].qty THEN Unlink(i) ELSE Shrink(i, take)
          /\ result' = "Ok" /\ UNCHANGED <<stp, call, exec>> /\ call = NoCall
      BY <1>2, <2>1 DEF Consume, Idle
    <3>2. i \in Resting
      BY <1>2 DEF Live, Resting
    <3>3. orders[i].qty \in Qtys
      BY <3>2 DEF Inv, TypeOK, BookTypeOK, Resting, Order
    <3>4. take \in Nat /\ take \in Int /\ take <= orders[i].qty
      BY <3>3, QtyAssumption DEF Min2, Qtys
    <3> HIDE DEF take
    <3>5. BookInv' /\ LevelsFall
      <4>1. CASE take = orders[i].qty
        BY <3>1, <3>2, <4>1, UnlinkKeeps DEF Inv, TypeOK, BookInv, LevelsFall
      <4>2. CASE take # orders[i].qty
        <5>1. take < orders[i].qty
          BY <3>3, <3>4, <4>2, QtyAssumption DEF Qtys
        <5> QED BY <3>1, <3>2, <3>4, <4>2, <5>1, ShrinkKeeps
                DEF Inv, TypeOK, BookInv, LevelsFall
      <4> QED BY <4>1, <4>2
    <3>6. counters' \in Counters
      BY <3>1, <3>4, CountKeeps DEF Inv, TypeOK
    <3>7. TypeOK' /\ CallInv'
      BY <3>1, <3>5, <3>6 DEF Inv, TypeOK, BookInv, CallInv, Results
    <3> QED BY <3>5, <3>7 DEF Inv, BookInv
  <2> QED BY <2>0, <2>1
<1> QED BY <1>1, <1>2

\* An order of a feed rests without matching.
LEMMA InsertPassiveKeeps ==
  ASSUME Inv, NEW i \in Ids \cup {0}, NEW side \in Sides, NEW price \in Prices,
         NEW qty \in 0..MaxQty, InsertPassive(i, side, price, qty)
  PROVE  Inv'
<1> DEFINE r == Validate("limit", i, price, qty)
<1>1. CASE r # "Ok"
  <2>1. Reject(r)
    BY <1>1 DEF InsertPassive
  <2> QED BY <2>1, ValidateOk, RejectKeeps
<1>2. CASE r = "Ok"
  <2>1. i \in Ids /\ qty \in Qtys /\ ~Live(i) /\ price \in ValidPrices
    BY <1>2, ValidateOk
  <2>2. /\ counters' = Count("added", qty) /\ Rest(i, side, price, qty, 0)
        /\ result' = "Ok" /\ UNCHANGED <<stp, call, exec>> /\ call = NoCall
    BY <1>2 DEF InsertPassive, Reject, Idle
  <2>3. BookInv'
    BY <2>1, <2>2, RestKeeps, ParticipantsAssumption DEF Inv, TypeOK, BookInv
  <2>4. counters' \in Counters
    BY <2>2, CountKeeps DEF Inv, TypeOK
  <2>5. TypeOK' /\ CallInv'
    BY <2>2, <2>3, <2>4 DEF Inv, TypeOK, BookInv, CallInv, Results
  <2> QED BY <2>3, <2>5 DEF Inv, BookInv
<1> QED BY <1>1, <1>2

-----------------------------------------------------------------------------
(* The indexes: the theorems.                                              *)

\* The empty book satisfies the invariant.
LEMMA InitInv == Init => Inv /\ NeverCrossed
<1> SUFFICES ASSUME Init PROVE Inv /\ NeverCrossed
  OBVIOUS
<1>1. \A s \in Sides, p \in ValidPrices : fifo[s][p] = <<>>
  BY DEF Init
<1>2. Resting = {} /\ \A s \in Sides : levels[s] = {}
  BY DEF Init, Resting
<1>3. TypeOK
  <2>1. BookTypeOK
    BY EmptySeq DEF Init, BookTypeOK
  <2>2. counters \in Counters
    BY ModulusAssumption DEF Init, Counters, Counter
  <2> QED BY <2>1, <2>2 DEF Init, TypeOK, PolicyNames, Results
<1>4. IndexesAgree
  BY <1>1, <1>2 DEF IndexesAgree
<1>5. LevelsLive
  BY <1>1, <1>2 DEF LevelsLive
<1>6. CallInv
  BY DEF Init, CallInv
<1>7. NeverCrossed
  BY <1>2 DEF NeverCrossed, Sides
<1> QED BY <1>3, <1>4, <1>5, <1>6, <1>7 DEF Inv

\* Every step of a matching engine's book keeps the invariant and keeps the
\* book uncrossed.
LEMMA NextKeeps == Inv /\ [Next]_vars => Inv' /\ (NeverCrossed => NeverCrossed')
<1> SUFFICES ASSUME Inv, [Next]_vars PROVE Inv' /\ (NeverCrossed => NeverCrossed')
  OBVIOUS
<1>1. CASE OrderEntry
  <2>1. CASE \E kind \in Kinds, actor \in Participants, i \in Ids \cup {0},
                side \in Sides, price \in Prices, qty \in 0..MaxQty :
               Enter(kind, actor, i, side, price, qty)
    BY <2>1, EnterKeeps, FallKeepsUncrossed
  <2>2. CASE \E i \in Ids : Cancel(i)
    BY <2>2, CancelKeeps, FallKeepsUncrossed
  <2>3. CASE \E old \in Ids, new \in Ids \cup {0}, price \in Prices, qty \in 0..MaxQty :
               Replace(old, new, price, qty)
    BY <2>3, ReplaceKeeps, FallKeepsUncrossed
  <2>4. CASE \E policy \in Policies : SetPolicy(policy)
    BY <2>4, SetPolicyKeeps, FallKeepsUncrossed
  <2> QED BY <1>1, <2>1, <2>2, <2>3, <2>4 DEF OrderEntry
<1>2. CASE Reduction
  BY <1>2, ConsumeKeeps, FallKeepsUncrossed DEF Reduction
<1>3. CASE MatchStep
  <2>1. ASSUME NEW p \in ValidPrices, Fill(p) \/ PreventSelfTrade(p)
        PROVE  Inv' /\ (NeverCrossed => NeverCrossed')
    BY <2>1, FillKeeps, PreventKeeps, FallKeepsUncrossed
  <2>2. CASE Finish
    BY <2>2, FinishKeeps
  <2>3. CASE Return
    BY <2>3, ReturnKeeps, FallKeepsUncrossed
  <2> QED BY <1>3, <2>1, <2>2, <2>3 DEF MatchStep
<1>4. CASE UNCHANGED vars
  <2>1. UNCHANGED <<stp, book, counters, call, exec, result>>
    BY <1>4 DEF vars
  <2>2. BookInv' /\ (\A j : Live(j)' <=> Live(j)) /\ LevelsFall
    BY <2>1, SameBook DEF Inv, TypeOK, BookInv
  <2>3. TypeOK' /\ CallInv'
    BY <2>1, <2>2 DEF Inv, TypeOK, BookInv, CallInv
  <2> QED BY <2>2, <2>3, FallKeepsUncrossed DEF Inv, BookInv
<1> QED BY <1>1, <1>2, <1>3, <1>4 DEF Next

\* The invariant for every sequence of calls, feed reconstruction included.
LEMMA ApiInvariance == ApiSpec => []Inv
<1>1. Inv /\ [ApiNext]_vars => Inv'
  <2> SUFFICES ASSUME Inv, [ApiNext]_vars PROVE Inv'
    OBVIOUS
  <2>1. CASE [Next]_vars
    BY <2>1, NextKeeps
  <2>2. CASE Passive
    BY <2>2, InsertPassiveKeeps DEF Passive
  <2> QED BY <2>1, <2>2 DEF ApiNext
<1> QED BY InitInv, <1>1, PTL DEF ApiSpec

\* Type correctness, whatever is called in whatever order.
THEOREM TypeCorrect == ApiSpec => []TypeOK
  BY ApiInvariance, PTL DEF Inv

\* The id map and the intrusive lists never disagree: no dangling id, no order
\* listed twice or on the wrong level, none lost from its queue.
THEOREM IndexesAlwaysAgree == ApiSpec => []IndexesAgree
  BY ApiInvariance, PTL DEF Inv

\* The ladder's levels are exactly the nonempty queues.
THEOREM LevelsAlwaysLive == ApiSpec => []LevelsLive
  BY ApiInvariance, PTL DEF Inv

\* A book entered through matching only is never crossed or locked.
THEOREM AlwaysUncrossed == Spec => []NeverCrossed
<1>1. Spec => [](Inv /\ NeverCrossed)
  <2>1. Inv /\ NeverCrossed /\ [Next]_vars => Inv' /\ NeverCrossed'
    BY NextKeeps
  <2> QED BY InitInv, <2>1, PTL DEF Spec
<1> QED BY <1>1, PTL

-----------------------------------------------------------------------------
(* Rejected calls.                                                         *)

\* While a call is matching there is no result yet.
NoResultYet == call # NoCall => result = "none"

\* What a rejection must leave as it is.
NoTrace == result' \notin {"none", "Ok"} => UNCHANGED <<book, counters>>

\* Each step of the specification keeps it: a call that was refused changed nothing.
LEMMA StepsLeaveNoTrace ==
  ASSUME Inv, NoResultYet, [ApiNext]_vars
  PROVE  NoResultYet' /\ NoTrace
<1> USE DEF NoResultYet, NoTrace
<1>1. ASSUME NEW r, Idle, Reject(r) PROVE NoResultYet' /\ NoTrace
  BY <1>1 DEF Idle, Reject
<1>2. CASE OrderEntry
  <2>1. ASSUME NEW kind, NEW actor, NEW i, NEW side, NEW price, NEW qty,
               Enter(kind, actor, i, side, price, qty)
        PROVE  NoResultYet' /\ NoTrace
    BY <1>1, <2>1 DEF Enter, Idle
  <2>2. ASSUME NEW i, Cancel(i) PROVE NoResultYet' /\ NoTrace
    BY <1>1, <2>2 DEF Cancel, Idle
  <2>3. ASSUME NEW old \in Ids, NEW new \in Ids \cup {0}, NEW price, NEW qty,
               Replace(old, new, price, qty)
        PROVE  NoResultYet' /\ NoTrace
    <3>1. Idle /\ (ReplacedAtOnce(old, new, price, qty) \/ \E r : Reject(r))
      BY <2>3, ReplaceIs DEF Inv, TypeOK, Replace
    <3> QED BY <1>1, <3>1 DEF ReplacedAtOnce, Idle
  <2>4. ASSUME NEW policy, SetPolicy(policy) PROVE NoResultYet' /\ NoTrace
    BY <2>4 DEF SetPolicy, Idle
  <2> QED BY <1>2, <2>1, <2>2, <2>3, <2>4 DEF OrderEntry
<1>3. CASE Reduction
  <2>1. ASSUME NEW i, NEW qty, NEW f, Consume(i, qty, f) PROVE NoResultYet' /\ NoTrace
    BY <1>1, <2>1 DEF Consume, Idle
  <2> QED BY <1>3, <2>1 DEF Reduction
<1>4. CASE Passive
  <2>1. ASSUME NEW i, NEW side, NEW price, NEW qty, InsertPassive(i, side, price, qty)
        PROVE  NoResultYet' /\ NoTrace
    BY <1>1, <2>1 DEF InsertPassive, Idle
  <2> QED BY <1>4, <2>1 DEF Passive
<1>5. CASE MatchStep
  <2>1. ASSUME NEW p, Fill(p) \/ PreventSelfTrade(p) PROVE NoResultYet' /\ NoTrace
    BY <2>1 DEF Fill, PreventSelfTrade, CanMatch
  <2>2. CASE Finish
    BY <2>2 DEF Finish
  <2>3. CASE Return
    BY <2>3 DEF Return
  <2> QED BY <1>5, <2>1, <2>2, <2>3 DEF MatchStep
<1>6. CASE UNCHANGED vars
  BY <1>6 DEF vars
<1> QED BY <1>2, <1>3, <1>4, <1>5, <1>6 DEF ApiNext, Next

\* A rejected call changes neither the book nor the counters: a replace is
\* validated before it cancels, a fill-or-kill scans before it matches.
THEOREM RejectionsLeaveNoTrace == ApiSpec => RejectedLeavesNoTrace
<1>1. Init => NoResultYet
  BY DEF Init, NoResultYet
<1>2. Inv /\ NoResultYet /\ [ApiNext]_vars => NoResultYet' /\ [NoTrace]_vars
  BY StepsLeaveNoTrace
<1> HIDE DEF NoTrace
<1>3. ApiSpec => [][NoTrace]_vars
  BY <1>1, <1>2, ApiInvariance, PTL DEF ApiSpec
<1> QED BY <1>3 DEF RejectedLeavesNoTrace, NoTrace

-----------------------------------------------------------------------------
(* Sums.                                                                   *)

\* The shares of the orders in S.
Shares(nodes, S) == MapThenSumSet(LAMBDA i : nodes[i].qty, S)

Summable(nodes, S) == IsFiniteSet(S) /\ \A i \in S : nodes[i].qty \in Int

\* f adds up the subsets of S, taking out one element after the other.
First(s) == CHOOSE x \in s : TRUE

Adding(nodes, S, f) ==
  f = [s \in SUBSET S |-> IF s = {} THEN 0 ELSE nodes[First(s)].qty + f[s \ {First(s)}]]

\* Sets of subsets of a finite set have a least one.
LEMMA LeastSet ==
  ASSUME NEW S, IsFiniteSet(S), NEW B \in SUBSET (SUBSET S), B # {}
  PROVE  \E s \in B : \A t \in B : t \subseteq s => t = s
<1>1. \A s \in B : IsFiniteSet(s) /\ Cardinality(s) \in Nat
  BY FS_Subset, FS_CardinalityType
<1> DEFINE T == {Cardinality(s) : s \in B}
<1>2. T \in SUBSET Nat /\ T # {}
  BY <1>1
<1>3. PICK n \in T : \A m \in T : n <= m
  <2> HIDE DEF T
  <2> QED BY <1>2, Least
<1>4. PICK s \in B : Cardinality(s) = n
  BY <1>3
<1>5. ASSUME NEW t \in B, t \subseteq s PROVE t = s
  <2>1. Cardinality(t) <= Cardinality(s) /\ (Cardinality(s) = Cardinality(t) => s = t)
    BY <1>1, <1>5, FS_Subset
  <2>2. Cardinality(s) <= Cardinality(t)
    BY <1>3, <1>4
  <2>3. Cardinality(s) = Cardinality(t)
    BY <1>1, <2>1, <2>2
  <2> QED BY <2>1, <2>3
<1> QED BY <1>5

\* A set without its first element.
LEMMA FirstIs ==
  ASSUME NEW s, s # {}
  PROVE  First(s) \in s /\ s \ {First(s)} \subseteq s /\ s \ {First(s)} # s
<1>1. First(s) \in s
  BY DEF First
<1> QED BY <1>1

\* What such a function says of one set.
LEMMA AddingAt ==
  ASSUME NEW nodes, NEW S, NEW f, Adding(nodes, S, f), NEW s \in SUBSET S
  PROVE  f[s] = IF s = {} THEN 0 ELSE nodes[First(s)].qty + f[s \ {First(s)}]
  BY DEF Adding

\* Two such functions say the same of the same set.
LEMMA AddingAgree ==
  ASSUME NEW nodes, NEW S, NEW T, NEW f, NEW g, Adding(nodes, S, f), Adding(nodes, T, g),
         NEW U, IsFiniteSet(U), U \subseteq S, U \subseteq T
  PROVE  f[U] = g[U]
<1> DEFINE B == {s \in SUBSET U : f[s] # g[s]}
<1> SUFFICES ASSUME B # {} PROVE FALSE
  OBVIOUS
<1>1. PICK s \in B : \A t \in B : t \subseteq s => t = s
  <2>1. B \in SUBSET (SUBSET U)
    OBVIOUS
  <2> HIDE DEF B
  <2> QED BY <2>1, LeastSet
<1>2. /\ f[s] = IF s = {} THEN 0 ELSE nodes[First(s)].qty + f[s \ {First(s)}]
      /\ g[s] = IF s = {} THEN 0 ELSE nodes[First(s)].qty + g[s \ {First(s)}]
  <2>1. s \in SUBSET S /\ s \in SUBSET T
    OBVIOUS
  <2> HIDE DEF B
  <2> QED BY <2>1, AddingAt
<1>3. s # {} => f[s \ {First(s)}] = g[s \ {First(s)}]
  BY <1>1, FirstIs
<1> QED BY <1>2, <1>3

\* The sum is what such a function says.
LEMMA SharesIs ==
  ASSUME NEW nodes, NEW S, IsFiniteSet(S), NEW g, Adding(nodes, S, g)
  PROVE  Shares(nodes, S) = g[S]
<1>1. \E f : Adding(nodes, S, f) /\ Shares(nodes, S) = f[S]
  BY DEF Shares, MapThenSumSet, MapThenFoldSet, Adding, First
<1> QED BY <1>1, AddingAgree

\* There is one for every finite set: for a smallest set without, the sums of
\* its subsets make one.
LEMMA AddingExists ==
  ASSUME NEW nodes, NEW S, IsFiniteSet(S)
  PROVE  \E f : Adding(nodes, S, f)
<1> DEFINE B == {s \in SUBSET S : ~ \E f : Adding(nodes, s, f)}
<1> SUFFICES ASSUME B # {} PROVE FALSE
  OBVIOUS
<1>1. PICK s \in B : \A t \in B : t \subseteq s => t = s
  <2>1. B \in SUBSET (SUBSET S)
    OBVIOUS
  <2> HIDE DEF B
  <2> QED BY <2>1, LeastSet
<1>2. s \subseteq S /\ ~ \E f : Adding(nodes, s, f)
  OBVIOUS
<1>3. ASSUME NEW t, t \subseteq s, t # s
      PROVE  IsFiniteSet(t) /\ \E f : Adding(nodes, t, f)
  BY <1>1, <1>3, FS_Subset
<1> HIDE DEF B
<1>4. ASSUME NEW t, t \subseteq s, t # s
      PROVE  Shares(nodes, t) = IF t = {} THEN 0
                                ELSE nodes[First(t)].qty + Shares(nodes, t \ {First(t)})
  <2>1. PICK f : Adding(nodes, t, f)
    BY <1>3, <1>4
  <2>2. Shares(nodes, t) = f[t] /\ IsFiniteSet(t)
    BY <1>3, <1>4, <2>1, SharesIs
  <2>3. f[t] = IF t = {} THEN 0 ELSE nodes[First(t)].qty + f[t \ {First(t)}]
    BY <2>1, AddingAt
  <2>4. CASE t = {}
    BY <2>2, <2>3, <2>4
  <2>5. CASE t # {}
    <3>1. PICK u : u = t \ {First(t)}
      OBVIOUS
    <3>2. u \subseteq s /\ u # s /\ u \subseteq t
      BY <1>4, <2>5, <3>1, FirstIs
    <3>3. PICK g : Adding(nodes, u, g)
      BY <1>3, <3>2
    <3>4. Shares(nodes, u) = g[u] /\ f[u] = g[u]
      BY <1>3, <2>1, <3>2, <3>3, SharesIs, AddingAgree
    <3> QED BY <2>2, <2>3, <2>5, <3>1, <3>4
  <2> QED BY <2>4, <2>5
<1> DEFINE h == [t \in SUBSET s |-> IF t = {} THEN 0
                                    ELSE nodes[First(t)].qty + Shares(nodes, t \ {First(t)})]
<1>5. ASSUME NEW t \in SUBSET s, t # {}
      PROVE  h[t \ {First(t)}] = Shares(nodes, t \ {First(t)})
  <2>1. PICK u : u = t \ {First(t)}
    OBVIOUS
  <2>2. u \subseteq s /\ u # s
    BY <1>5, <2>1, FirstIs
  <2>3. h[u] = Shares(nodes, u)
    BY <1>4, <2>2
  <2> QED BY <2>1, <2>3
<1>6. Adding(nodes, s, h)
  BY <1>5 DEF Adding
<1> QED BY <1>2, <1>6

\* The recursion, for sums.
LEMMA SharesFirst ==
  ASSUME NEW nodes, NEW S, IsFiniteSet(S)
  PROVE  Shares(nodes, S) = IF S = {} THEN 0
                            ELSE nodes[First(S)].qty + Shares(nodes, S \ {First(S)})
<1>1. PICK f : Adding(nodes, S, f)
  BY AddingExists
<1>2. Shares(nodes, S) = f[S]
  BY <1>1, SharesIs
<1>3. f[S] = IF S = {} THEN 0 ELSE nodes[First(S)].qty + f[S \ {First(S)}]
  BY <1>1, AddingAt
<1>4. CASE S # {}
  <2>1. PICK u : u = S \ {First(S)}
    OBVIOUS
  <2>2. u \subseteq S /\ IsFiniteSet(u)
    BY <2>1, FS_Subset
  <2>3. PICK g : Adding(nodes, u, g)
    BY <2>2, AddingExists
  <2>4. Shares(nodes, u) = g[u] /\ f[u] = g[u]
    BY <1>1, <2>2, <2>3, SharesIs, AddingAgree
  <2> QED BY <1>2, <1>3, <2>1, <2>4
<1> QED BY <1>2, <1>3, <1>4

\* Any element may be taken out first: a smallest set for which that is wrong
\* has two elements to take out, in either order.
LEMMA SharesTake ==
  ASSUME NEW nodes, NEW S, Summable(nodes, S)
  PROVE  /\ Shares(nodes, S) \in Int
         /\ Shares(nodes, {}) = 0
         /\ \A i \in S : Shares(nodes, S) = nodes[i].qty + Shares(nodes, S \ {i})
<1> DEFINE Right(s) == /\ Shares(nodes, s) \in Int
                       /\ \A i \in s : Shares(nodes, s) = nodes[i].qty + Shares(nodes, s \ {i})
           B == {s \in SUBSET S : ~Right(s)}
<1>1. CASE B = {}
  <2>1. Right(S)
    BY <1>1
  <2>2. Shares(nodes, {}) = 0
    BY SharesFirst, FS_EmptySet
  <2> QED BY <2>1, <2>2
<1>2. CASE B # {}
  <2>1. PICK s \in B : \A t \in B : t \subseteq s => t = s
    <3>1. B \in SUBSET (SUBSET S) /\ IsFiniteSet(S)
      BY DEF Summable
    <3> HIDE DEF B
    <3> QED BY <1>2, <3>1, LeastSet
  <2>2. s \subseteq S /\ IsFiniteSet(s) /\ \A i \in s : nodes[i].qty \in Int
    BY FS_Subset DEF Summable
  <2>3. ASSUME NEW i \in s PROVE Right(s \ {i})
    <3>1. s \ {i} \subseteq s /\ s \ {i} # s /\ s \ {i} \subseteq S
      BY <2>2
    <3>2. s \ {i} \notin B
      BY <2>1, <3>1
    <3> QED BY <3>1, <3>2
  <2> HIDE DEF B
  <2>4. CASE s = {}
    <3>1. Shares(nodes, s) = 0
      BY <2>2, <2>4, SharesFirst
    <3> QED BY <2>1, <2>4, <3>1 DEF B
  <2>5. CASE s # {}
    <3>1. PICK x \in s : x = First(s)
      BY <2>5, FirstIs
    <3>2. Shares(nodes, s) = nodes[x].qty + Shares(nodes, s \ {x})
      BY <2>2, <2>5, <3>1, SharesFirst
    <3>3. Shares(nodes, s) \in Int
      BY <2>2, <2>3, <3>2
    <3>4. ASSUME NEW y \in s, y # x
          PROVE  Shares(nodes, s) = nodes[y].qty + Shares(nodes, s \ {y})
      <4>1. Shares(nodes, s \ {x}) = nodes[y].qty + Shares(nodes, (s \ {x}) \ {y})
        BY <2>3, <3>4
      <4>2. Shares(nodes, s \ {y}) = nodes[x].qty + Shares(nodes, (s \ {y}) \ {x})
        BY <2>3, <3>4
      <4>3. (s \ {x}) \ {y} = (s \ {y}) \ {x}
        OBVIOUS
      <4>4. Shares(nodes, (s \ {y}) \ {x}) \in Int
        <5>1. Shares(nodes, s \ {y}) \in Int /\ nodes[x].qty \in Int
          BY <2>2, <2>3
        <5>2. (s \ {x}) \ {y} \in SUBSET S /\ (s \ {x}) \ {y} \subseteq s /\ (s \ {x}) \ {y} # s
          BY <2>2
        <5>3. Right((s \ {x}) \ {y})
          BY <2>1, <5>2 DEF B
        <5> QED BY <4>3, <5>3
      <4>5. PICK a, b, rest : /\ a = nodes[x].qty /\ b = nodes[y].qty
                              /\ rest = Shares(nodes, (s \ {y}) \ {x})
        OBVIOUS
      <4>6. a \in Int /\ b \in Int /\ rest \in Int
        BY <2>2, <4>4, <4>5
      <4>7. Shares(nodes, s) = a + (b + rest) /\ Shares(nodes, s \ {y}) = a + rest
        BY <3>2, <4>1, <4>2, <4>3, <4>5
      <4> QED BY <4>5, <4>6, <4>7
    <3>5. Right(s)
      BY <3>2, <3>3, <3>4
    <3> QED BY <2>1, <3>5 DEF B
  <2> QED BY <2>4, <2>5
<1> QED BY <1>1, <1>2

\* Only the orders in the set matter.
LEMMA SharesSame ==
  ASSUME NEW nodes, NEW others, NEW S, IsFiniteSet(S), \A i \in S : others[i].qty = nodes[i].qty
  PROVE  Shares(others, S) = Shares(nodes, S)
<1> DEFINE B == {s \in SUBSET S : Shares(others, s) # Shares(nodes, s)}
<1> SUFFICES ASSUME B # {} PROVE FALSE
  OBVIOUS
<1>1. PICK s \in B : \A t \in B : t \subseteq s => t = s
  <2>1. B \in SUBSET (SUBSET S)
    OBVIOUS
  <2> HIDE DEF B
  <2> QED BY <2>1, LeastSet
<1>2. IsFiniteSet(s) /\ s \subseteq S
  BY FS_Subset
<1>3. CASE s = {}
  BY <1>2, <1>3, SharesFirst
<1>4. CASE s # {}
  <2>1. PICK x \in s : x = First(s)
    BY <1>4, FirstIs
  <2>2. /\ Shares(nodes, s) = nodes[x].qty + Shares(nodes, s \ {x})
        /\ Shares(others, s) = others[x].qty + Shares(others, s \ {x})
    BY <1>2, <1>4, <2>1, SharesFirst
  <2>3. Shares(others, s \ {x}) = Shares(nodes, s \ {x})
    BY <1>1, <1>2
  <2> QED BY <1>2, <2>2, <2>3
<1> QED BY <1>3, <1>4

\* Of the orders in X none but i has changed.
SameBut(nodes, others, X, i) == \A j \in X \ {i} : others[j].qty = nodes[j].qty

\* One order of a set changed, or entered.
LEMMA SharesChange ==
  ASSUME NEW nodes, NEW others, NEW X, Summable(nodes, X), NEW i, SameBut(nodes, others, X, i)
  PROVE  /\ Shares(others, X \ {i}) = Shares(nodes, X) - (IF i \in X THEN nodes[i].qty ELSE 0)
         /\ others[i].qty \in Int =>
              Shares(others, X \cup {i}) = others[i].qty + Shares(others, X \ {i})
         /\ Shares(nodes, X) \in Int
<1>1. /\ Shares(nodes, X) \in Int
      /\ i \in X => nodes[i].qty \in Int /\ Shares(nodes, X) = nodes[i].qty + Shares(nodes, X \ {i})
      /\ i \notin X => X \ {i} = X
  BY SharesTake DEF Summable
<1>2. IsFiniteSet(X \ {i}) /\ Summable(nodes, X \ {i})
  BY FS_Subset DEF Summable
<1>3. Shares(others, X \ {i}) = Shares(nodes, X \ {i}) /\ Shares(nodes, X \ {i}) \in Int
  <2>1. \A j \in X \ {i} : others[j].qty = nodes[j].qty
    BY DEF SameBut
  <2> QED BY <1>2, <2>1, SharesSame, SharesTake
<1>4. Shares(others, X \ {i}) = Shares(nodes, X) - (IF i \in X THEN nodes[i].qty ELSE 0)
  <2>1. PICK a, b, c : a = Shares(nodes, X) /\ b = Shares(nodes, X \ {i}) /\ c = nodes[i].qty
    OBVIOUS
  <2>2. CASE i \in X
    <3>1. a = c + b /\ a \in Int /\ b \in Int /\ c \in Int
      BY <1>1, <1>3, <2>1, <2>2
    <3> QED BY <1>3, <2>1, <2>2, <3>1
  <2>3. CASE i \notin X
    <3>1. a = b /\ a \in Int
      BY <1>1, <1>3, <2>1, <2>3
    <3>2. a = b - 0
      BY <3>1
    <3> QED BY <1>3, <2>1, <2>3, <3>2, Zenon
  <2> QED BY <2>2, <2>3
<1>5. ASSUME others[i].qty \in Int
      PROVE  Shares(others, X \cup {i}) = others[i].qty + Shares(others, X \ {i})
  <2>1. PICK Y : Y = X \cup {i}
    OBVIOUS
  <2>2. Summable(others, Y)
    BY <1>5, <2>1, FS_AddElement DEF Summable, SameBut
  <2>3. Y \ {i} = X \ {i} /\ i \in Y
    BY <2>1
  <2>4. Shares(others, Y) = others[i].qty + Shares(others, Y \ {i})
    BY <2>2, <2>3, SharesTake
  <2> QED BY <2>1, <2>3, <2>4
<1> QED BY <1>1, <1>4, <1>5

-----------------------------------------------------------------------------
(* What the three ways in which the book changes do to the sums.           *)

FiniteBook == IsFiniteSet(Resting)

InBook == Shares(orders, Resting)

OrdersAt(s, p) == {i \in Resting : orders[i].side = s /\ orders[i].price = p}

\* The totals as sums of shares.
LEMMA TotalsAre ==
  TotalsAgree <=> \A s \in Sides, p \in ValidPrices : total[s][p] = Shares(orders, OrdersAt(s, p))
  BY DEF TotalsAgree, Shares, OrdersAt

\* The same, of the next state.
LEMMA TotalsAreNext ==
  TotalsAgree' <=> \A s \in Sides, p \in ValidPrices : total'[s][p] = Shares(orders', OrdersAt(s, p)')
<1>1. (TotalsAgree <=>
         \A s \in Sides, p \in ValidPrices : total[s][p] = Shares(orders, OrdersAt(s, p)))'
  BY TotalsAre, PTL
<1> QED BY <1>1

\* There is a number of shares to every set of resting orders.
LEMMA RestingSummable ==
  ASSUME BookInv, FiniteBook, NEW X, X \subseteq Resting
  PROVE  Summable(orders, X) /\ Shares(orders, X) \in Int
<1>1. \A i \in X : orders[i].qty \in Int
  BY QtyAssumption DEF BookInv, BookTypeOK, Resting, Order, Qtys
<1>2. Summable(orders, X)
  BY <1>1, FS_Subset DEF FiniteBook, Summable
<1> QED BY <1>2, SharesTake

\* An order leaves: those that rest, and the shares of any of them.
LEMMA UnlinkShares ==
  ASSUME BookInv, FiniteBook, NEW i \in Resting, Unlink(i)
  PROVE  /\ Resting' = Resting \ {i} /\ \A j \in Resting \ {i} : orders'[j] = orders[j]
         /\ \A X \in SUBSET Resting :
              Shares(orders', X \ {i}) = Shares(orders, X) - (IF i \in X THEN orders[i].qty ELSE 0)
<1>1. \A j \in Ids : orders'[j] = IF j = i THEN NoOrder ELSE orders[j]
  BY DEF Unlink, BookInv, BookTypeOK
<1>2. Resting' = Resting \ {i} /\ \A j \in Resting \ {i} : orders'[j] = orders[j]
  BY <1>1 DEF Resting
<1>3. ASSUME NEW X \in SUBSET Resting
      PROVE  Shares(orders', X \ {i}) = Shares(orders, X) - (IF i \in X THEN orders[i].qty ELSE 0)
  <2>1. PICK others : others = orders'
    OBVIOUS
  <2>2. Summable(orders, X) /\ SameBut(orders, others, X, i)
    BY <1>2, <2>1, RestingSummable DEF SameBut
  <2>3. /\ Shares(others, X \ {i}) = Shares(orders, X) - (IF i \in X THEN orders[i].qty ELSE 0)
        /\ others[i].qty \in Int => Shares(others, X \cup {i}) = others[i].qty + Shares(others, X \ {i})
        /\ Shares(orders, X) \in Int
    BY <2>2, SharesChange
  <2> QED BY <2>1, <2>3
<1> QED BY <1>2, <1>3

\* An order leaves, with all its shares.
LEMMA UnlinkSums ==
  ASSUME BookInv, FiniteBook, NEW i \in Resting, Unlink(i)
  PROVE  /\ FiniteBook' /\ Cardinality(Resting') = Cardinality(Resting) - 1
         /\ InBook' = InBook - orders[i].qty /\ InBook \in Int
         /\ TotalsAgree => TotalsAgree'
<1> DEFINE o == orders[i]
<1>1. o \in Order /\ i \in Ids /\ o.qty \in Int
  BY QtyAssumption DEF BookInv, BookTypeOK, Resting, Order, Qtys
<1>2. total' = [total EXCEPT ![o.side][o.price] = @ - o.qty]
  BY DEF Unlink
<1>3. /\ Resting' = Resting \ {i} /\ \A j \in Resting \ {i} : orders'[j] = orders[j]
      /\ \A X \in SUBSET Resting :
           Shares(orders', X \ {i}) = Shares(orders, X) - (IF i \in X THEN o.qty ELSE 0)
  BY UnlinkShares
<1>4. FiniteBook' /\ Cardinality(Resting') = Cardinality(Resting) - 1
  BY <1>3, FS_RemoveElement DEF FiniteBook
<1>5. InBook' = InBook - o.qty /\ InBook \in Int
  BY <1>3, RestingSummable DEF InBook
<1>6. ASSUME TotalsAgree PROVE TotalsAgree'
  <2> SUFFICES ASSUME NEW s \in Sides, NEW p \in ValidPrices
               PROVE  total'[s][p] = Shares(orders', OrdersAt(s, p)')
    BY TotalsAreNext
  <2>1. OrdersAt(s, p)' = OrdersAt(s, p) \ {i}
    BY <1>3 DEF OrdersAt
  <2>2. i \in OrdersAt(s, p) <=> s = o.side /\ p = o.price
    BY DEF OrdersAt
  <2>3. total[s][p] = Shares(orders, OrdersAt(s, p)) /\ OrdersAt(s, p) \in SUBSET Resting
    BY <1>6, TotalsAre DEF OrdersAt
  <2>4. Shares(orders, OrdersAt(s, p)) \in Int
    BY <2>3, RestingSummable
  <2>5. total'[s][p] = total[s][p] - (IF s = o.side /\ p = o.price THEN o.qty ELSE 0)
    BY <1>1, <1>2, <2>3, <2>4 DEF BookInv, BookTypeOK, Order
  <2>6. Shares(orders', OrdersAt(s, p) \ {i}) =
          Shares(orders, OrdersAt(s, p)) - (IF i \in OrdersAt(s, p) THEN o.qty ELSE 0)
    BY <1>3, <2>3
  <2> QED BY <2>1, <2>2, <2>3, <2>5, <2>6
<1> QED BY <1>4, <1>5, <1>6

\* An order shrinks: those that rest, and the shares of any of them.
LEMMA ShrinkShares ==
  ASSUME BookInv, FiniteBook, NEW i \in Resting, NEW n \in Nat, n < orders[i].qty, Shrink(i, n)
  PROVE  /\ Resting' = Resting
         /\ \A j \in Resting : /\ orders'[j].side = orders[j].side
                               /\ orders'[j].price = orders[j].price
                               /\ orders'[j].participant = orders[j].participant
         /\ \A X \in SUBSET Resting :
              Shares(orders', X) = Shares(orders, X) - (IF i \in X THEN n ELSE 0)
<1> DEFINE o == orders[i]
<1>1. o \in Order /\ i \in Ids /\ o.qty \in Int
  BY QtyAssumption DEF BookInv, BookTypeOK, Resting, Order, Qtys
<1>2. PICK new : new = [o EXCEPT !.qty = o.qty - n]
  OBVIOUS
<1>3. /\ new.qty = o.qty - n
      /\ new.side = o.side /\ new.price = o.price /\ new.participant = o.participant
  BY <1>1, <1>2 DEF Order
<1>4. \A j \in Ids : orders'[j] = IF j = i THEN new ELSE orders[j]
  BY <1>2 DEF Shrink, BookInv, BookTypeOK
<1>5. Resting' = Resting
  <2>1. \A j : Live(j)' <=> Live(j)
    BY ShrinkKeeps
  <2> QED BY <2>1 DEF Live, Resting
<1>6. \A j \in Resting : /\ orders'[j].side = orders[j].side
                         /\ orders'[j].price = orders[j].price
                         /\ orders'[j].participant = orders[j].participant
  BY <1>3, <1>4 DEF Resting
<1>7. ASSUME NEW X \in SUBSET Resting
      PROVE  Shares(orders', X) = Shares(orders, X) - (IF i \in X THEN n ELSE 0)
  <2>1. PICK others : others = orders'
    OBVIOUS
  <2>2. Summable(orders, X) /\ SameBut(orders, others, X, i)
    BY <1>4, <2>1, RestingSummable DEF Resting, SameBut
  <2>3. others[i].qty = o.qty - n
    BY <1>1, <1>3, <1>4, <2>1
  <2>4. /\ Shares(others, X \ {i}) = Shares(orders, X) - (IF i \in X THEN orders[i].qty ELSE 0)
        /\ others[i].qty \in Int => Shares(others, X \cup {i}) = others[i].qty + Shares(others, X \ {i})
        /\ Shares(orders, X) \in Int
    BY <2>2, SharesChange
  <2>5. CASE i \in X
    <3>1. X \cup {i} = X
      BY <2>5
    <3>2. PICK a, b : a = Shares(orders, X) /\ b = o.qty
      OBVIOUS
    <3>3. a \in Int /\ b \in Int /\ b - n \in Int
      BY <1>1, <2>4, <3>2
    <3>4. Shares(others, X \ {i}) = a - b /\ others[i].qty = b - n
      BY <2>3, <2>4, <2>5, <3>2
    <3>5. Shares(others, X) = (b - n) + (a - b)
      BY <2>4, <3>1, <3>3, <3>4
    <3>6. (b - n) + (a - b) = a - n
      BY <3>3
    <3> QED BY <2>1, <2>5, <3>2, <3>5, <3>6
  <2>6. CASE i \notin X
    <3>1. X \ {i} = X
      BY <2>6
    <3> QED BY <2>1, <2>4, <2>6, <3>1
  <2> QED BY <2>5, <2>6
<1> QED BY <1>5, <1>6, <1>7

\* An order keeps its place with fewer shares.
LEMMA ShrinkSums ==
  ASSUME BookInv, FiniteBook, NEW i \in Resting, NEW n \in Nat, n < orders[i].qty, Shrink(i, n)
  PROVE  /\ FiniteBook' /\ Cardinality(Resting') = Cardinality(Resting)
         /\ InBook' = InBook - n /\ InBook \in Int
         /\ TotalsAgree => TotalsAgree'
<1> DEFINE o == orders[i]
<1>1. o \in Order
  BY DEF BookInv, BookTypeOK, Resting, Order
<1>2. total' = [total EXCEPT ![o.side][o.price] = @ - n]
  BY DEF Shrink
<1>3. /\ Resting' = Resting
      /\ \A j \in Resting : orders'[j].side = orders[j].side /\ orders'[j].price = orders[j].price
      /\ \A X \in SUBSET Resting :
           Shares(orders', X) = Shares(orders, X) - (IF i \in X THEN n ELSE 0)
  BY ShrinkShares
<1>4. InBook' = InBook - n /\ InBook \in Int
  BY <1>3, RestingSummable DEF InBook
<1>5. ASSUME TotalsAgree PROVE TotalsAgree'
  <2> SUFFICES ASSUME NEW s \in Sides, NEW p \in ValidPrices
               PROVE  total'[s][p] = Shares(orders', OrdersAt(s, p)')
    BY TotalsAreNext
  <2>1. OrdersAt(s, p)' = OrdersAt(s, p)
    BY <1>3 DEF OrdersAt
  <2>2. i \in OrdersAt(s, p) <=> s = o.side /\ p = o.price
    BY DEF OrdersAt
  <2>3. total[s][p] = Shares(orders, OrdersAt(s, p)) /\ OrdersAt(s, p) \in SUBSET Resting
    BY <1>5, TotalsAre DEF OrdersAt
  <2>4. Shares(orders, OrdersAt(s, p)) \in Int
    BY <2>3, RestingSummable
  <2>5. total'[s][p] = total[s][p] - (IF s = o.side /\ p = o.price THEN n ELSE 0)
    BY <1>1, <1>2, <2>3, <2>4 DEF BookInv, BookTypeOK, Order
  <2>6. Shares(orders', OrdersAt(s, p)) =
          Shares(orders, OrdersAt(s, p)) - (IF i \in OrdersAt(s, p) THEN n ELSE 0)
    BY <1>3, <2>3
  <2> QED BY <2>1, <2>2, <2>3, <2>5, <2>6
<1>6. FiniteBook' /\ Cardinality(Resting') = Cardinality(Resting)
  BY <1>3 DEF FiniteBook
<1> QED BY <1>4, <1>5, <1>6

\* An order enters, with all its shares.
LEMMA RestSums ==
  ASSUME BookInv, FiniteBook, NEW i \in Ids, ~Live(i), NEW side \in Sides, NEW price \in ValidPrices,
         NEW qty \in Qtys, NEW actor \in Participants, Rest(i, side, price, qty, actor)
  PROVE  /\ FiniteBook'
         /\ InBook' = InBook + qty /\ InBook \in Int
         /\ TotalsAgree => TotalsAgree'
<1>1. PICK new : new = [side |-> side, price |-> price, qty |-> qty, participant |-> actor]
  OBVIOUS
<1>2. new.qty = qty /\ new.side = side /\ new.price = price /\ qty \in Int
  BY <1>1, QtyAssumption DEF Qtys
<1>3. orders' = [orders EXCEPT ![i] = new] /\ total' = [total EXCEPT ![side][price] = @ + qty]
  BY <1>1 DEF Rest
<1>4. \A j \in Ids : orders'[j] = IF j = i THEN new ELSE orders[j]
  BY <1>3 DEF BookInv, BookTypeOK
<1>5. Resting' = Resting \cup {i} /\ i \notin Resting
  <2>1. \A j : Live(j)' <=> Live(j) \/ j = i
    BY RestKeeps
  <2> QED BY <2>1 DEF Live, Resting
<1>6. ASSUME NEW X, X \subseteq Resting
      PROVE  Shares(orders', X) = Shares(orders, X) /\ Shares(orders', X \cup {i}) = Shares(orders, X) + qty
  <2>1. PICK others : others = orders'
    OBVIOUS
  <2>2. Summable(orders, X) /\ SameBut(orders, others, X, i)
    BY <1>4, <1>6, <2>1, RestingSummable DEF Resting, SameBut
  <2>3. others[i].qty = qty /\ i \notin X /\ X \ {i} = X
    BY <1>2, <1>4, <1>5, <1>6, <2>1
  <2>4. /\ Shares(others, X \ {i}) = Shares(orders, X) - (IF i \in X THEN orders[i].qty ELSE 0)
        /\ others[i].qty \in Int => Shares(others, X \cup {i}) = others[i].qty + Shares(others, X \ {i})
        /\ Shares(orders, X) \in Int
    BY <2>2, SharesChange
  <2>5. PICK a : a = Shares(orders, X)
    OBVIOUS
  <2>6. a \in Int /\ a - 0 = a /\ qty + a = a + qty
    BY <1>2, <2>4, <2>5
  <2>7. Shares(others, X) = a
    BY <2>3, <2>4, <2>5, <2>6
  <2>8. Shares(others, X \cup {i}) = qty + a
    BY <1>2, <2>3, <2>4, <2>7
  <2> QED BY <2>1, <2>5, <2>6, <2>7, <2>8
<1>7. InBook' = InBook + qty /\ InBook \in Int
  BY <1>5, <1>6, RestingSummable DEF InBook
<1>8. ASSUME TotalsAgree PROVE TotalsAgree'
  <2> SUFFICES ASSUME NEW s \in Sides, NEW p \in ValidPrices
               PROVE  total'[s][p] = Shares(orders', OrdersAt(s, p)')
    BY TotalsAreNext
  <2>1. OrdersAt(s, p)' = IF s = side /\ p = price THEN OrdersAt(s, p) \cup {i} ELSE OrdersAt(s, p)
    BY <1>2, <1>4, <1>5 DEF OrdersAt, Resting
  <2>2. total[s][p] = Shares(orders, OrdersAt(s, p)) /\ OrdersAt(s, p) \subseteq Resting
    BY <1>8, TotalsAre DEF OrdersAt
  <2>3. Shares(orders, OrdersAt(s, p)) \in Int
    BY <2>2, RestingSummable
  <2>4. total'[s][p] = IF s = side /\ p = price THEN total[s][p] + qty ELSE total[s][p]
    BY <1>2, <1>3, <2>2, <2>3 DEF BookInv, BookTypeOK
  <2> QED BY <1>6, <2>1, <2>2, <2>4
<1>9. FiniteBook'
  BY <1>5, FS_AddElement DEF FiniteBook
<1> QED BY <1>7, <1>8, <1>9

\* Nothing happens to the book.
LEMMA SameSums ==
  ASSUME BookInv, FiniteBook, UNCHANGED book
  PROVE  /\ FiniteBook' /\ Cardinality(Resting') = Cardinality(Resting)
         /\ InBook' = InBook /\ InBook \in Int
         /\ TotalsAgree => TotalsAgree'
<1>1. Resting' = Resting /\ UNCHANGED <<orders, total>>
  BY DEF book, Resting
<1>2. InBook \in Int
  BY RestingSummable DEF InBook
<1>3. \A s, p : OrdersAt(s, p)' = OrdersAt(s, p)
  BY <1>1 DEF OrdersAt
<1>4. TotalsAgree => TotalsAgree'
  BY <1>1, <1>3, TotalsAre, TotalsAreNext
<1> QED BY <1>1, <1>2, <1>4 DEF FiniteBook, InBook

-----------------------------------------------------------------------------
(* The counters.                                                           *)

\* What the counters say is still in the book or in a call's hands.
Net(c) == c.added - 2 * c.traded - c.canceled - c.executed

\* a and b are the same number to a counter.
Same(a, b) == \E k \in Int : a = b + k * CounterModulus

\* A number and its remainder are the same to a counter.
LEMMA SameMod ==
  ASSUME NEW a \in Int
  PROVE  \E k \in Int : a % CounterModulus = a + k * CounterModulus
<1>1. PICK m \in Nat \ {0} : m = CounterModulus
  BY ModulusAssumption
<1>2. PICK d \in Int : d = a \div m
  OBVIOUS
<1>3. a = m * (a \div m) + (a % m)
  OBVIOUS
<1>4. a % m = a + (-d) * m
  BY <1>2, <1>3
<1> QED BY <1>1, <1>4

\* Numbers that are the same to a counter leave the same remainder.
LEMMA SameRemainder ==
  ASSUME NEW a \in Int, NEW b \in Int, Same(a, b)
  PROVE  a % CounterModulus = b % CounterModulus
<1>1. PICK m \in Nat \ {0} : m = CounterModulus
  BY ModulusAssumption
<1>2. PICK k \in Int : a = b + k * m
  BY <1>1 DEF Same
<1>3. PICK d, e \in Int : d = a \div m /\ e = b \div m
  OBVIOUS
<1>4. PICK r, s \in 0..(m - 1) : r = a % m /\ s = b % m
  OBVIOUS
<1>5. a = m * (a \div m) + (a % m) /\ b = m * (b \div m) + (b % m)
  OBVIOUS
<1>6. a = m * d + r /\ b = m * e + s
  BY <1>3, <1>4, <1>5
<1>7. PICK g \in Int : g = e + k - d
  OBVIOUS
<1>8. r - s = g * m
  BY <1>2, <1>6, <1>7
<1>9. CASE g = 0
  BY <1>1, <1>4, <1>8, <1>9
<1>10. CASE g > 0
  <2>1. g * m >= m
    BY <1>10
  <2> QED BY <1>4, <1>8, <2>1
<1>11. CASE g < 0
  <2>1. g * m <= -m
    BY <1>11
  <2> QED BY <1>4, <1>8, <2>1
<1> QED BY <1>9, <1>10, <1>11

\* What counting n more does to the net, whichever counter it is.
LEMMA CountNet ==
  ASSUME NEW c \in Counters, NEW n \in Int
  PROVE  /\ Net(c) \in Int
         /\ Same(Net([c EXCEPT !.added = (@ + n) % CounterModulus]), Net(c) + n)
         /\ Same(Net([c EXCEPT !.traded = (@ + n) % CounterModulus]), Net(c) - 2 * n)
         /\ Same(Net([c EXCEPT !.canceled = (@ + n) % CounterModulus]), Net(c) - n)
         /\ Same(Net([c EXCEPT !.executed = (@ + n) % CounterModulus]), Net(c) - n)
<1>1. CounterModulus \in Int
  BY ModulusAssumption
<1>2. PICK a, t, x, e \in Int : a = c.added /\ t = c.traded /\ x = c.canceled /\ e = c.executed
  BY ModulusAssumption DEF Counters, Counter
<1>3. Net(c) = a - 2 * t - x - e
  BY <1>2 DEF Net
<1>4. Same(Net([c EXCEPT !.added = (@ + n) % CounterModulus]), Net(c) + n)
  <2>1. PICK k \in Int : (a + n) % CounterModulus = (a + n) + k * CounterModulus
    BY <1>2, SameMod
  <2>2. Net([c EXCEPT !.added = (@ + n) % CounterModulus])
          = ((a + n) % CounterModulus) - 2 * t - x - e
    BY <1>2 DEF Net, Counters
  <2>3. PICK m \in Int : m = k * CounterModulus
    BY <1>1, <2>1
  <2>4. Net([c EXCEPT !.added = (@ + n) % CounterModulus]) = (Net(c) + n) + m
    BY <1>2, <1>3, <2>1, <2>2, <2>3
  <2> QED BY <2>1, <2>3, <2>4 DEF Same
<1>5. Same(Net([c EXCEPT !.traded = (@ + n) % CounterModulus]), Net(c) - 2 * n)
  <2>1. PICK k \in Int : (t + n) % CounterModulus = (t + n) + k * CounterModulus
    BY <1>2, SameMod
  <2>2. Net([c EXCEPT !.traded = (@ + n) % CounterModulus])
          = a - 2 * ((t + n) % CounterModulus) - x - e
    BY <1>2 DEF Net, Counters
  <2>3. PICK m \in Int : m = k * CounterModulus
    BY <1>1, <2>1
  <2>4. Net([c EXCEPT !.traded = (@ + n) % CounterModulus]) = (Net(c) - 2 * n) + (-2) * m
    BY <1>2, <1>3, <2>1, <2>2, <2>3
  <2>5. (-2) * m = ((-2) * k) * CounterModulus /\ (-2) * k \in Int
    BY <1>1, <2>1, <2>3
  <2> QED BY <2>4, <2>5 DEF Same
<1>6. Same(Net([c EXCEPT !.canceled = (@ + n) % CounterModulus]), Net(c) - n)
  <2>1. PICK k \in Int : (x + n) % CounterModulus = (x + n) + k * CounterModulus
    BY <1>2, SameMod
  <2>2. Net([c EXCEPT !.canceled = (@ + n) % CounterModulus])
          = a - 2 * t - ((x + n) % CounterModulus) - e
    BY <1>2 DEF Net, Counters
  <2>3. PICK m \in Int : m = k * CounterModulus
    BY <1>1, <2>1
  <2>4. Net([c EXCEPT !.canceled = (@ + n) % CounterModulus]) = (Net(c) - n) + (-m)
    BY <1>2, <1>3, <2>1, <2>2, <2>3
  <2>5. -m = (-k) * CounterModulus /\ -k \in Int
    BY <1>1, <2>1, <2>3
  <2> QED BY <2>4, <2>5 DEF Same
<1>7. Same(Net([c EXCEPT !.executed = (@ + n) % CounterModulus]), Net(c) - n)
  <2>1. PICK k \in Int : (e + n) % CounterModulus = (e + n) + k * CounterModulus
    BY <1>2, SameMod
  <2>2. Net([c EXCEPT !.executed = (@ + n) % CounterModulus])
          = a - 2 * t - x - ((e + n) % CounterModulus)
    BY <1>2 DEF Net, Counters
  <2>3. PICK m \in Int : m = k * CounterModulus
    BY <1>1, <2>1
  <2>4. Net([c EXCEPT !.executed = (@ + n) % CounterModulus]) = (Net(c) - n) + (-m)
    BY <1>2, <1>3, <2>1, <2>2, <2>3
  <2>5. -m = (-k) * CounterModulus /\ -k \in Int
    BY <1>1, <2>1, <2>3
  <2> QED BY <2>4, <2>5 DEF Same
<1> QED BY <1>3, <1>2, <1>4, <1>5, <1>6, <1>7

\* Counting twice in one step.
LEMMA SameTwice ==
  ASSUME NEW a \in Int, NEW b \in Int, NEW c \in Int, NEW n \in Int, Same(a, b), Same(c, a + n)
  PROVE  Same(c, b + n)
<1>1. CounterModulus \in Int
  BY ModulusAssumption
<1>2. PICK k \in Int : a = b + k * CounterModulus
  BY DEF Same
<1>3. PICK l \in Int : c = a + n + l * CounterModulus
  BY DEF Same
<1>4. PICK x, y \in Int : x = k * CounterModulus /\ y = l * CounterModulus
  BY <1>1
<1>5. x + y = (k + l) * CounterModulus /\ k + l \in Int
  BY <1>1, <1>4
<1>6. c = (b + n) + (x + y)
  BY <1>2, <1>3, <1>4
<1> QED BY <1>5, <1>6 DEF Same

-----------------------------------------------------------------------------
(* The balance.                                                            *)

Open == IF call = NoCall THEN 0 ELSE call.left

\* The property in these words.
LEMMA UnaccountedIs ==
  ASSUME Inv, FiniteBook
  PROVE  /\ Net(counters) \in Int /\ InBook \in Int /\ Open \in Int
         /\ Unaccounted = (Net(counters) - InBook - Open) % CounterModulus
<1>1. Net(counters) \in Int
  <2>1. counters \in Counters /\ 0 \in Int
    BY DEF Inv, TypeOK
  <2> QED BY <2>1, CountNet
<1>2. InBook \in Int
  BY RestingSummable DEF InBook, Inv, TypeOK, BookInv
<1>3. Open \in Int
  BY QtyAssumption DEF Open, Inv, TypeOK, Call
<1>4. Unaccounted = (Net(counters) - InBook - Open) % CounterModulus
  BY DEF Unaccounted, Net, InBook, Open, Shares
<1> QED BY <1>1, <1>2, <1>3, <1>4

\* A step that adds as much to the net as to book and call leaves the balance.
LEMMA Balanced ==
  ASSUME Inv, FiniteBook, Inv', FiniteBook', NEW d \in Int,
         Same(Net(counters'), Net(counters) + d), InBook' + Open' = InBook + Open + d
  PROVE  Unaccounted' = Unaccounted
<1>1. /\ Net(counters) \in Int /\ InBook \in Int /\ Open \in Int
      /\ Unaccounted = (Net(counters) - InBook - Open) % CounterModulus
  BY UnaccountedIs
<1>2. /\ Net(counters') \in Int /\ InBook' \in Int /\ Open' \in Int
      /\ Unaccounted' = (Net(counters') - InBook' - Open') % CounterModulus
  <2>1. (Inv /\ FiniteBook =>
           /\ Net(counters) \in Int /\ InBook \in Int /\ Open \in Int
           /\ Unaccounted = (Net(counters) - InBook - Open) % CounterModulus)'
    BY UnaccountedIs, PTL
  <2> QED BY <2>1
<1>3. PICK k \in Int : Net(counters') = Net(counters) + d + k * CounterModulus
  BY DEF Same
<1>4. CounterModulus \in Int
  BY ModulusAssumption
<1>5. PICK m \in Int : m = k * CounterModulus
  BY <1>3, <1>4
<1>6. Net(counters') - InBook' - Open' = (Net(counters) - InBook - Open) + m
  <2>1. PICK n, x, o \in Int : n = Net(counters) /\ x = InBook /\ o = Open
    BY <1>1
  <2>2. PICK nn, xx, oo \in Int : nn = Net(counters') /\ xx = InBook' /\ oo = Open'
    BY <1>2
  <2>3. nn = n + d + m /\ xx + oo = x + o + d
    BY <1>3, <1>5, <2>1, <2>2
  <2>4. nn - xx - oo = (n - x - o) + m
    BY <1>5, <2>3
  <2> QED BY <2>1, <2>2, <2>4
<1>7. Same(Net(counters') - InBook' - Open', Net(counters) - InBook - Open)
  BY <1>3, <1>5, <1>6 DEF Same
<1>8. Net(counters') - InBook' - Open' \in Int /\ Net(counters) - InBook - Open \in Int
  BY <1>1, <1>2
<1> QED BY <1>1, <1>2, <1>7, <1>8, SameRemainder

\* Counting n in one counter, as Count does it.
LEMMA CountOnce ==
  ASSUME counters \in Counters, NEW n \in Int
  PROVE  /\ Same(Net(Count("added", n)), Net(counters) + n)
         /\ Same(Net(Count("traded", n)), Net(counters) + (-2) * n)
         /\ Same(Net(Count("canceled", n)), Net(counters) + (-n))
         /\ Same(Net(Count("executed", n)), Net(counters) + (-n))
         /\ Net(counters) \in Int
<1>1. PICK c \in Counters : c = counters
  OBVIOUS
<1>2. /\ Net(c) \in Int
      /\ Same(Net([c EXCEPT !.added = (@ + n) % CounterModulus]), Net(c) + n)
      /\ Same(Net([c EXCEPT !.traded = (@ + n) % CounterModulus]), Net(c) - 2 * n)
      /\ Same(Net([c EXCEPT !.canceled = (@ + n) % CounterModulus]), Net(c) - n)
      /\ Same(Net([c EXCEPT !.executed = (@ + n) % CounterModulus]), Net(c) - n)
  BY CountNet
<1>3. PICK a \in Int : a = Net(c)
  BY <1>2
<1>4. a - 2 * n = a + (-2) * n /\ a - n = a + (-n)
  BY <1>3
<1> QED BY <1>1, <1>2, <1>3, <1>4 DEF Count

-----------------------------------------------------------------------------
(* The shares: one lemma per action.                                       *)

\* The totals stay the sums of what rests, and no share appears or vanishes.
Accounted ==
  FiniteBook' /\ (TotalsAgree => TotalsAgree') /\ Unaccounted' = Unaccounted

\* A step that leaves the book, the counters and the call alone.
LEMMA NothingAccounts ==
  ASSUME Inv, Inv', FiniteBook, UNCHANGED <<book, counters, call>>
  PROVE  Accounted
<1>1. /\ FiniteBook' /\ (TotalsAgree => TotalsAgree')
      /\ InBook' = InBook /\ Open' = Open
  BY SameSums DEF Inv, TypeOK, BookInv, Open
<1>2. PICK n, b, o \in Int : n = Net(counters) /\ b = InBook /\ o = Open
  BY UnaccountedIs
<1>3. Unaccounted' = Unaccounted
  <2>1. n = (n + 0) + 0 * CounterModulus /\ b + o = b + o + 0
    BY <1>2, ModulusAssumption
  <2>2. Same(Net(counters'), Net(counters) + 0)
    BY <1>2, <2>1 DEF Same
  <2>3. InBook' + Open' = InBook + Open + 0
    BY <1>1, <1>2, <2>1
  <2> QED BY <1>1, <2>2, <2>3, Balanced
<1> QED BY <1>1, <1>3 DEF Accounted

\* One lemma for each action: the shares it moves are accounted for. An order enters.
LEMMA EnterAccounts ==
  ASSUME Inv, Inv', FiniteBook, NEW kind \in Kinds, NEW actor \in Participants,
         NEW i \in Ids \cup {0}, NEW side \in Sides, NEW price \in Prices,
         NEW qty \in 0..MaxQty, Enter(kind, actor, i, side, price, qty)
  PROVE  Accounted
<1> DEFINE r == Screen(kind, actor, i, side, price, qty)
<1>1. CASE r # "Ok"
  BY <1>1, NothingAccounts DEF Enter, Reject
<1>2. CASE r = "Ok"
  <2>1. CASE Reject(r)
    BY <2>1, NothingAccounts DEF Reject
  <2>2. CASE ~Reject(r)
    <3>1. /\ call = NoCall /\ call'.left = qty /\ call' \in Call
          /\ counters' = Count("added", qty) /\ UNCHANGED book
      <4>1. /\ call = NoCall /\ StartMatching(kind, actor, i, side, price, qty)
            /\ counters' = Count("added", qty) /\ UNCHANGED book
        BY <1>2, <2>2 DEF Enter, Idle
      <4>2. call'.left = qty /\ call'.qty = qty /\ call'.id = i
        BY <4>1 DEF StartMatching
      <4>3. call' # NoCall
        <5>1. Validate(kind, i, price, qty) = "Ok"
          BY <1>2 DEF Screen
        <5>2. i \in Ids /\ qty \in Qtys
          BY <5>1, ValidateOk
        <5>3. call' \in Call
          BY <4>1, <5>2, KindsAssumption, QtyAssumption DEF StartMatching, Call, Qtys
        <5> QED BY <5>3, NoCallAssumption
      <4> QED BY <4>1, <4>2, <4>3 DEF Inv, TypeOK
    <3>2. qty \in Int /\ counters \in Counters
      BY QtyAssumption DEF Inv, TypeOK
    <3>3. /\ FiniteBook' /\ (TotalsAgree => TotalsAgree')
          /\ InBook' = InBook /\ InBook \in Int
      BY <3>1, SameSums DEF Inv, TypeOK, BookInv
    <3>4. Open = 0 /\ Open' = qty
      BY <3>1, NoCallAssumption DEF Open
    <3>5. Same(Net(counters'), Net(counters) + qty)
      BY <3>1, <3>2, CountOnce
    <3>6. InBook' + Open' = InBook + Open + qty
      BY <3>2, <3>3, <3>4
    <3>7. Unaccounted' = Unaccounted
      BY <3>2, <3>3, <3>5, <3>6, Balanced
    <3> QED BY <3>3, <3>7 DEF Accounted
  <2> QED BY <2>1, <2>2
<1> QED BY <1>1, <1>2

\* What a fill does: it takes at least one share from an order that rests and
\* as many from the call.
LEMMA FillIs ==
  ASSUME Inv, NEW p \in ValidPrices, Fill(p)
  PROVE  \E i \in Resting, n \in Qtys :
           /\ IF n = orders[i].qty THEN Unlink(i) ELSE n < orders[i].qty /\ Shrink(i, n)
           /\ call # NoCall /\ call' # NoCall /\ call.left \in Int /\ call'.left = call.left - n
           /\ counters' = Count("traded", n)
<1> DEFINE i == Front1(p)
           o == orders[i]
           n == Min2(call.left, o.qty)
<1>1. call # NoCall /\ call \in Call /\ call.left > 0 /\ p \in levels[Opposite(call.side)]
  BY DEF Fill, CanMatch, IsBest, Inv, TypeOK
<1>2. Opposite(call.side) \in Sides
  BY <1>1 DEF Call, Opposite, Sides
<1>3. i \in Resting
  BY <1>1, <1>2, HeadIsResting DEF Inv, TypeOK, BookInv, Front1
<1>4. o.qty \in Qtys
  BY <1>3 DEF Inv, TypeOK, BookTypeOK, Resting, Order
<1>5. call.left \in 0..MaxQty /\ call.left \in Int
  BY <1>1, QtyAssumption DEF Call
<1>6. n \in Qtys /\ n <= o.qty /\ (n # o.qty => n < o.qty)
  BY <1>1, <1>4, <1>5, QtyAssumption DEF Qtys, Min2
<1>7. /\ IF n = o.qty THEN Unlink(i) ELSE Shrink(i, n)
      /\ call' = [call EXCEPT !.left = @ - n, !.filled = @ + n]
      /\ counters' = Count("traded", n)
  BY DEF Fill
<1> HIDE DEF i, n
<1>8. call'.left = call.left - n
  BY <1>1, <1>7 DEF Call
<1>9. call' # NoCall
  <2>1. call.left - n \in 0..MaxQty /\ call.filled + n \in 0..MaxQty
    <3>1. call.left + call.filled <= call.qty /\ call.qty \in Qtys /\ call.filled \in 0..MaxQty
      BY <1>1 DEF Inv, CallInv, Call
    <3>2. n <= call.left
      BY <1>4, <1>5, QtyAssumption DEF n, Min2, Qtys
    <3> QED BY <1>5, <1>6, <3>1, <3>2, QtyAssumption DEF Qtys
  <2>2. call' \in Call
    BY <1>1, <1>7, <2>1 DEF Call
  <2> QED BY <2>2, NoCallAssumption
<1> QED BY <1>1, <1>3, <1>5, <1>6, <1>7, <1>8, <1>9

\* A trade, which also brings the matching nearer to its end.
LEMMA FillAccounts ==
  ASSUME Inv, Inv', FiniteBook, NEW p \in ValidPrices, Fill(p)
  PROVE  /\ Accounted
         /\ Cardinality(Resting') + call'.left < Cardinality(Resting) + call.left
<1>1. PICK i \in Resting, n \in Qtys :
        /\ IF n = orders[i].qty THEN Unlink(i) ELSE n < orders[i].qty /\ Shrink(i, n)
        /\ call # NoCall /\ call' # NoCall /\ call.left \in Int /\ call'.left = call.left - n
        /\ counters' = Count("traded", n)
  BY FillIs
<1>2. n \in Nat /\ n \in Int /\ n >= 1 /\ counters \in Counters
  BY QtyAssumption DEF Qtys, Inv, TypeOK
<1>3. /\ FiniteBook' /\ (TotalsAgree => TotalsAgree')
      /\ InBook' = InBook - n /\ InBook \in Int
      /\ Cardinality(Resting') \in {Cardinality(Resting), Cardinality(Resting) - 1}
  <2>1. BookInv
    BY DEF Inv, TypeOK, BookInv
  <2>2. CASE n = orders[i].qty
    BY <1>1, <2>1, <2>2, UnlinkSums
  <2>3. CASE n # orders[i].qty
    BY <1>1, <1>2, <2>1, <2>3, ShrinkSums
  <2> QED BY <2>2, <2>3
<1>4. Open = call.left /\ Open' = call.left - n
  BY <1>1 DEF Open
<1>5. Same(Net(counters'), Net(counters) + (-2) * n)
  BY <1>1, <1>2, CountOnce
<1>6. InBook' + Open' = InBook + Open + (-2) * n /\ (-2) * n \in Int
  BY <1>1, <1>2, <1>3, <1>4
<1>7. Unaccounted' = Unaccounted
  BY <1>3, <1>5, <1>6, Balanced
<1>8. Cardinality(Resting) \in Int
  BY FS_CardinalityType DEF FiniteBook
<1>9. Cardinality(Resting') + call'.left < Cardinality(Resting) + call.left
  BY <1>1, <1>2, <1>3, <1>8
<1> QED BY <1>3, <1>7, <1>9 DEF Accounted

\* A prevented self-trade, which does so as well.
LEMMA PreventAccounts ==
  ASSUME Inv, Inv', FiniteBook, NEW p \in ValidPrices, PreventSelfTrade(p)
  PROVE  /\ Accounted
         /\ Cardinality(Resting') + call'.left < Cardinality(Resting) + call.left
<1> DEFINE i == Front1(p)
           taken == IF KillsResting THEN orders[i].qty ELSE 0
           dropped == IF KillsAggressor THEN call.left ELSE 0
<1>1. call # NoCall /\ call \in Call /\ call.left > 0 /\ p \in levels[Opposite(call.side)]
  BY DEF PreventSelfTrade, CanMatch, IsBest, Inv, TypeOK
<1>2. Opposite(call.side) \in Sides
  BY <1>1 DEF Call, Opposite, Sides
<1>3. i \in Resting /\ orders[i].qty \in Qtys
  <2>1. i \in Resting
    BY <1>1, <1>2, HeadIsResting DEF Inv, TypeOK, BookInv, Front1
  <2> QED BY <2>1 DEF Inv, TypeOK, BookTypeOK, Resting, Order
<1>4. taken \in Int /\ dropped \in Int /\ call.left \in Int /\ call.left \in 0..MaxQty
  BY <1>1, <1>3, QtyAssumption DEF Qtys, Call
<1>5. /\ IF KillsResting THEN Unlink(i) ELSE UNCHANGED book
      /\ call' = [call EXCEPT !.left = IF KillsAggressor THEN 0 ELSE @]
      /\ counters' = [Count("canceled", taken + dropped)
                         EXCEPT !.prevented = (@ + 1) % CounterModulus]
  BY DEF PreventSelfTrade
<1>6. call' \in Call /\ call'.left = call.left - dropped
  <2>1. (IF KillsAggressor THEN 0 ELSE call.left) = call.left - dropped
    BY <1>4
  <2>2. (IF KillsAggressor THEN 0 ELSE call.left) \in 0..MaxQty
    BY <1>4, QtyAssumption
  <2> QED BY <1>1, <1>5, <2>1, <2>2 DEF Call
<1>7. KillsResting \/ KillsAggressor
  BY DEF KillsResting, KillsAggressor
<1> HIDE DEF i
<1>8. /\ FiniteBook' /\ (TotalsAgree => TotalsAgree')
      /\ InBook' = InBook - taken /\ InBook \in Int
      /\ IF KillsResting THEN Cardinality(Resting') = Cardinality(Resting) - 1
         ELSE Cardinality(Resting') = Cardinality(Resting)
  <2>1. BookInv
    BY DEF Inv, TypeOK, BookInv
  <2>2. CASE KillsResting
    BY <1>3, <1>5, <2>1, <2>2, UnlinkSums
  <2>3. CASE ~KillsResting
    <3>1. InBook' = InBook /\ InBook \in Int /\ taken = 0
      BY <1>5, <2>1, <2>3, SameSums
    <3> QED BY <1>5, <2>1, <2>3, <3>1, SameSums
  <2> QED BY <2>2, <2>3
<1> HIDE DEF taken, dropped
<1>9. Open = call.left /\ Open' = call.left - dropped
  BY <1>1, <1>6, NoCallAssumption DEF Open
<1>10. Same(Net(counters'), Net(counters) + (-(taken + dropped)))
  <2>1. taken + dropped \in Int /\ counters \in Counters
    BY <1>4 DEF Inv, TypeOK
  <2>2. Same(Net(Count("canceled", taken + dropped)), Net(counters) + (-(taken + dropped)))
    BY <2>1, CountOnce
  <2>3. Net(counters') = Net(Count("canceled", taken + dropped))
    <3>1. PICK c \in Counters : c = Count("canceled", taken + dropped)
      BY <2>1, CountKeeps
    <3>2. Net([c EXCEPT !.prevented = (@ + 1) % CounterModulus]) = Net(c)
      BY <3>1 DEF Net, Counters
    <3> QED BY <1>5, <3>1, <3>2
  <2> QED BY <2>2, <2>3
<1>11. InBook' + Open' = InBook + Open + (-(taken + dropped)) /\ -(taken + dropped) \in Int
  BY <1>4, <1>8, <1>9
<1>12. Unaccounted' = Unaccounted
  BY <1>8, <1>10, <1>11, Balanced
<1>13. Cardinality(Resting') + call'.left < Cardinality(Resting) + call.left
  <2>1. Cardinality(Resting) \in Int
    BY FS_CardinalityType DEF FiniteBook
  <2>2. call'.left <= call.left /\ (KillsAggressor => call'.left < call.left)
    BY <1>1, <1>4, <1>6 DEF dropped
  <2>3. call'.left \in Int
    BY <1>4, <1>6
  <2> QED BY <1>4, <1>7, <1>8, <2>1, <2>2, <2>3
<1> QED BY <1>8, <1>12, <1>13 DEF Accounted

\* Matching is over: what is left rests or is canceled.
LEMMA FinishAccounts ==
  ASSUME Inv, Inv', FiniteBook, Finish
  PROVE  Accounted
<1>1. call # NoCall /\ call \in Call /\ call' = NoCall
  BY DEF Finish, MatchOver, Inv, TypeOK
<1>2. /\ call.left \in 0..MaxQty /\ call.left \in Int /\ call.id \in Ids /\ ~Live(call.id)
      /\ call.side \in Sides /\ call.actor \in Participants
      /\ call.kind # "market" => call.price \in ValidPrices
  BY <1>1, QtyAssumption DEF Call, Inv, CallInv
<1>3. Open = call.left /\ Open' = 0 /\ BookInv /\ counters \in Counters
  BY <1>1 DEF Open, Inv, TypeOK, BookInv
<1>4. CASE call.kind = "limit" /\ call.left > 0
  <2>1. Rest(call.id, call.side, call.price, call.left, call.actor) /\ counters' = counters
    BY <1>4 DEF Finish
  <2>2. call.left \in Qtys /\ call.price \in ValidPrices
    BY <1>2, <1>4, QtyAssumption DEF Qtys
  <2>3. /\ FiniteBook' /\ (TotalsAgree => TotalsAgree')
        /\ InBook' = InBook + call.left /\ InBook \in Int
    BY <1>2, <1>3, <2>1, <2>2, RestSums
  <2>4. Same(Net(counters'), Net(counters) + 0)
    <3>1. PICK n \in Int : n = Net(counters)
      BY UnaccountedIs
    <3>2. n = (n + 0) + 0 * CounterModulus
      BY <3>1, ModulusAssumption
    <3> QED BY <2>1, <3>1, <3>2 DEF Same
  <2>5. InBook' + Open' = InBook + Open + 0
    BY <1>2, <1>3, <2>3
  <2>6. Unaccounted' = Unaccounted
    BY <2>3, <2>4, <2>5, Balanced
  <2> QED BY <2>3, <2>6 DEF Accounted
<1>5. CASE ~(call.kind = "limit" /\ call.left > 0)
  <2>1. counters' = Count("canceled", call.left) /\ UNCHANGED book
    BY <1>5 DEF Finish
  <2>2. FiniteBook' /\ (TotalsAgree => TotalsAgree') /\ InBook' = InBook /\ InBook \in Int
    BY <1>3, <2>1, SameSums
  <2>3. Same(Net(counters'), Net(counters) + (-call.left)) /\ -call.left \in Int
    BY <1>2, <1>3, <2>1, CountOnce
  <2>4. InBook' + Open' = InBook + Open + (-call.left)
    BY <1>2, <1>3, <2>2
  <2>5. Unaccounted' = Unaccounted
    BY <2>2, <2>3, <2>4, Balanced
  <2> QED BY <2>2, <2>5 DEF Accounted
<1> QED BY <1>4, <1>5

\* A cancel.
LEMMA CancelAccounts ==
  ASSUME Inv, Inv', FiniteBook, NEW i \in Ids, Cancel(i)
  PROVE  Accounted
<1>1. CASE ~Live(i)
  BY <1>1, NothingAccounts DEF Cancel, Reject
<1>2. CASE Live(i)
  <2>1. /\ counters' = Count("canceled", orders[i].qty) /\ Unlink(i)
        /\ call = NoCall /\ call' = NoCall
    BY <1>2 DEF Cancel, Idle
  <2>2. i \in Resting /\ BookInv /\ counters \in Counters
    BY <1>2 DEF Live, Resting, Inv, TypeOK, BookInv
  <2>3. PICK n \in Int : n = orders[i].qty
    BY <2>2, QtyAssumption DEF BookInv, BookTypeOK, Resting, Order, Qtys
  <2>4. FiniteBook' /\ (TotalsAgree => TotalsAgree') /\ InBook' = InBook - n /\ InBook \in Int
    BY <2>1, <2>2, <2>3, UnlinkSums
  <2>5. Same(Net(counters'), Net(counters) + (-n)) /\ -n \in Int
    BY <2>1, <2>2, <2>3, CountOnce
  <2>6. InBook' + Open' = InBook + Open + (-n)
    BY <2>1, <2>3, <2>4 DEF Open
  <2>7. Unaccounted' = Unaccounted
    BY <2>4, <2>5, <2>6, Balanced
  <2> QED BY <2>4, <2>7 DEF Accounted
<1> QED BY <1>1, <1>2

\* A replace.
LEMMA ReplaceAccounts ==
  ASSUME Inv, Inv', FiniteBook, NEW old \in Ids, NEW new \in Ids \cup {0}, NEW price \in Prices,
         NEW qty \in 0..MaxQty, Replace(old, new, price, qty)
  PROVE  Accounted
<1> DEFINE r == ValidateReplace(old, new, price, qty)
<1>1. CASE Reject(r)
  BY <1>1, NothingAccounts DEF Reject
<1>2. CASE ~Reject(r)
  <2>1. /\ r = "Ok" /\ Unlink(old) /\ call = NoCall
        /\ StartMatching("limit", orders[old].participant, new, orders[old].side, price, qty)
        /\ counters' = [Count("canceled", orders[old].qty) EXCEPT !.added = (@ + qty) % CounterModulus]
    BY <1>2, ReplaceIs DEF ReplacedAtOnce, Replace, Idle, Inv, TypeOK
  <2>2. old \in Resting /\ BookInv /\ counters \in Counters
    BY <2>1 DEF ValidateReplace, Live, Resting, Inv, TypeOK, BookInv
  <2>3. new \in Ids /\ qty \in Qtys /\ price \in Prices
    BY <2>1, QtyAssumption DEF ValidateReplace, Validate, Qtys
  <2>4. orders[old] \in Order
    BY <2>2 DEF BookInv, BookTypeOK, Resting
  <2>5. call'.left = qty /\ call' # NoCall
    <3>1. call' \in Call
      BY <2>1, <2>3, <2>4, QtyAssumption DEF StartMatching, Call, Order, Qtys, KindNames
    <3> QED BY <2>1, <3>1, NoCallAssumption DEF StartMatching
  <2>6. PICK n \in Int : n = orders[old].qty
    BY <2>4, QtyAssumption DEF Order, Qtys
  <2>7. FiniteBook' /\ (TotalsAgree => TotalsAgree') /\ InBook' = InBook - n /\ InBook \in Int
    BY <2>1, <2>2, <2>6, UnlinkSums
  <2>8. qty \in Int /\ Open = 0 /\ Open' = qty
    BY <2>1, <2>3, <2>5, QtyAssumption DEF Open, Qtys
  <2>9. Same(Net(counters'), Net(counters) + (-n + qty)) /\ -n + qty \in Int
    <3>1. PICK c \in Counters : c = Count("canceled", n)
      BY <2>2, CountKeeps
    <3>2. Same(Net(c), Net(counters) + (-n)) /\ Net(counters) \in Int
      BY <2>2, <3>1, CountOnce
    <3>3. Same(Net(counters'), Net(c) + qty) /\ Net(c) \in Int
      BY <2>1, <2>6, <2>8, <3>1, CountNet
    <3>4. Net(counters') \in Int
      <4>1. (Inv /\ FiniteBook => Net(counters) \in Int)'
        BY UnaccountedIs, PTL
      <4> QED BY <2>7, <4>1
    <3>5. PICK a, b \in Int : a = Net(counters) + (-n) /\ b = Net(counters) + (-n + qty) /\ b = a + qty
      BY <2>8, <3>2
    <3>6. Same(Net(counters'), a + qty)
      BY <2>8, <3>2, <3>3, <3>4, <3>5, SameTwice
    <3> QED BY <2>8, <3>5, <3>6
  <2>10. InBook' + Open' = InBook + Open + (-n + qty)
    BY <2>7, <2>8
  <2>11. Unaccounted' = Unaccounted
    BY <2>7, <2>9, <2>10, Balanced
  <2> QED BY <2>7, <2>11 DEF Accounted
<1> QED BY <1>1, <1>2

\* A reduce or an execution.
LEMMA ConsumeAccounts ==
  ASSUME Inv, Inv', FiniteBook, NEW i \in Ids, NEW qty \in 0..MaxQty,
         NEW f \in {"executed", "canceled"}, Consume(i, qty, f)
  PROVE  Accounted
<1> DEFINE take == Min2(qty, orders[i].qty)
<1>1. CASE Reject("RejectedUnknownId") \/ Reject("RejectedBadQty")
  BY <1>1, NothingAccounts DEF Reject
<1>2. CASE ~(Reject("RejectedUnknownId") \/ Reject("RejectedBadQty"))
  <2>1. /\ Live(i) /\ qty # 0 /\ call = NoCall /\ call' = NoCall
        /\ counters' = Count(f, take)
        /\ IF take = orders[i].qty THEN Unlink(i) ELSE Shrink(i, take)
    BY <1>2 DEF Consume, Idle
  <2>2. i \in Resting /\ BookInv /\ counters \in Counters
    BY <2>1 DEF Live, Resting, Inv, TypeOK, BookInv
  <2>3. orders[i].qty \in Qtys
    BY <2>2 DEF BookInv, BookTypeOK, Resting, Order
  <2>4. take \in Nat /\ take \in Int /\ (take # orders[i].qty => take < orders[i].qty)
    BY <2>3, QtyAssumption DEF Min2, Qtys
  <2> HIDE DEF take
  <2>5. FiniteBook' /\ (TotalsAgree => TotalsAgree') /\ InBook' = InBook - take /\ InBook \in Int
    <3>1. CASE take = orders[i].qty
      BY <2>1, <2>2, <3>1, UnlinkSums
    <3>2. CASE take # orders[i].qty
      BY <2>1, <2>2, <2>4, <3>2, ShrinkSums
    <3> QED BY <3>1, <3>2
  <2>6. Same(Net(counters'), Net(counters) + (-take)) /\ -take \in Int
    BY <2>1, <2>2, <2>4, CountOnce
  <2>7. InBook' + Open' = InBook + Open + (-take)
    BY <2>1, <2>4, <2>5 DEF Open
  <2>8. Unaccounted' = Unaccounted
    BY <2>5, <2>6, <2>7, Balanced
  <2> QED BY <2>5, <2>8 DEF Accounted
<1> QED BY <1>1, <1>2

\* An order of a feed.
LEMMA InsertPassiveAccounts ==
  ASSUME Inv, Inv', FiniteBook, NEW i \in Ids \cup {0}, NEW side \in Sides, NEW price \in Prices,
         NEW qty \in 0..MaxQty, InsertPassive(i, side, price, qty)
  PROVE  Accounted
<1> DEFINE r == Validate("limit", i, price, qty)
<1>1. CASE Reject(r)
  BY <1>1, NothingAccounts DEF Reject
<1>2. CASE ~Reject(r)
  <2>1. /\ r = "Ok" /\ call = NoCall /\ call' = NoCall
        /\ counters' = Count("added", qty) /\ Rest(i, side, price, qty, 0)
    BY <1>2 DEF InsertPassive, Idle
  <2>2. i \in Ids /\ qty \in Qtys /\ qty \in Int /\ ~Live(i) /\ price \in ValidPrices
    BY <2>1, ValidateOk, QtyAssumption DEF Qtys
  <2>3. BookInv /\ counters \in Counters
    BY DEF Inv, TypeOK, BookInv
  <2>4. FiniteBook' /\ (TotalsAgree => TotalsAgree') /\ InBook' = InBook + qty /\ InBook \in Int
    BY <2>1, <2>2, <2>3, RestSums, ParticipantsAssumption
  <2>5. Same(Net(counters'), Net(counters) + qty)
    BY <2>1, <2>2, <2>3, CountOnce
  <2>6. InBook' + Open' = InBook + Open + qty
    BY <2>1, <2>2, <2>4 DEF Open
  <2>7. Unaccounted' = Unaccounted
    BY <2>2, <2>4, <2>5, <2>6, Balanced
  <2> QED BY <2>4, <2>7 DEF Accounted
<1> QED BY <1>1, <1>2

-----------------------------------------------------------------------------
(* The shares: the theorems.                                               *)

\* Every step of every sequence of calls.
LEMMA StepAccounts ==
  ASSUME Inv, Inv', FiniteBook, [ApiNext]_vars
  PROVE  Accounted
<1>1. CASE OrderEntry
  <2>1. CASE \E kind \in Kinds, actor \in Participants, i \in Ids \cup {0},
                side \in Sides, price \in Prices, qty \in 0..MaxQty :
               Enter(kind, actor, i, side, price, qty)
    BY <2>1, EnterAccounts
  <2>2. CASE \E i \in Ids : Cancel(i)
    BY <2>2, CancelAccounts
  <2>3. CASE \E old \in Ids, new \in Ids \cup {0}, price \in Prices, qty \in 0..MaxQty :
               Replace(old, new, price, qty)
    BY <2>3, ReplaceAccounts
  <2>4. CASE \E policy \in Policies : SetPolicy(policy)
    BY <2>4, NothingAccounts DEF SetPolicy
  <2> QED BY <1>1, <2>1, <2>2, <2>3, <2>4 DEF OrderEntry
<1>2. CASE Reduction
  BY <1>2, ConsumeAccounts DEF Reduction
<1>3. CASE MatchStep
  <2>1. CASE \E p \in ValidPrices : Fill(p) \/ PreventSelfTrade(p)
    BY <2>1, FillAccounts, PreventAccounts
  <2>2. CASE Finish
    BY <2>2, FinishAccounts
  <2>3. CASE Return
    BY <2>3, NothingAccounts DEF Return
  <2> QED BY <1>3, <2>1, <2>2, <2>3 DEF MatchStep
<1>4. CASE Passive
  BY <1>4, InsertPassiveAccounts DEF Passive
<1>5. CASE UNCHANGED vars
  BY <1>5, NothingAccounts DEF vars
<1> QED BY <1>1, <1>2, <1>3, <1>4, <1>5 DEF ApiNext, Next

\* At the beginning there is nothing to account for.
LEMMA InitAccounts ==
  ASSUME Init
  PROVE  FiniteBook /\ TotalsAgree /\ Unaccounted = 0
<1>1. Resting = {}
  BY DEF Init, Resting
<1>2. FiniteBook
  BY <1>1, FS_EmptySet DEF FiniteBook
<1>3. Shares(orders, {}) = 0
  BY SharesFirst, FS_EmptySet
<1>4. TotalsAgree
  <2>1. \A s, p : OrdersAt(s, p) = {}
    BY <1>1 DEF OrdersAt
  <2>2. \A s \in Sides, p \in ValidPrices : total[s][p] = 0
    BY DEF Init
  <2> QED BY <1>3, <2>1, <2>2, TotalsAre
<1>5. Unaccounted = 0
  <2>1. Net(counters) = 0 /\ InBook = 0 /\ Open = 0
    BY <1>1, <1>3 DEF Init, Net, InBook, Open
  <2>2. Unaccounted = (0 - 0 - 0) % CounterModulus
    BY <1>2, <2>1, InitInv, UnaccountedIs
  <2>3. PICK m \in Nat \ {0} : m = CounterModulus
    BY ModulusAssumption
  <2>4. 0 % m = 0
    OBVIOUS
  <2> QED BY <2>2, <2>3, <2>4
<1> QED BY <1>2, <1>4, <1>5

\* All of it at once.
SharesInv == FiniteBook /\ TotalsAgree /\ Unaccounted = 0

\* Shares are accounted for in every reachable state.
LEMMA SharesInvariance == ApiSpec => [](Inv /\ SharesInv)
<1>1. Init => SharesInv
  BY InitAccounts DEF SharesInv
<1>2. Inv /\ Inv' /\ SharesInv /\ [ApiNext]_vars => SharesInv'
  BY StepAccounts DEF Accounted, SharesInv
<1> QED BY ApiInvariance, <1>1, <1>2, PTL DEF ApiSpec

\* Each level's running total is the sum of what rests there, whatever is
\* called in whatever order.
THEOREM TotalsAlwaysAgree == ApiSpec => []TotalsAgree
  BY SharesInvariance, PTL DEF SharesInv

\* No share appears or vanishes, whatever the counters wrap at.
THEOREM SharesAreConserved == ApiSpec => SharesConserved
<1>1. Inv /\ FiniteBook /\ Inv' /\ [ApiNext]_vars => [Unaccounted' = Unaccounted]_vars
  BY StepAccounts DEF Accounted
<1>2. Init => Unaccounted = 0
  BY InitAccounts
<1> QED BY <1>1, <1>2, SharesInvariance, PTL DEF ApiSpec, SharesConserved, SharesInv

\* Each iteration of the matching loop leaves less to match: the loop ends,
\* whatever rests and under every self-trade policy.
THEOREM MatchingAlwaysEnds == ApiSpec => MatchingEnds
<1> DEFINE Progress ==
      call # NoCall /\ call' # NoCall =>
        Cardinality(Resting') + call'.left < Cardinality(Resting) + call.left
<1>1. ASSUME Inv, FiniteBook, Inv', ApiNext PROVE Progress
  <2>1. CASE \E p \in ValidPrices : Fill(p) \/ PreventSelfTrade(p)
    BY <1>1, <2>1, FillAccounts, PreventAccounts
  <2>2. CASE OrderEntry \/ Reduction \/ Passive
    BY <2>2 DEF OrderEntry, Reduction, Passive, Enter, Cancel, Replace, SetPolicy, Consume,
                InsertPassive, Idle
  <2>3. CASE Finish \/ Return
    BY <2>3 DEF Finish, Return
  <2> QED BY <1>1, <2>1, <2>2, <2>3 DEF ApiNext, Next, MatchStep
<1>2. Inv /\ FiniteBook /\ Inv' /\ [ApiNext]_vars => [Progress]_vars
  BY <1>1
<1> HIDE DEF Progress
<1>3. ApiSpec => [][Progress]_vars
  BY <1>2, SharesInvariance, PTL DEF ApiSpec, SharesInv
<1> QED BY <1>3 DEF MatchingEnds, Progress

-----------------------------------------------------------------------------
(* Fill or kill.                                                           *)

\* The shares of two sets of orders without a common one.
LEMMA SharesUnion ==
  ASSUME NEW nodes, NEW S, NEW T, Summable(nodes, S), Summable(nodes, T), S \cap T = {}
  PROVE  Shares(nodes, S \cup T) = Shares(nodes, S) + Shares(nodes, T)
<1> DEFINE B == {t \in SUBSET T : Shares(nodes, S \cup t) # Shares(nodes, S) + Shares(nodes, t)}
<1> SUFFICES ASSUME B # {} PROVE FALSE
  OBVIOUS
<1>1. PICK t \in B : \A u \in B : u \subseteq t => u = t
  <2>1. B \in SUBSET (SUBSET T) /\ IsFiniteSet(T)
    BY DEF Summable
  <2> HIDE DEF B
  <2> QED BY <2>1, LeastSet
<1>2. t \in SUBSET T /\ Shares(nodes, S \cup t) # Shares(nodes, S) + Shares(nodes, t)
  OBVIOUS
<1>3. Summable(nodes, t) /\ Summable(nodes, S \cup t) /\ Shares(nodes, S) \in Int
  BY <1>2, FS_Subset, FS_Union, SharesTake DEF Summable
<1>4. CASE t = {}
  <2>1. S \cup t = S /\ Shares(nodes, t) = 0
    BY <1>3, <1>4, SharesTake
  <2> QED BY <1>2, <1>3, <2>1
<1>5. CASE t # {}
  <2>1. PICK x \in t : TRUE
    BY <1>5
  <2>2. PICK u : u = t \ {x}
    OBVIOUS
  <2>3. Shares(nodes, S \cup u) = Shares(nodes, S) + Shares(nodes, u)
    <3>1. u \in SUBSET T /\ u \subseteq t /\ u # t
      BY <1>2, <2>1, <2>2
    <3>2. u \notin B
      BY <1>1, <3>1
    <3> QED BY <3>1, <3>2
  <2>4. Shares(nodes, t) = nodes[x].qty + Shares(nodes, u)
    BY <1>3, <2>1, <2>2, SharesTake
  <2>5. Shares(nodes, S \cup t) = nodes[x].qty + Shares(nodes, S \cup u)
    <3>1. x \in S \cup t /\ (S \cup t) \ {x} = S \cup u
      BY <1>2, <2>1, <2>2
    <3>2. PICK w : w = S \cup t
      OBVIOUS
    <3>3. Shares(nodes, w) = nodes[x].qty + Shares(nodes, w \ {x})
      BY <1>3, <3>1, <3>2, SharesTake
    <3> QED BY <3>1, <3>2, <3>3
  <2>6. Shares(nodes, u) \in Int /\ nodes[x].qty \in Int
    <3>1. Summable(nodes, u)
      BY <1>3, <2>2, FS_Subset DEF Summable
    <3> QED BY <1>3, <2>1, <3>1, SharesTake DEF Summable
  <2>7. PICK a, b, c : a = Shares(nodes, S) /\ b = Shares(nodes, u) /\ c = nodes[x].qty
    OBVIOUS
  <2>8. a \in Int /\ b \in Int /\ c \in Int
    BY <1>3, <2>6, <2>7
  <2>9. Shares(nodes, S \cup t) = c + (a + b) /\ Shares(nodes, t) = c + b
    BY <2>3, <2>4, <2>5, <2>7
  <2>10. Shares(nodes, S \cup t) = a + Shares(nodes, t)
    BY <2>8, <2>9
  <2> QED BY <1>2, <2>7, <2>10
<1> QED BY <1>4, <1>5


\* What the levels of side s at the prices in L say they hold.
Held(side, L) == MapThenSumSet(LAMBDA p : total[side][p], L)

Holding(side, L, f) ==
  f = [t \in SUBSET L |-> IF t = {} THEN 0 ELSE total[side][First(t)] + f[t \ {First(t)}]]

\* The shares held at the levels of L are the sum over L, whatever the order of summing.
LEMMA HeldIs ==
  ASSUME NEW side, NEW L, NEW g, Holding(side, L, g)
  PROVE  \E f : Holding(side, L, f) /\ Held(side, L) = f[L]
  BY DEF Held, Holding, MapThenSumSet, MapThenFoldSet, First

\* What the levels in L say they hold is what rests there.
LEMMA LevelsHold ==
  ASSUME BookInv, FiniteBook, TotalsAgree, NEW s \in Sides,
         NEW L \in SUBSET ValidPrices, IsFiniteSet(L)
  PROVE  Held(s, L) = Shares(orders, {i \in Resting : orders[i].side = s /\ orders[i].price \in L})
<1> DEFINE At(l) == {i \in Resting : orders[i].side = s /\ orders[i].price \in l}
           lots == [p \in ValidPrices |-> [qty |-> total[s][p]]]
<1>1. \A p \in ValidPrices : lots[p].qty = total[s][p] /\ lots[p].qty \in Int
  BY DEF BookInv, BookTypeOK
<1>2. Held(s, L) = Shares(lots, L)
  <2>1. \A t \in SUBSET L : t # {} => lots[First(t)].qty = total[s][First(t)]
    BY <1>1, FirstIs
  <2> HIDE DEF lots
  <2>2. ASSUME NEW f PROVE Holding(s, L, f) <=> Adding(lots, L, f)
    <3>1. [t \in SUBSET L |-> IF t = {} THEN 0 ELSE total[s][First(t)] + f[t \ {First(t)}]]
            = [t \in SUBSET L |-> IF t = {} THEN 0 ELSE lots[First(t)].qty + f[t \ {First(t)}]]
      BY <2>1
    <3> QED BY <3>1 DEF Holding, Adding
  <2>3. PICK g : Adding(lots, L, g)
    BY AddingExists
  <2>4. PICK f : Holding(s, L, f) /\ Held(s, L) = f[L]
    BY <2>2, <2>3, HeldIs
  <2> QED BY <2>2, <2>4, SharesIs
<1> HIDE DEF lots
<1>3. Summable(lots, L)
  BY <1>1 DEF Summable
<1> DEFINE B == {l \in SUBSET L : Shares(lots, l) # Shares(orders, At(l))}
<1>4. CASE B = {}
  BY <1>2, <1>4
<1>5. CASE B # {}
  <2>1. PICK l \in B : \A t \in B : t \subseteq l => t = l
    <3>1. B \in SUBSET (SUBSET L)
      OBVIOUS
    <3> HIDE DEF B
    <3> QED BY <1>5, <3>1, LeastSet
  <2>2. l \in SUBSET L /\ Shares(lots, l) # Shares(orders, At(l))
    OBVIOUS
  <2>3. Summable(lots, l)
    BY <1>3, <2>2, FS_Subset DEF Summable
  <2>4. CASE l = {}
    <3>1. At(l) = {}
      BY <2>4
    <3>2. Shares(lots, {}) = 0 /\ Shares(orders, {}) = 0
      BY SharesFirst, FS_EmptySet
    <3> QED BY <2>2, <2>4, <3>1, <3>2
  <2>5. CASE l # {}
    <3>1. PICK p \in l : TRUE
      BY <2>5
    <3>2. PICK k : k = l \ {p}
      OBVIOUS
    <3>3. k \in SUBSET L /\ k \subseteq l /\ k # l /\ p \in ValidPrices
      BY <2>2, <3>1, <3>2
    <3>4. Shares(lots, k) = Shares(orders, At(k))
      <4>1. k \notin B
        BY <2>1, <3>3
      <4> QED BY <3>3, <4>1
    <3>5. Shares(lots, l) = total[s][p] + Shares(lots, k)
      <4>1. Shares(lots, l) = lots[p].qty + Shares(lots, l \ {p})
        BY <2>3, <3>1, SharesTake
      <4> QED BY <1>1, <3>2, <3>3, <4>1
    <3>6. total[s][p] = Shares(orders, OrdersAt(s, p))
      BY <3>3, TotalsAre
    <3>7. At(l) = OrdersAt(s, p) \cup At(k) /\ OrdersAt(s, p) \cap At(k) = {}
      BY <3>1, <3>2 DEF OrdersAt
    <3>8. PICK X, Y : X = OrdersAt(s, p) /\ Y = At(k)
      OBVIOUS
    <3>9. X \subseteq Resting /\ Y \subseteq Resting
      BY <3>8 DEF OrdersAt
    <3>10. Summable(orders, X) /\ Summable(orders, Y)
      BY <3>9, RestingSummable
    <3>11. Shares(orders, X \cup Y) = Shares(orders, X) + Shares(orders, Y)
      BY <3>7, <3>8, <3>10, SharesUnion
    <3> QED BY <2>2, <3>4, <3>5, <3>6, <3>7, <3>8, <3>11
  <2> QED BY <2>4, <2>5
<1> QED BY <1>4, <1>5

\* Whose shares the pre-scan adds up, with or without self-trade prevention.
Reach(actor, side, price) ==
  IF StpOn(actor) THEN ReachedOrders(actor, side, price) ELSE CrossingOrders(side, price)

\* Who those are.
LEMMA CrossingIs ==
  ASSUME BookInv, NEW side \in Sides, NEW price
  PROVE  /\ CrossingOrders(side, price) =
              {i \in Resting : /\ orders[i].side = Opposite(side)
                               /\ Crosses("fok", side, price, orders[i].price)}
         /\ \A i \in CrossingOrders(side, price) :
              orders[i].price \in levels[Opposite(side)]
         /\ \A actor : Reach(actor, side, price) \subseteq CrossingOrders(side, price)
<1>1. CrossingOrders(side, price) =
        {i \in Resting : /\ orders[i].side = Opposite(side)
                         /\ Crosses("fok", side, price, orders[i].price)}
  BY DEF CrossingOrders, Live, Resting
<1>2. ASSUME NEW i \in CrossingOrders(side, price)
      PROVE  orders[i].price \in levels[Opposite(side)]
  <2>1. i \in Resting /\ orders[i].side = Opposite(side)
    BY <1>1, <1>2
  <2>2. orders[i].side \in Sides /\ orders[i].price \in ValidPrices
    BY <2>1 DEF BookInv, BookTypeOK, Resting, Order
  <2>3. fifo[orders[i].side][orders[i].price] # <<>>
    <3>1. PICK k \in DOMAIN fifo[orders[i].side][orders[i].price] : TRUE
      BY <2>1 DEF BookInv, IndexesAgree
    <3>2. DOMAIN <<>> = {}
      OBVIOUS
    <3> QED BY <3>1, <3>2
  <2> QED BY <2>1, <2>2, <2>3 DEF BookInv, LevelsLive
<1>3. \A actor : Reach(actor, side, price) \subseteq CrossingOrders(side, price)
  BY DEF Reach, ReachedOrders
<1> QED BY <1>1, <1>2, <1>3

\* A ladder has no more levels than there are orders.
LEMMA LevelsFinite ==
  ASSUME BookInv, FiniteBook, NEW s \in Sides
  PROVE  IsFiniteSet(levels[s])
<1> DEFINE f == [p \in levels[s] |-> Head(fifo[s][p])]
<1>1. \A p \in levels[s] : f[p] \in Resting /\ orders[f[p]].price = p
  BY HeadIsResting
<1>2. f \in Injection(levels[s], Resting)
  <2>1. f \in [levels[s] -> Resting]
    BY <1>1
  <2>2. \A p, q \in levels[s] : f[p] = f[q] => p = q
    <3> HIDE DEF f
    <3> QED BY <1>1
  <2> HIDE DEF f
  <2> QED BY <2>1, <2>2 DEF Injection, IsInjective
<1> HIDE DEF f
<1> QED BY <1>2, FS_Injection DEF FiniteBook

\* The pre-scan adds up what it reaches.
LEMMA AvailableIs ==
  ASSUME BookInv, FiniteBook, TotalsAgree, NEW actor, NEW side \in Sides, NEW price
  PROVE  Available(actor, side, price) = Shares(orders, Reach(actor, side, price))
<1>1. CASE StpOn(actor)
  BY <1>1 DEF Available, Reach, Shares
<1>2. CASE ~StpOn(actor)
  <2> DEFINE L == {p \in levels[Opposite(side)] : Crosses("fok", side, price, p)}
  <2>1. Opposite(side) \in Sides
    BY DEF Opposite, Sides
  <2>2. L \in SUBSET ValidPrices /\ IsFiniteSet(L)
    <3>1. levels[Opposite(side)] \subseteq ValidPrices
      BY <2>1 DEF BookInv, BookTypeOK
    <3> QED BY <2>1, <3>1, LevelsFinite, FS_Subset
  <2>3. Available(actor, side, price) = Held(Opposite(side), L)
    BY <1>2 DEF Available, Held
  <2>4. Held(Opposite(side), L) =
          Shares(orders, {i \in Resting : orders[i].side = Opposite(side) /\ orders[i].price \in L})
    <3> HIDE DEF L
    <3> QED BY <2>1, <2>2, LevelsHold
  <2>5. {i \in Resting : orders[i].side = Opposite(side) /\ orders[i].price \in L}
          = CrossingOrders(side, price)
    BY CrossingIs
  <2> QED BY <1>2, <2>3, <2>4, <2>5 DEF Reach
<1> QED BY <1>1, <1>2

\* Where an order is in its queue.
Place(i) == Position(fifo[orders[i].side][orders[i].price], i)

\* A live order is where Place says it is.
LEMMA PlaceIs ==
  ASSUME BookInv, NEW i \in Resting
  PROVE  LET q == fifo[orders[i].side][orders[i].price]
         IN  Place(i) \in 1..Len(q) /\ q[Place(i)] = i /\ q \in Seq(Ids)
<1> DEFINE q == fifo[orders[i].side][orders[i].price]
<1>1. q \in Seq(Ids)
  BY DEF BookInv, BookTypeOK, Resting, Order
<1>2. \E k \in DOMAIN q : q[k] = i
  BY DEF BookInv, IndexesAgree
<1> HIDE DEF q
<1>3. Position(q, i) \in 1..Len(q) /\ q[Position(q, i)] = i
  BY <1>1, <1>2, PositionFinds, LenProperties
<1> QED BY <1>1, <1>3 DEF Place, q

\* The order the loop matches against comes before all others of its side.
LEMMA FrontComesFirst ==
  ASSUME Inv, NEW p \in ValidPrices, CanMatch(p)
  PROVE  /\ Front1(p) \in Resting /\ call.side \in Sides
         /\ orders[Front1(p)].side = Opposite(call.side) /\ orders[Front1(p)].price = p
         /\ Place(Front1(p)) = 1
         /\ \A j \in Resting \ {Front1(p)} : orders[j].side = Opposite(call.side) =>
              MatchedBefore(Front1(p), j) /\ ~MatchedBefore(j, Front1(p))
<1> DEFINE i == Front1(p)
           s == Opposite(call.side)
<1>1. call.side \in Sides /\ s \in Sides /\ BookInv
  BY NoCallAssumption DEF CanMatch, Inv, TypeOK, BookInv, Call, Opposite, Sides
<1>2. p \in levels[s] /\ \A q \in levels[s] : ~Better(s, q, p)
  BY DEF CanMatch, IsBest
<1>3. i \in Resting /\ orders[i].side = s /\ orders[i].price = p
  BY <1>1, <1>2, HeadIsResting DEF Front1
<1>4. Place(i) = 1
  <2> DEFINE q == fifo[s][p]
  <2>1. Place(i) \in 1..Len(q) /\ q[Place(i)] = i /\ q \in Seq(Ids)
    BY <1>1, <1>3, PlaceIs
  <2>2. q # <<>>
    BY <1>1, <1>2 DEF BookInv, LevelsLive
  <2>3. Head(q) = q[1] /\ 1 \in DOMAIN q /\ DOMAIN q = 1..Len(q)
    BY <2>1, <2>2, EmptySeq, LenProperties
  <2>4. q[1] = i
    BY <2>3 DEF Front1
  <2>5. \A j, k \in DOMAIN q : q[j] = q[k] => j = k
    BY <1>1 DEF BookInv, IndexesAgree
  <2> HIDE DEF q, i
  <2> QED BY <2>1, <2>3, <2>4, <2>5
<1>5. ASSUME NEW j \in Resting \ {i}, orders[j].side = s
      PROVE  MatchedBefore(i, j) /\ ~MatchedBefore(j, i)
  <2>1. orders[j].price \in ValidPrices
    BY <1>1 DEF BookInv, BookTypeOK, Resting, Order
  <2>2. orders[j].price \in levels[s]
    <3>1. Place(j) \in 1..Len(fifo[s][orders[j].price]) /\ fifo[s][orders[j].price] \in Seq(Ids)
      BY <1>1, <1>5, PlaceIs
    <3>2. fifo[s][orders[j].price] # <<>>
      BY <3>1, EmptySeq
    <3> QED BY <1>1, <2>1, <3>2 DEF BookInv, LevelsLive
  <2>3. ~Better(s, orders[j].price, p) /\ orders[j].price \in Int /\ p \in Int
    BY <1>2, <2>1, <2>2, PricesAssumption
  <2>4. CASE orders[j].price # p
    <3>1. Better(s, p, orders[j].price)
      BY <2>3, <2>4 DEF Better
    <3> QED BY <1>3, <1>5, <2>3, <2>4, <3>1 DEF MatchedBefore
  <2>5. CASE orders[j].price = p
    <3>1. Place(j) \in 1..Len(fifo[s][p]) /\ fifo[s][p][Place(j)] = j /\ fifo[s][p] \in Seq(Ids)
      BY <1>1, <1>5, <2>5, PlaceIs
    <3>2. fifo[s][p][1] = i
      BY <1>1, <1>3, <1>4, PlaceIs
    <3>3. Place(j) # 1
      BY <3>1, <3>2
    <3>4. Place(j) > 1 /\ ~(Place(j) < 1) /\ 1 < Place(j)
      BY <3>1, <3>3
    <3>5. ~Better(s, p, p)
      BY <2>3 DEF Better
    <3>6. Position(fifo[s][p], j) = Place(j) /\ Position(fifo[s][p], i) = 1
      BY <1>3, <1>4, <1>5, <2>5 DEF Place
    <3> QED BY <1>3, <1>5, <2>5, <3>4, <3>5, <3>6 DEF MatchedBefore
  <2> QED BY <2>4, <2>5
<1> QED BY <1>1, <1>3, <1>4, <1>5

\* It is one the pre-scan reaches, and before all others that it does.
LEMMA FrontIsFirst ==
  ASSUME Inv, NEW p \in ValidPrices, CanMatch(p), call.kind = "fok"
  PROVE  /\ Front1(p) \in CrossingOrders(call.side, call.price)
         /\ Front1(p) \in Resting /\ call.side \in Sides
         /\ orders[Front1(p)].side = Opposite(call.side) /\ orders[Front1(p)].price = p
         /\ Place(Front1(p)) = 1
         /\ \A j \in CrossingOrders(call.side, call.price) \ {Front1(p)} :
              MatchedBefore(Front1(p), j) /\ ~MatchedBefore(j, Front1(p))
<1>1. BookInv /\ call.side \in Sides /\ Crosses("fok", call.side, call.price, p)
  BY FrontComesFirst DEF Inv, TypeOK, BookInv, CanMatch
<1>2. CrossingOrders(call.side, call.price) =
        {i \in Resting : /\ orders[i].side = Opposite(call.side)
                         /\ Crosses("fok", call.side, call.price, orders[i].price)}
  BY <1>1, CrossingIs
<1> QED BY <1>1, <1>2, FrontComesFirst

\* What the loop takes off the front of a queue leaves the others in their order.
LEMMA FrontLeaves ==
  ASSUME BookInv, NEW i \in Resting, Place(i) = 1, Unlink(i)
  PROVE  \A a, b \in Resting \ {i} : orders[a].side = orders[b].side =>
           (MatchedBefore(a, b)' <=> MatchedBefore(a, b))
<1> DEFINE o == orders[i]
           q == fifo[o.side][o.price]
<1>1. o.side \in Sides /\ o.price \in ValidPrices
  BY DEF BookInv, BookTypeOK, Resting, Order
<1>2. q \in Seq(Ids) /\ 1 \in 1..Len(q) /\ q[1] = i
  BY PlaceIs
<1>3. PICK r : r = RemoveAt(q, 1)
  OBVIOUS
<1>4. Len(r) = Len(q) - 1 /\ r \in Seq(Ids) /\ \A k \in 1..(Len(q) - 1) : r[k] = q[k + 1]
  <2> HIDE DEF q
  <2>1. /\ r \in Seq(Ids) /\ Len(r) = Len(q) - 1
        /\ \A k \in 1..(Len(q) - 1) : r[k] = IF k < 1 THEN q[k] ELSE q[k + 1]
    BY <1>2, <1>3, RemoveAtIs
  <2> QED BY <2>1
<1>5. \A s \in Sides, p \in ValidPrices :
        fifo'[s][p] = IF s = o.side /\ p = o.price THEN r ELSE fifo[s][p]
  BY <1>1, <1>2, <1>3 DEF Unlink, Place, BookInv, BookTypeOK
<1>6. \A a \in Resting \ {i} : orders'[a] = orders[a]
  BY DEF Unlink, Resting, BookInv, BookTypeOK
<1>7. \A j, k \in 1..Len(q) : q[j] = q[k] => j = k
  BY <1>1, <1>2, LenProperties DEF BookInv, IndexesAgree
<1>8. ASSUME NEW a \in Resting \ {i}, orders[a].side = o.side, orders[a].price = o.price
      PROVE  Position(r, a) = Position(q, a) - 1 /\ Position(q, a) \in Int
  <2>1. Position(q, a) \in 1..Len(q) /\ q[Position(q, a)] = a
    BY <1>8, PlaceIs DEF Place
  <2>2. PICK n : n = Position(q, a)
    OBVIOUS
  <2> HIDE DEF q
  <2>3. n # 1 /\ n \in 1..Len(q) /\ Len(q) \in Nat
    BY <1>2, <2>1, <2>2, LenProperties
  <2>4. n - 1 \in 1..Len(r) /\ r[n - 1] = q[n]
    BY <1>4, <2>3
  <2>5. Position(r, a) \in 1..Len(r) /\ r[Position(r, a)] = a
    BY <2>1, <2>2, <2>4, PositionFinds
  <2>6. PICK m : m = Position(r, a)
    OBVIOUS
  <2>7. m \in 1..(Len(q) - 1) /\ q[m + 1] = a
    BY <1>4, <2>5, <2>6
  <2>8. m + 1 = n
    BY <1>7, <2>1, <2>2, <2>3, <2>7
  <2> QED BY <2>2, <2>3, <2>6, <2>7, <2>8
<1> HIDE DEF q
<1>9. ASSUME NEW a \in Resting \ {i}, NEW b \in Resting \ {i}, orders[a].side = orders[b].side,
             orders[a].price = orders[b].price
      PROVE  Position(fifo'[orders[a].side][orders[a].price], a)
               < Position(fifo'[orders[a].side][orders[a].price], b)
             <=> Position(fifo[orders[a].side][orders[a].price], a)
                   < Position(fifo[orders[a].side][orders[a].price], b)
  <2>1. orders[a].side \in Sides /\ orders[a].price \in ValidPrices
    BY DEF BookInv, BookTypeOK, Resting, Order
  <2>2. CASE orders[a].side = o.side /\ orders[a].price = o.price
    <3>1. PICK m, n : m = Position(q, a) /\ n = Position(q, b)
      OBVIOUS
    <3>2. Position(r, a) = m - 1 /\ Position(r, b) = n - 1 /\ m \in Int /\ n \in Int
      BY <1>8, <1>9, <2>2, <3>1
    <3>3. fifo'[orders[a].side][orders[a].price] = r /\ fifo[orders[a].side][orders[a].price] = q
      BY <1>5, <2>1, <2>2 DEF q
    <3> QED BY <3>1, <3>2, <3>3
  <2>3. CASE ~(orders[a].side = o.side /\ orders[a].price = o.price)
    BY <1>5, <2>1, <2>3
  <2> QED BY <2>2, <2>3
<1>10. ASSUME NEW a \in Resting \ {i}, NEW b \in Resting \ {i}, orders[a].side = orders[b].side
       PROVE  MatchedBefore(a, b)' <=> MatchedBefore(a, b)
  <2>1. orders'[a] = orders[a] /\ orders'[b] = orders[b]
    BY <1>6
  <2>2. CASE orders[a].price = orders[b].price
    BY <1>9, <1>10, <2>1, <2>2 DEF MatchedBefore, Better
  <2>3. CASE orders[a].price # orders[b].price
    BY <2>1, <2>3 DEF MatchedBefore, Better
  <2> QED BY <2>2, <2>3
<1> QED BY <1>10

\* The front order filled completely: the others are reached as before.
LEMMA UnlinkReach ==
  ASSUME BookInv, FiniteBook, NEW i \in Resting, Place(i) = 1, Unlink(i), stp' = stp,
         NEW actor, NEW side \in Sides, NEW price,
         StpOn(actor) /\ KillsAggressor => orders[i].participant # actor
  PROVE  Reach(actor, side, price)' = Reach(actor, side, price) \ {i}
<1> DEFINE C == CrossingOrders(side, price)
           own == {k \in C : orders[k].participant = actor}
<1>1. /\ Resting' = Resting \ {i}
      /\ \A j \in Resting \ {i} : orders'[j] = orders[j]
  BY UnlinkShares
<1>2. C = {k \in Resting : orders[k].side = Opposite(side)
                           /\ Crosses("fok", side, price, orders[k].price)}
  BY CrossingIs
<1>3. CrossingOrders(side, price)' =
        {k \in Resting' : orders'[k].side = Opposite(side)
                          /\ Crosses("fok", side, price, orders'[k].price)}
  BY DEF CrossingOrders, Live, Resting
<1>4. CrossingOrders(side, price)' = C \ {i}
  <2> HIDE DEF C
  <2> QED BY <1>1, <1>2, <1>3
<1>5. (StpOn(actor)' <=> StpOn(actor)) /\ (KillsAggressor' <=> KillsAggressor)
  BY DEF StpOn, KillsAggressor
<1>6. CASE ~StpOn(actor)
  BY <1>4, <1>5, <1>6 DEF Reach
<1>7. CASE StpOn(actor)
  <2>1. ReachedOrders(actor, side, price)' =
          {k \in CrossingOrders(side, price)' \ {j \in CrossingOrders(side, price)' :
                                                   orders'[j].participant = actor} :
             KillsAggressor' => \A j \in {l \in CrossingOrders(side, price)' :
                                            orders'[l].participant = actor} :
                                  MatchedBefore(k, j)'}
    BY DEF ReachedOrders
  <2>2. {j \in CrossingOrders(side, price)' : orders'[j].participant = actor} = own \ {i}
    BY <1>1, <1>2, <1>4
  <2>3. ReachedOrders(actor, side, price)' =
          {k \in (C \ {i}) \ (own \ {i}) : KillsAggressor => \A j \in own \ {i} : MatchedBefore(k, j)'}
    BY <1>4, <1>5, <2>1, <2>2
  <2>4. \A a, b \in C \ {i} : MatchedBefore(a, b)' <=> MatchedBefore(a, b)
    BY <1>2, FrontLeaves
  <2>5. KillsAggressor => i \notin own
    BY <1>7
  <2>6. ReachedOrders(actor, side, price) =
          {k \in C \ own : KillsAggressor => \A j \in own : MatchedBefore(k, j)}
    BY DEF ReachedOrders
  <2>7. ReachedOrders(actor, side, price)' = ReachedOrders(actor, side, price) \ {i}
    <3>1. own \subseteq C
      OBVIOUS
    <3> HIDE DEF C, own
    <3>2. CASE KillsAggressor
      <4>1. own \ {i} = own
        BY <2>5, <3>2
      <4>2. ASSUME NEW k
            PROVE  k \in ReachedOrders(actor, side, price)' <=> k \in ReachedOrders(actor, side, price) \ {i}
        BY <2>3, <2>4, <2>6, <3>1, <3>2, <4>1
      <4> QED BY <4>2
    <3>3. CASE ~KillsAggressor
      BY <2>3, <2>6, <3>1, <3>3
    <3> QED BY <3>2, <3>3
  <2> QED BY <1>5, <1>7, <2>7 DEF Reach
<1> QED BY <1>6, <1>7

\* An order that shrinks in place changes who is reached no more than a step
\* that leaves the book alone.
LEMMA ShrinkReach ==
  ASSUME BookInv, FiniteBook, NEW i \in Resting, NEW n \in Nat, n < orders[i].qty, Shrink(i, n),
         stp' = stp, NEW actor, NEW side \in Sides, NEW price
  PROVE  Reach(actor, side, price)' = Reach(actor, side, price)
<1>1. /\ Resting' = Resting
      /\ \A j \in Resting : /\ orders'[j].side = orders[j].side
                            /\ orders'[j].price = orders[j].price
                            /\ orders'[j].participant = orders[j].participant
  BY ShrinkShares
<1>2. fifo' = fifo
  BY DEF Shrink
<1>3. \A a, b \in Resting : MatchedBefore(a, b)' <=> MatchedBefore(a, b)
  BY <1>1, <1>2 DEF MatchedBefore, Better
<1>4. CrossingOrders(side, price)' = CrossingOrders(side, price)
  <2>1. CrossingOrders(side, price)' =
          {k \in Resting' : orders'[k].side = Opposite(side)
                            /\ Crosses("fok", side, price, orders'[k].price)}
    BY DEF CrossingOrders, Live, Resting
  <2> QED BY <1>1, <2>1, CrossingIs
<1>5. (StpOn(actor)' <=> StpOn(actor)) /\ (KillsAggressor' <=> KillsAggressor)
  BY DEF StpOn, KillsAggressor
<1>6. ReachedOrders(actor, side, price)' = ReachedOrders(actor, side, price)
  <2> DEFINE C == CrossingOrders(side, price)
             own == {k \in C : orders[k].participant = actor}
  <2>1. C \subseteq Resting
    BY CrossingIs
  <2>2. {k \in C : orders'[k].participant = actor} = own
    BY <1>1, <2>1
  <2>3. ReachedOrders(actor, side, price)' =
          {k \in C \ own : KillsAggressor => \A j \in own : MatchedBefore(k, j)'}
    <3>1. ReachedOrders(actor, side, price)' =
            {k \in CrossingOrders(side, price)' \ {j \in CrossingOrders(side, price)' :
                                                     orders'[j].participant = actor} :
               KillsAggressor' => \A j \in {l \in CrossingOrders(side, price)' :
                                              orders'[l].participant = actor} :
                                    MatchedBefore(k, j)'}
      BY DEF ReachedOrders
    <3> QED BY <1>4, <1>5, <2>2, <3>1
  <2>4. ReachedOrders(actor, side, price) =
          {k \in C \ own : KillsAggressor => \A j \in own : MatchedBefore(k, j)}
    BY DEF ReachedOrders
  <2> HIDE DEF C
  <2> QED BY <1>3, <2>1, <2>3, <2>4
<1> QED BY <1>4, <1>5, <1>6 DEF Reach

\* A fill-or-kill under way has filled all it has not left, and what it has
\* left is there to be reached.
FokCovered ==
  call # NoCall /\ call.kind = "fok" =>
    /\ call.left + call.filled = call.qty
    /\ call.left <= Shares(orders, Reach(call.actor, call.side, call.price))

\* Accepted, there is enough.
LEMMA EnterCovers ==
  ASSUME Inv, FiniteBook, TotalsAgree,
         NEW kind \in Kinds, NEW actor \in Participants, NEW i \in Ids \cup {0}, NEW side \in Sides,
         NEW price \in Prices, NEW qty \in 0..MaxQty, Enter(kind, actor, i, side, price, qty)
  PROVE  FokCovered'
<1>1. BookInv /\ call = NoCall
  BY DEF Inv, TypeOK, BookInv, Enter, Idle
<1>2. CASE Screen(kind, actor, i, side, price, qty) # "Ok"
  BY <1>1, <1>2 DEF Enter, Reject, FokCovered
<1>3. CASE Screen(kind, actor, i, side, price, qty) = "Ok"
  <2>1. /\ call' = [kind |-> kind, actor |-> actor, id |-> i, side |-> side, price |-> price,
                    qty |-> qty, left |-> qty, filled |-> 0]
        /\ UNCHANGED <<stp, book>>
    BY <1>3 DEF Enter, StartMatching
  <2>2. CASE kind # "fok"
    BY <2>1, <2>2 DEF FokCovered
  <2>3. CASE kind = "fok"
    <3>1. ~(Available(actor, side, price) < qty)
      BY <1>3, <2>3 DEF Screen
    <3>2. PICK R : R = Reach(actor, side, price)
      OBVIOUS
    <3>3. R \subseteq Resting
      BY <1>1, <3>2, CrossingIs
    <3>4. qty <= Shares(orders, R)
      <4>1. Available(actor, side, price) = Shares(orders, R)
        BY <1>1, <3>2, AvailableIs
      <4>2. Shares(orders, R) \in Int /\ qty \in Int
        BY <1>1, <3>3, RestingSummable, QtyAssumption
      <4> QED BY <3>1, <4>1, <4>2
    <3>5. Reach(actor, side, price)' = R /\ orders' = orders
      BY <2>1, <3>2 DEF book, Reach, ReachedOrders, CrossingOrders, StpOn, KillsAggressor,
                        MatchedBefore, Live
    <3>6. /\ call'.left = qty /\ call'.filled = 0 /\ call'.qty = qty
          /\ call'.actor = actor /\ call'.side = side /\ call'.price = price
      BY <2>1
    <3>7. Reach(call.actor, call.side, call.price)' = R
      BY <3>5, <3>6 DEF Reach, ReachedOrders, CrossingOrders
    <3>8. qty + 0 = qty
      BY QtyAssumption
    <3> QED BY <3>4, <3>5, <3>6, <3>7, <3>8 DEF FokCovered
  <2> QED BY <2>2, <2>3
<1> QED BY <1>2, <1>3

\* A fill takes as much of what is left as of what can be reached.
LEMMA FillCovers ==
  ASSUME Inv, FiniteBook, FokCovered, NEW p \in ValidPrices, Fill(p)
  PROVE  FokCovered'
<1> DEFINE i == Front1(p)
           n == Min2(call.left, orders[i].qty)
<1>1. CASE call.kind # "fok"
  <2>1. call'.kind = call.kind
    BY NoCallAssumption DEF Fill, CanMatch, Inv, TypeOK, Call
  <2> QED BY <1>1, <2>1 DEF FokCovered
<1>2. CASE call.kind = "fok"
  <2>1. /\ CanMatch(p) /\ ~SelfTrade(p) /\ stp' = stp
        /\ IF n = orders[i].qty THEN Unlink(i) ELSE Shrink(i, n)
        /\ call' = [call EXCEPT !.left = @ - n, !.filled = @ + n]
    BY DEF Fill
  <2>2. call \in Call /\ BookInv /\ call # NoCall /\ call.left > 0
    BY <2>1 DEF CanMatch, Inv, TypeOK, BookInv
  <2>3. /\ i \in CrossingOrders(call.side, call.price) /\ i \in Resting /\ call.side \in Sides
        /\ Place(i) = 1
        /\ \A j \in CrossingOrders(call.side, call.price) \ {i} : MatchedBefore(i, j)
    BY <1>2, <2>1, FrontIsFirst
  <2>4. StpOn(call.actor) => orders[i].participant # call.actor
    BY <2>1 DEF SelfTrade
  <2> HIDE DEF i
  <2>5. orders[i].qty \in Qtys /\ call.left \in 0..MaxQty /\ call.filled \in 0..MaxQty
        /\ call.qty \in Qtys
    BY <2>2, <2>3 DEF Call, BookInv, BookTypeOK, Resting, Order
  <2>6. n \in Nat /\ n \in Int /\ n <= orders[i].qty /\ (n # orders[i].qty => n < orders[i].qty)
    BY <2>2, <2>5, QtyAssumption DEF Qtys, Min2
  <2> HIDE DEF n
  <2>7. PICK R, actor, side, price :
          /\ actor = call.actor /\ side = call.side /\ price = call.price
          /\ R = Reach(actor, side, price)
    OBVIOUS
  <2>8. i \in R /\ R \in SUBSET Resting
    <3>1. R \in SUBSET Resting
      BY <2>2, <2>3, <2>7, CrossingIs
    <3>2. i \in R
      BY <2>3, <2>4, <2>7 DEF Reach, ReachedOrders
    <3> QED BY <3>1, <3>2
  <2>9. PICK T : T = Reach(actor, side, price)'
    OBVIOUS
  <2>10. Shares(orders', T) = Shares(orders, R) - n
    <3>1. CASE n = orders[i].qty
      <4>1. Unlink(i)
        BY <2>1, <3>1
      <4>2. T = R \ {i}
        <5>1. StpOn(actor) /\ KillsAggressor => orders[i].participant # actor
          BY <2>4, <2>7
        <5>2. stp' = stp /\ side \in Sides /\ i \in Resting /\ Place(i) = 1
          BY <2>1, <2>3, <2>7
        <5>3. Reach(actor, side, price)' = Reach(actor, side, price) \ {i}
          BY <2>2, <4>1, <5>1, <5>2, UnlinkReach
        <5> QED BY <2>7, <2>9, <5>3
      <4> QED BY <2>2, <2>3, <2>8, <3>1, <4>1, <4>2, UnlinkShares
    <3>2. CASE n # orders[i].qty
      <4>1. Shrink(i, n) /\ n < orders[i].qty
        BY <2>1, <2>6, <3>2
      <4>2. T = R
        BY <2>1, <2>2, <2>3, <2>6, <2>7, <2>9, <4>1, ShrinkReach
      <4> QED BY <2>2, <2>3, <2>6, <2>8, <4>1, <4>2, ShrinkShares
    <3> QED BY <3>1, <3>2
  <2>11. /\ call'.left = call.left - n /\ call'.filled = call.filled + n
         /\ call'.qty = call.qty
         /\ call'.actor = actor /\ call'.side = side /\ call'.price = price
    BY <2>1, <2>2, <2>7 DEF Call
  <2>12. Reach(call.actor, call.side, call.price)' = T
    BY <2>9, <2>11 DEF Reach, ReachedOrders, CrossingOrders
  <2>13. call.left + call.filled = call.qty /\ call.left <= Shares(orders, R)
    BY <1>2, <2>2, <2>7 DEF FokCovered
  <2>14. call.left \in Int /\ call.filled \in Int /\ Shares(orders, R) \in Int
    BY <2>2, <2>5, <2>8, RestingSummable, QtyAssumption
  <2>15. /\ (call.left - n) + (call.filled + n) = call.left + call.filled
         /\ call.left - n <= Shares(orders, R) - n
    BY <2>6, <2>13, <2>14
  <2> QED BY <2>10, <2>11, <2>12, <2>13, <2>15 DEF FokCovered
<1> QED BY <1>1, <1>2

\* An own order at the front is never one that kills the fill-or-kill, for
\* then nothing could be reached; killed itself, it takes nothing along.
LEMMA PreventCovers ==
  ASSUME Inv, FiniteBook, FokCovered, NEW p \in ValidPrices, PreventSelfTrade(p)
  PROVE  FokCovered'
<1> DEFINE i == Front1(p)
<1>1. CASE call.kind # "fok"
  <2>1. call'.kind = call.kind
    BY NoCallAssumption DEF PreventSelfTrade, CanMatch, Inv, TypeOK, Call
  <2> QED BY <1>1, <2>1 DEF FokCovered
<1>2. CASE call.kind = "fok"
  <2>1. /\ CanMatch(p) /\ SelfTrade(p) /\ stp' = stp
        /\ IF KillsResting THEN Unlink(i) ELSE UNCHANGED book
        /\ call' = [call EXCEPT !.left = IF KillsAggressor THEN 0 ELSE @]
    BY DEF PreventSelfTrade
  <2>2. call \in Call /\ BookInv /\ call # NoCall /\ call.left > 0 /\ call.left \in Int
    BY <2>1, QtyAssumption DEF CanMatch, Inv, TypeOK, BookInv, Call
  <2>3. /\ i \in CrossingOrders(call.side, call.price) /\ i \in Resting /\ call.side \in Sides
        /\ Place(i) = 1
        /\ \A j \in CrossingOrders(call.side, call.price) \ {i} : ~MatchedBefore(j, i)
    BY <1>2, <2>1, FrontIsFirst
  <2>4. StpOn(call.actor) /\ orders[i].participant = call.actor
    BY <2>1 DEF SelfTrade
  <2> HIDE DEF i
  <2>5. PICK R, actor, side, price :
          /\ actor = call.actor /\ side = call.side /\ price = call.price
          /\ R = Reach(actor, side, price)
    OBVIOUS
  <2>6. R \in SUBSET Resting /\ i \notin R /\ (KillsAggressor => R = {})
    <3>1. R \in SUBSET Resting
      BY <2>2, <2>3, <2>5, CrossingIs
    <3>2. i \notin R /\ (KillsAggressor => R = {})
      BY <2>3, <2>4, <2>5 DEF Reach, ReachedOrders
    <3> QED BY <3>1, <3>2
  <2>7. call.left + call.filled = call.qty /\ call.left <= Shares(orders, R)
    BY <1>2, <2>2, <2>5 DEF FokCovered
  <2>8. ~KillsAggressor
    <3>1. Shares(orders, {}) = 0
      BY SharesFirst, FS_EmptySet
    <3> QED BY <2>2, <2>6, <2>7, <3>1
  <2>9. KillsResting /\ Unlink(i)
    BY <2>1, <2>8 DEF KillsAggressor, KillsResting
  <2>10. PICK T : T = Reach(actor, side, price)'
    OBVIOUS
  <2>11. T = R
    BY <2>1, <2>2, <2>3, <2>5, <2>6, <2>8, <2>9, <2>10, UnlinkReach
  <2>12. Shares(orders', R) = Shares(orders, R)
    <3>1. Shares(orders', R \ {i}) = Shares(orders, R) - 0 /\ Shares(orders, R) \in Int
      BY <2>2, <2>3, <2>6, <2>9, UnlinkShares, RestingSummable
    <3>2. R \ {i} = R
      BY <2>6
    <3> QED BY <3>1, <3>2
  <2>13. /\ call'.left = call.left /\ call'.filled = call.filled /\ call'.qty = call.qty
         /\ call'.actor = actor /\ call'.side = side /\ call'.price = price
    BY <2>1, <2>2, <2>5, <2>8 DEF Call
  <2>14. Reach(call.actor, call.side, call.price)' = T
    BY <2>10, <2>13 DEF Reach, ReachedOrders, CrossingOrders
  <2> QED BY <2>7, <2>11, <2>12, <2>13, <2>14 DEF FokCovered
<1> QED BY <1>1, <1>2

\* Every step of every sequence of calls.
LEMMA StepCovers ==
  ASSUME Inv, SharesInv, FokCovered, [ApiNext]_vars
  PROVE  FokCovered'
<1>1. ASSUME call' = NoCall PROVE FokCovered'
  BY <1>1 DEF FokCovered
<1>2. CASE OrderEntry
  <2>1. CASE \E kind \in Kinds, actor \in Participants, i \in Ids \cup {0},
                side \in Sides, price \in Prices, qty \in 0..MaxQty :
               Enter(kind, actor, i, side, price, qty)
    BY <2>1, EnterCovers DEF SharesInv
  <2>2. CASE \E i \in Ids : Cancel(i)
    BY <1>1, <2>2 DEF Cancel, Idle, Reject
  <2>3. ASSUME NEW old, NEW new, NEW price, NEW qty, Replace(old, new, price, qty)
        PROVE  FokCovered'
    <3>1. call' = NoCall \/ call'.kind = "limit"
      BY <2>3 DEF Replace, EnterReplacement, Idle, Reject, StartMatching
    <3> QED BY <1>1, <3>1 DEF FokCovered
  <2>4. CASE \E policy \in Policies : SetPolicy(policy)
    BY <1>1, <2>4 DEF SetPolicy, Idle
  <2> QED BY <1>2, <2>1, <2>2, <2>3, <2>4 DEF OrderEntry
<1>3. CASE Reduction
  BY <1>1, <1>3 DEF Reduction, Consume, Idle, Reject
<1>4. CASE Passive
  BY <1>1, <1>4 DEF Passive, InsertPassive, Idle, Reject
<1>5. CASE MatchStep
  <2>1. CASE \E p \in ValidPrices : Fill(p) \/ PreventSelfTrade(p)
    BY <2>1, FillCovers, PreventCovers DEF SharesInv
  <2>2. CASE Finish \/ Return
    BY <1>1, <2>2 DEF Finish, Return
  <2> QED BY <1>5, <2>1, <2>2 DEF MatchStep
<1>6. CASE UNCHANGED vars
  <2>1. UNCHANGED <<stp, book, call>>
    BY <1>6 DEF vars
  <2>2. Reach(call.actor, call.side, call.price)' = Reach(call.actor, call.side, call.price)
    BY <2>1 DEF book, Reach, ReachedOrders, CrossingOrders, StpOn, KillsAggressor,
                MatchedBefore, Live
  <2> QED BY <2>1, <2>2 DEF FokCovered, book
<1> QED BY <1>2, <1>3, <1>4, <1>5, <1>6 DEF ApiNext, Next

\* When the loop is over there is nothing left to reach, and so nothing left.
LEMMA CoveredFills == Inv /\ FokCovered => FokAllOrNothing
<1> SUFFICES ASSUME Inv, FokCovered, MatchOver, call.kind = "fok" PROVE call.filled = call.qty
  BY DEF FokAllOrNothing
<1>1. call \in Call /\ BookInv /\ call # NoCall
  BY DEF MatchOver, Inv, TypeOK, BookInv
<1>2. /\ call.left \in 0..MaxQty /\ call.filled \in 0..MaxQty /\ call.side \in Sides
      /\ call.left \in Int /\ call.filled \in Int
  BY <1>1, QtyAssumption DEF Call
<1>3. call.left + call.filled = call.qty
  BY <1>1 DEF FokCovered
<1>4. call.left = 0
  <2>1. CASE \A p \in levels[Opposite(call.side)] : ~Crosses(call.kind, call.side, call.price, p)
    <3>1. CrossingOrders(call.side, call.price) = {}
      BY <1>1, <1>2, <2>1, CrossingIs
    <3>2. Reach(call.actor, call.side, call.price) = {}
      BY <1>1, <1>2, <3>1, CrossingIs
    <3>3. Shares(orders, {}) = 0
      BY SharesFirst, FS_EmptySet
    <3>4. call.left <= 0
      BY <1>1, <3>2, <3>3 DEF FokCovered
    <3> QED BY <1>2, <3>4
  <2> QED BY <2>1 DEF MatchOver
<1> QED BY <1>2, <1>3, <1>4

\* A fill-or-kill that was accepted fills completely, whoever owns the orders
\* in front of it and whatever the self-trade policy does to them.
THEOREM FokAlwaysFills == ApiSpec => []FokAllOrNothing
<1>1. Init => FokCovered
  BY DEF Init, FokCovered
<1>2. ApiSpec => []FokCovered
  BY <1>1, StepCovers, SharesInvariance, PTL DEF ApiSpec
<1> QED BY <1>2, CoveredFills, ApiInvariance, PTL

-----------------------------------------------------------------------------
(* The live orders in one list.                                            *)

SameLevel(i, j) == orders[i].side = orders[j].side /\ orders[i].price = orders[j].price

\* s has each of its elements once.
Once(s) == \A i, j \in 1..Len(s) : s[i] = s[j] => i = j

\* r has the elements of s but x.
Lacks(r, s, x) ==
  /\ \A i \in 1..Len(r) : r[i] # x /\ \E j \in 1..Len(s) : r[i] = s[j]
  /\ \A j \in 1..Len(s) : s[j] # x => \E i \in 1..Len(r) : r[i] = s[j]

\* ids holds each live order once, those of a level in the order of its queue.
Lists(ids) ==
  /\ ids \in Seq(Ids)
  /\ Once(ids)
  /\ \A i : i \in Resting <=> \E k \in 1..Len(ids) : ids[k] = i
  /\ \A j, k \in 1..Len(ids) :
       j < k /\ SameLevel(ids[j], ids[k]) => Place(ids[j]) < Place(ids[k])

\* RemoveAtElements, in these words.
LEMMA RemovedElements ==
  ASSUME NEW S, NEW s \in Seq(S), NEW k \in 1..Len(s), Once(s)
  PROVE  Lacks(RemoveAt(s, k), s, s[k]) /\ Once(RemoveAt(s, k))
<1>1. \A i, j \in 1..Len(s) : s[i] = s[j] => i = j
  BY DEF Once
<1>2. \E u : /\ u = RemoveAt(s, k)
             /\ \A i \in 1..Len(u) : u[i] # s[k] /\ \E j \in 1..Len(s) : u[i] = s[j]
             /\ \A j \in 1..Len(s) : s[j] # s[k] => \E i \in 1..Len(u) : u[i] = s[j]
             /\ \A i, j \in 1..Len(u) : u[i] = u[j] => i = j
  BY ONLY s \in Seq(S), k \in 1..Len(s), <1>1, RemoveAtElements
<1>3. \E u : u = RemoveAt(s, k) /\ Lacks(u, s, s[k]) /\ Once(u)
  BY ONLY <1>2, Zenon DEF Once, Lacks
<1> QED BY ONLY <1>3

\* Where an element is in a sequence that has it once.
LEMMA PositionIs ==
  ASSUME NEW q, NEW k \in 1..Len(q), Once(q)
  PROVE  Position(q, q[k]) = k
  BY DEF Position, Once

\* RemoveAt moves what is behind one place ahead.
LEMMA RemovedPositions ==
  ASSUME NEW S, NEW q \in Seq(S), NEW n \in 1..Len(q), Once(q), NEW k \in 1..Len(q), k # n
  PROVE  Position(RemoveAt(q, n), q[k]) = IF k < n THEN k ELSE k - 1
<1>1. PICK r : r = RemoveAt(q, n) /\ Once(r)
  BY RemovedElements
<1>2. /\ Len(r) = Len(q) - 1 /\ Len(q) \in Nat
      /\ \A j \in 1..(Len(q) - 1) : r[j] = IF j < n THEN q[j] ELSE q[j + 1]
  BY <1>1, RemoveAtIs, LenProperties
<1>3. PICK m : m = IF k < n THEN k ELSE k - 1
  OBVIOUS
<1>4. m \in 1..Len(r) /\ r[m] = q[k]
  <2>1. CASE k < n
    BY <1>2, <1>3, <2>1
  <2>2. CASE ~(k < n)
    <3>1. m = k - 1 /\ k - 1 \in 1..(Len(q) - 1) /\ ~(k - 1 < n) /\ (k - 1) + 1 = k
      BY <1>2, <1>3, <2>2
    <3> QED BY <1>2, <3>1
  <2> QED BY <2>1, <2>2
<1>5. Position(r, r[m]) = m
  BY <1>1, <1>4, PositionIs
<1> QED BY <1>1, <1>3, <1>4, <1>5

\* The queue of a live order has no order twice.
LEMMA QueueIs ==
  ASSUME BookInv, NEW i \in Resting
  PROVE  LET q == fifo[orders[i].side][orders[i].price]
         IN  /\ q \in Seq(Ids) /\ Len(q) \in Nat /\ Place(i) \in 1..Len(q) /\ q[Place(i)] = i
             /\ Once(q)
             /\ orders[i].side \in Sides /\ orders[i].price \in ValidPrices
<1> DEFINE q == fifo[orders[i].side][orders[i].price]
<1>1. q \in Seq(Ids) /\ Place(i) \in 1..Len(q) /\ q[Place(i)] = i
  BY PlaceIs
<1>2. orders[i].side \in Sides /\ orders[i].price \in ValidPrices
  BY DEF BookInv, BookTypeOK, Resting, Order
<1>3. DOMAIN q = 1..Len(q) /\ Len(q) \in Nat
  BY <1>1, LenProperties
<1>4. \A j, k \in DOMAIN q : q[j] = q[k] => j = k
  BY <1>2 DEF BookInv, IndexesAgree
<1>5. Once(q)
  BY <1>3, <1>4 DEF Once
<1> QED BY <1>1, <1>2, <1>3, <1>5

\* Taking an order out leaves the others as they are, and in their order.
LEMMA UnlinkPlaces ==
  ASSUME BookInv, NEW i \in Resting, Unlink(i)
  PROVE  /\ Resting' = Resting \ {i}
         /\ \A a \in Resting \ {i} : orders'[a] = orders[a]
         /\ \A a, b \in Resting \ {i} :
              SameLevel(a, b) => (Place(a)' < Place(b)' <=> Place(a) < Place(b))
<1> DEFINE o == orders[i]
           q == fifo[o.side][o.price]
           n == Place(i)
           r == RemoveAt(q, n)
<1>1. /\ q \in Seq(Ids) /\ Len(q) \in Nat /\ n \in 1..Len(q) /\ q[n] = i
      /\ Once(q)
      /\ o.side \in Sides /\ o.price \in ValidPrices
  BY QueueIs
<1>2. \A s \in Sides, p \in ValidPrices :
        fifo'[s][p] = IF s = o.side /\ p = o.price THEN r ELSE fifo[s][p]
  BY <1>1 DEF Unlink, Place, BookInv, BookTypeOK
<1>3. Resting' = Resting \ {i} /\ \A a \in Resting \ {i} : orders'[a] = orders[a]
  BY DEF Unlink, Resting, BookInv, BookTypeOK
<1>4. ASSUME NEW a \in Resting \ {i}, orders[a].side = o.side, orders[a].price = o.price
      PROVE  /\ Place(a) \in 1..Len(q) /\ Place(a) # n
             /\ Place(a)' = IF Place(a) < n THEN Place(a) ELSE Place(a) - 1
  <2>1. Place(a) \in 1..Len(q) /\ q[Place(a)] = a
    BY <1>4, QueueIs
  <2>2. Place(a) # n
    BY <1>1, <2>1
  <2>3. PICK k \in 1..Len(q) : k = Place(a)
    BY <2>1
  <2>4. Position(RemoveAt(q, n), q[k]) = IF k < n THEN k ELSE k - 1
    <3> HIDE DEF q, n
    <3> QED BY <1>1, <2>2, <2>3, RemovedPositions
  <2>5. Place(a)' = Position(r, a)
    BY <1>1, <1>2, <1>3, <1>4 DEF Place
  <2> QED BY <2>1, <2>2, <2>3, <2>4, <2>5
<1>5. ASSUME NEW a \in Resting \ {i}, ~(orders[a].side = o.side /\ orders[a].price = o.price)
      PROVE  Place(a)' = Place(a)
  <2>1. orders[a].side \in Sides /\ orders[a].price \in ValidPrices
    BY QueueIs
  <2> QED BY <1>2, <1>3, <1>5, <2>1 DEF Place
<1>6. ASSUME NEW a \in Resting \ {i}, NEW b \in Resting \ {i}, SameLevel(a, b)
      PROVE  Place(a)' < Place(b)' <=> Place(a) < Place(b)
  <2>1. CASE orders[a].side = o.side /\ orders[a].price = o.price
    <3>1. PICK x, y, m : x = Place(a) /\ y = Place(b) /\ m = n
      OBVIOUS
    <3>2. orders[b].side = o.side /\ orders[b].price = o.price
      BY <1>6, <2>1 DEF SameLevel
    <3> HIDE DEF o, q, n
    <3>3. x \in 1..Len(q) /\ x # m /\ Place(a)' = IF x < m THEN x ELSE x - 1
      BY <1>4, <2>1, <3>1 DEF o
    <3>4. y \in 1..Len(q) /\ y # m /\ Place(b)' = IF y < m THEN y ELSE y - 1
      BY <1>4, <3>1, <3>2
    <3>5. m \in 1..Len(q) /\ Len(q) \in Nat
      BY <1>1, <3>1
    <3> QED BY <3>1, <3>3, <3>4, <3>5
  <2>2. CASE ~(orders[a].side = o.side /\ orders[a].price = o.price)
    BY <1>5, <1>6, <2>2 DEF SameLevel
  <2> QED BY <2>1, <2>2
<1> QED BY <1>3, <1>6

\* Reducing an order in place.
LEMMA ShrinkPlaces ==
  ASSUME BookInv, NEW i \in Resting, NEW n \in Nat, n < orders[i].qty, Shrink(i, n)
  PROVE  /\ Resting' = Resting
         /\ orders'[i] = [orders[i] EXCEPT !.qty = @ - n]
         /\ \A a \in Resting \ {i} : orders'[a] = orders[a]
         /\ \A a \in Resting : Place(a)' = Place(a) /\ orders'[a].side = orders[a].side
                                /\ orders'[a].price = orders[a].price
<1>1. orders' = [orders EXCEPT ![i].qty = @ - n] /\ fifo' = fifo
  BY DEF Shrink
<1>2. /\ orders'[i] = [orders[i] EXCEPT !.qty = @ - n]
      /\ \A a \in Ids \ {i} : orders'[a] = orders[a]
      /\ orders[i] \in Order
  BY <1>1 DEF BookInv, BookTypeOK, Resting
<1>3. orders'[i].side = orders[i].side /\ orders'[i].price = orders[i].price
  BY <1>2 DEF Order
<1>4. \A j : Live(j)' <=> Live(j)
  BY ShrinkKeeps
<1>5. Resting' = Resting
  BY <1>4 DEF Resting, Live
<1> QED BY <1>1, <1>2, <1>3, <1>5 DEF Place, Resting

\* A new order comes last in its level.
LEMMA RestPlaces ==
  ASSUME BookInv, NEW i \in Ids, ~Live(i), NEW side \in Sides, NEW price \in ValidPrices,
         NEW qty, NEW actor, Rest(i, side, price, qty, actor), Live(i)'
  PROVE  /\ Resting' = Resting \cup {i}
         /\ orders'[i] = [side |-> side, price |-> price, qty |-> qty, participant |-> actor]
         /\ \A a \in Resting : orders'[a] = orders[a] /\ Place(a)' = Place(a) /\ a # i
         /\ \A a \in Resting :
              orders[a].side = side /\ orders[a].price = price => Place(a)' < Place(i)'
<1> DEFINE q == fifo[side][price]
           r == Append(q, i)
<1>1. /\ orders' = [orders EXCEPT ![i] = [side |-> side, price |-> price, qty |-> qty,
                                          participant |-> actor]]
      /\ \A s \in Sides, p \in ValidPrices :
           fifo'[s][p] = IF s = side /\ p = price THEN r ELSE fifo[s][p]
  BY DEF Rest, BookInv, BookTypeOK
<1>2. /\ orders'[i] = [side |-> side, price |-> price, qty |-> qty, participant |-> actor]
      /\ \A a \in Ids \ {i} : orders'[a] = orders[a]
  BY <1>1 DEF BookInv, BookTypeOK
<1>3. Resting' = Resting \cup {i} /\ i \notin Resting
  BY <1>2 DEF Resting, Live
<1>4. /\ q \in Seq(Ids) /\ Len(q) \in Nat /\ r \in Seq(Ids) /\ Len(r) = Len(q) + 1
      /\ \A k \in 1..Len(q) : r[k] = q[k]
      /\ r[Len(q) + 1] = i
  <2>1. q \in Seq(Ids)
    BY DEF BookInv, BookTypeOK
  <2> HIDE DEF q
  <2> QED BY <2>1, AppendFacts
<1>5. /\ \A j, k \in 1..Len(q) : q[j] = q[k] => j = k
      /\ \A k \in 1..Len(q) : q[k] # i
  BY <1>3, <1>4, LenProperties DEF BookInv, IndexesAgree, Live, Resting
<1>6. Once(r)
  <2> HIDE DEF q, r
  <2>1. \A k \in 1..Len(r) : k \in 1..Len(q) \/ k = Len(q) + 1
    BY <1>4
  <2> QED BY <1>4, <1>5, <2>1 DEF Once
<1>7. Place(i)' = Len(q) + 1
  <2>1. Place(i)' = Position(r, i)
    BY <1>1, <1>2 DEF Place
  <2>2. Position(r, r[Len(q) + 1]) = Len(q) + 1
    <3> HIDE DEF q, r
    <3>1. Len(q) + 1 \in 1..Len(r)
      BY <1>4
    <3> QED BY <1>6, <3>1, PositionIs
  <2> QED BY <1>4, <2>1, <2>2
<1>8. ASSUME NEW a \in Resting, orders[a].side = side, orders[a].price = price
      PROVE  Place(a)' = Place(a) /\ Place(a) < Len(q) + 1
  <2>1. PICK k \in 1..Len(q) : k = Place(a) /\ q[k] = a
    BY <1>8, QueueIs
  <2>2. Place(a)' = Position(r, a)
    BY <1>1, <1>2, <1>3, <1>8 DEF Place, Resting
  <2>3. Position(r, r[k]) = k
    <3> HIDE DEF q, r
    <3>1. k \in 1..Len(r)
      BY <1>4
    <3> QED BY <1>6, <3>1, PositionIs
  <2> QED BY <1>4, <2>1, <2>2, <2>3
<1>9. ASSUME NEW a \in Resting, ~(orders[a].side = side /\ orders[a].price = price)
      PROVE  Place(a)' = Place(a)
  <2>1. orders[a].side \in Sides /\ orders[a].price \in ValidPrices
    BY QueueIs
  <2>2. orders'[a] = orders[a]
    BY <1>2, <1>3 DEF Resting
  <2> QED BY <1>1, <1>9, <2>1, <2>2 DEF Place
<1> QED BY <1>2, <1>3, <1>7, <1>8, <1>9 DEF Resting

\* Who is in the list rests.
LEMMA ListsIs ==
  ASSUME BookInv, NEW ids, Lists(ids)
  PROVE  /\ Len(ids) \in Nat /\ DOMAIN ids = 1..Len(ids) /\ ids \in Seq(Ids)
         /\ \A k \in 1..Len(ids) : /\ ids[k] \in Resting /\ ids[k] \in Ids
                                    /\ orders[ids[k]] \in Order /\ orders[ids[k]] # NoOrder
         /\ \A i \in Resting : \E k \in 1..Len(ids) : ids[k] = i
<1>1. Len(ids) \in Nat /\ DOMAIN ids = 1..Len(ids) /\ ids \in Seq(Ids)
  BY LenProperties DEF Lists
<1>2. \A k \in 1..Len(ids) : ids[k] \in Resting
  BY DEF Lists
<1> QED BY <1>1, <1>2 DEF Lists, Resting, BookInv, BookTypeOK

\* An order leaves the book, and the list.
LEMMA UnlinkLists ==
  ASSUME BookInv, NEW i \in Resting, Unlink(i), NEW ids, Lists(ids),
         NEW k \in 1..Len(ids), ids[k] = i, NEW r, r = RemoveAt(ids, k)
  PROVE  Lists(r)'
<1>1. /\ Resting' = Resting \ {i}
      /\ \A a \in Resting \ {i} : orders'[a] = orders[a]
      /\ \A a, b \in Resting \ {i} :
           SameLevel(a, b) => (Place(a)' < Place(b)' <=> Place(a) < Place(b))
  BY UnlinkPlaces
<1>2. /\ ids \in Seq(Ids) /\ Len(ids) \in Nat /\ Once(ids)
      /\ \A a : a \in Resting <=> \E n \in 1..Len(ids) : ids[n] = a
  BY LenProperties DEF Lists
<1>3. /\ r \in Seq(Ids) /\ Len(r) = Len(ids) - 1
      /\ \A j \in 1..(Len(ids) - 1) : r[j] = IF j < k THEN ids[j] ELSE ids[j + 1]
  BY <1>2, RemoveAtIs
<1>4. /\ \A m \in 1..Len(r) : r[m] # i /\ \E j \in 1..Len(ids) : r[m] = ids[j]
      /\ \A j \in 1..Len(ids) : ids[j] # i => \E m \in 1..Len(r) : r[m] = ids[j]
      /\ Once(r)
  <2>1. ids \in Seq(Ids) /\ Once(ids)
    BY <1>2
  <2>2. Lacks(RemoveAt(ids, k), ids, ids[k]) /\ Once(RemoveAt(ids, k))
    BY ONLY <2>1, k \in 1..Len(ids), RemovedElements
  <2>3. Lacks(r, ids, i) /\ Once(r)
    BY ONLY <2>2, r = RemoveAt(ids, k), ids[k] = i
  <2> QED BY ONLY <2>3 DEF Lacks
<1>5. ASSUME NEW m \in 1..Len(r), NEW n \in 1..Len(r), m < n, SameLevel(r[m], r[n])'
      PROVE  Place(r[m])' < Place(r[n])'
  <2>1. PICK x, y : /\ x = (IF m < k THEN m ELSE m + 1)
                    /\ y = (IF n < k THEN n ELSE n + 1)
    OBVIOUS
  <2>2. x \in 1..Len(ids) /\ y \in 1..Len(ids) /\ x < y /\ r[m] = ids[x] /\ r[n] = ids[y]
    <3>1. m \in 1..(Len(ids) - 1) /\ n \in 1..(Len(ids) - 1) /\ m < n /\ Len(ids) \in Nat
      BY <1>2, <1>3, <1>5
    <3>2. x \in 1..Len(ids) /\ y \in 1..Len(ids) /\ x < y
      BY <2>1, <3>1
    <3> QED BY <1>3, <2>1, <3>1, <3>2
  <2>3. PICK a, b : a = r[m] /\ b = r[n]
    OBVIOUS
  <2>4. a \in Resting \ {i} /\ b \in Resting \ {i}
    BY <1>2, <1>4, <2>2, <2>3
  <2>5. SameLevel(a, b)
    BY <1>1, <1>5, <2>3, <2>4 DEF SameLevel
  <2>6. Place(a) < Place(b)
    BY <2>2, <2>3, <2>5 DEF Lists
  <2> QED BY <1>1, <2>3, <2>4, <2>5, <2>6
<1>6. \A a : a \in Resting' <=> \E n \in 1..Len(r) : r[n] = a
  <2>1. ASSUME NEW a, a \in Resting' PROVE \E n \in 1..Len(r) : r[n] = a
    <3>1. PICK j \in 1..Len(ids) : ids[j] = a
      BY <1>1, <1>2, <2>1
    <3> QED BY <1>1, <1>4, <2>1, <3>1
  <2>2. ASSUME NEW n \in 1..Len(r) PROVE r[n] \in Resting'
    BY <1>1, <1>2, <1>4
  <2> QED BY <2>1, <2>2
<1> QED BY <1>3, <1>4, <1>5, <1>6 DEF Lists

\* An order is reduced where it stands.
LEMMA ShrinkLists ==
  ASSUME BookInv, NEW i \in Resting, NEW n \in Nat, n < orders[i].qty, Shrink(i, n),
         NEW ids, Lists(ids)
  PROVE  Lists(ids)'
<1>1. /\ Resting' = Resting
      /\ \A a \in Resting : Place(a)' = Place(a) /\ orders'[a].side = orders[a].side
                              /\ orders'[a].price = orders[a].price
  BY ShrinkPlaces
<1>2. \A k \in 1..Len(ids) : ids[k] \in Resting
  BY DEF Lists
<1>3. \A j, k \in 1..Len(ids) : /\ SameLevel(ids[j], ids[k])' <=> SameLevel(ids[j], ids[k])
                                 /\ Place(ids[j])' = Place(ids[j])
  BY <1>1, <1>2 DEF SameLevel
<1> QED BY <1>1, <1>3 DEF Lists

\* A new order comes last.
LEMMA RestLists ==
  ASSUME BookInv, NEW i \in Ids, ~Live(i), NEW side \in Sides, NEW price \in ValidPrices,
         NEW qty, NEW actor, Rest(i, side, price, qty, actor), Live(i)',
         NEW ids, Lists(ids), NEW r, r = Append(ids, i)
  PROVE  Lists(r)'
<1>1. /\ Resting' = Resting \cup {i}
      /\ orders'[i] = [side |-> side, price |-> price, qty |-> qty, participant |-> actor]
      /\ \A a \in Resting : orders'[a] = orders[a] /\ Place(a)' = Place(a) /\ a # i
      /\ \A a \in Resting :
           orders[a].side = side /\ orders[a].price = price => Place(a)' < Place(i)'
  BY RestPlaces
<1>2. /\ ids \in Seq(Ids) /\ Len(ids) \in Nat /\ Once(ids)
      /\ \A a : a \in Resting <=> \E n \in 1..Len(ids) : ids[n] = a
  BY LenProperties DEF Lists
<1>3. /\ r \in Seq(Ids) /\ Len(r) = Len(ids) + 1
      /\ \A k \in 1..Len(ids) : r[k] = ids[k]
      /\ r[Len(ids) + 1] = i
  BY <1>2, AppendFacts
<1>4. \A k \in 1..Len(r) : k \in 1..Len(ids) \/ k = Len(ids) + 1
  BY <1>2, <1>3
<1>5. \A k \in 1..Len(ids) : r[k] \in Resting /\ r[k] # i /\ k \in 1..Len(r)
  BY <1>1, <1>2, <1>3
<1>6. Once(r)
  BY <1>2, <1>3, <1>4, <1>5 DEF Once
<1>7. \A a : a \in Resting' <=> \E n \in 1..Len(r) : r[n] = a
  <2>1. Len(ids) + 1 \in 1..Len(r)
    BY <1>2, <1>3
  <2>2. ASSUME NEW a, a \in Resting' PROVE \E n \in 1..Len(r) : r[n] = a
    BY <1>1, <1>2, <1>3, <1>5, <2>1, <2>2
  <2>3. ASSUME NEW n \in 1..Len(r) PROVE r[n] \in Resting'
    BY <1>1, <1>3, <1>4, <1>5
  <2> QED BY <2>2, <2>3
<1>8. ASSUME NEW m \in 1..Len(r), NEW n \in 1..Len(r), m < n, SameLevel(r[m], r[n])'
      PROVE  Place(r[m])' < Place(r[n])'
  <2>1. m \in 1..Len(ids) /\ r[m] \in Resting
    BY <1>2, <1>4, <1>5, <1>8
  <2>2. CASE n \in 1..Len(ids)
    <3>1. PICK a, b : a = ids[m] /\ b = ids[n]
      OBVIOUS
    <3>2. a = r[m] /\ b = r[n] /\ a \in Resting /\ b \in Resting
      BY <1>3, <1>5, <2>1, <2>2, <3>1
    <3>3. SameLevel(a, b)
      BY <1>1, <1>8, <3>2 DEF SameLevel
    <3>4. Place(a) < Place(b)
      BY <1>8, <2>1, <2>2, <3>1, <3>3 DEF Lists
    <3> QED BY <1>1, <3>2, <3>4
  <2>3. CASE n = Len(ids) + 1
    <3>1. PICK a : a = r[m] /\ a \in Resting
      BY <2>1
    <3>2. r[n] = i
      BY <1>3, <2>3
    <3>3. orders[a].side = side /\ orders[a].price = price
      BY <1>1, <1>8, <3>1, <3>2 DEF SameLevel
    <3> QED BY <1>1, <3>1, <3>2, <3>3
  <2> QED BY <1>4, <2>2, <2>3
<1> QED BY <1>3, <1>6, <1>7, <1>8 DEF Lists

\* Nothing happens to the book.
LEMMA SameLists ==
  ASSUME NEW ids, Lists(ids), UNCHANGED <<orders, fifo>>
  PROVE  Lists(ids)'
  BY DEF Lists, Resting, SameLevel, Place

\* A list has as many places as there are orders.
LEMMA ListsCount ==
  ASSUME NEW ids, Lists(ids)
  PROVE  Cardinality(Resting) = Len(ids) /\ IsFiniteSet(Resting)
<1>1. Len(ids) \in Nat /\ ids \in [1..Len(ids) -> Resting]
  BY LenProperties DEF Lists
<1>2. ids \in Bijection(1..Len(ids), Resting)
  BY <1>1 DEF Lists, Once, Bijection, Injection, Surjection, IsInjective
<1>3. IsFiniteSet(1..Len(ids)) /\ Cardinality(1..Len(ids)) = Len(ids)
  BY <1>1, FS_Interval
<1>4. ExistsBijection(1..Len(ids), Resting)
  BY <1>2 DEF ExistsBijection
<1> QED BY <1>3, <1>4, FS_Bijection

-----------------------------------------------------------------------------
(* The list of the reference book.                                         *)

RefOrder == [id : Ids, side : Sides, price : ValidPrices, qty : Qtys, participant : Participants]

\* How order i stands in it.
Entry(i) == [id |-> i, side |-> orders[i].side, price |-> orders[i].price,
             qty |-> orders[i].qty, participant |-> orders[i].participant]

RefLiveRight ==
  BookInv /\ Lists(arrival) =>
    /\ RefLive \in Seq(RefOrder) /\ Len(RefLive) = Len(arrival)
    /\ DOMAIN RefLive = 1..Len(arrival) /\ Len(arrival) \in Nat
    /\ \A k \in 1..Len(arrival) : RefLive[k] = Entry(arrival[k])

\* RefLive has, in the order of arrival, the entry of each live order.
LEMMA RefLiveIs == RefLiveRight
<1> SUFFICES ASSUME BookInv, Lists(arrival)
             PROVE  /\ RefLive \in Seq(RefOrder) /\ Len(RefLive) = Len(arrival)
                    /\ DOMAIN RefLive = 1..Len(arrival) /\ Len(arrival) \in Nat
                    /\ \A k \in 1..Len(arrival) : RefLive[k] = Entry(arrival[k])
  BY DEF RefLiveRight
<1>1. /\ Len(arrival) \in Nat /\ DOMAIN arrival = 1..Len(arrival)
      /\ \A k \in 1..Len(arrival) : arrival[k] \in Ids /\ orders[arrival[k]] \in Order
  BY ListsIs
<1>2. RefLive = [k \in 1..Len(arrival) |-> Entry(arrival[k])]
  BY <1>1 DEF RefLive, Entry
<1>3. \A k \in 1..Len(arrival) : Entry(arrival[k]) \in RefOrder
  BY <1>1 DEF Entry, RefOrder, Order
<1>4. RefLive \in [1..Len(arrival) -> RefOrder]
  BY <1>2, <1>3
<1>5. RefLive \in Seq(RefOrder) /\ DOMAIN RefLive = 1..Len(arrival)
  BY <1>1, <1>4, SeqDef
<1>6. Len(RefLive) = Len(arrival)
  BY <1>1, <1>5, LenProperties
<1> QED BY <1>1, <1>2, <1>5, <1>6

\* So it has in the next state.
LEMMA RefLiveNext ==
  (BookInv /\ Lists(arrival))' =>
    /\ RefLive' \in Seq(RefOrder) /\ Len(RefLive') = Len(arrival')
    /\ \A k \in 1..Len(arrival') : RefLive'[k] = Entry(arrival[k])'
<1>1. RefLiveRight'
  BY RefLiveIs, PTL
<1> QED BY <1>1 DEF RefLiveRight

\* What Observe makes of a step of the book.
LEMMA ObserveSame ==
  ASSUME BookInv, Lists(arrival), \A i : Live(i)' <=> Live(i), Observe
  PROVE  arrival' = arrival
<1>1. \A k \in DOMAIN arrival : arrival[k] \in Ids /\ orders'[arrival[k]] # NoOrder
  BY ListsIs DEF Live, Resting
<1>2. ~ \E i \in Ids : orders[i] = NoOrder /\ orders'[i] # NoOrder
  BY DEF Live
<1>3. {k \in DOMAIN arrival : orders'[arrival[k]] = NoOrder} = {}
  BY <1>1
<1>4. {i \in Ids : orders[i] = NoOrder /\ orders'[i] # NoOrder} = {}
  BY <1>2
<1> QED BY <1>3, <1>4 DEF Observe

\* The history forgets an order that leaves the book.
LEMMA ObserveUnlink ==
  ASSUME BookInv, Lists(arrival), NEW k \in 1..Len(arrival),
         \A i : Live(i)' <=> Live(i) /\ i # arrival[k], Observe
  PROVE  arrival' = RemoveAt(arrival, k)
<1>1. /\ DOMAIN arrival = 1..Len(arrival) /\ Once(arrival)
      /\ \A j \in 1..Len(arrival) : arrival[j] \in Resting
  BY ListsIs DEF Lists
<1>2. \A j \in DOMAIN arrival : orders'[arrival[j]] = NoOrder <=> j = k
  BY <1>1 DEF Live, Resting, Once
<1>3. {j \in DOMAIN arrival : orders'[arrival[j]] = NoOrder} = {k}
  BY <1>1, <1>2
<1>4. {i \in Ids : orders[i] = NoOrder /\ orders'[i] # NoOrder} = {}
  BY DEF Live
<1>5. (CHOOSE j \in {k} : TRUE) = k
  OBVIOUS
<1> QED BY <1>3, <1>4, <1>5 DEF Observe

\* The history gets an order that comes, at its end.
LEMMA ObserveRest ==
  ASSUME BookInv, Lists(arrival), NEW i \in Ids, ~Live(i),
         \A j : Live(j)' <=> Live(j) \/ j = i, Observe
  PROVE  arrival' = Append(arrival, i)
<1>1. \A k \in DOMAIN arrival : arrival[k] \in Ids /\ orders'[arrival[k]] # NoOrder
  BY ListsIs DEF Live, Resting
<1>2. {k \in DOMAIN arrival : orders'[arrival[k]] = NoOrder} = {}
  BY <1>1
<1>3. {j \in Ids : orders[j] = NoOrder /\ orders'[j] # NoOrder} = {i}
  BY DEF Live
<1>4. (CHOOSE j \in {i} : TRUE) = i
  OBVIOUS
<1> QED BY <1>2, <1>3, <1>4 DEF Observe

\* The list of the reference book when the book stays as it is.
LEMMA KeepRef ==
  ASSUME BookInv, Lists(arrival), UNCHANGED book, Observe \/ UNCHANGED arrival
  PROVE  Lists(arrival)' /\ UNCHANGED RefLive
<1>1. \A i : Live(i)' <=> Live(i)
  BY DEF Live, book
<1>2. arrival' = arrival
  BY <1>1, ObserveSame
<1>3. Lists(arrival)'
  BY <1>2 DEF Lists, Once, Resting, SameLevel, Place, book
<1>4. RefLive' = RefLive
  BY <1>2 DEF RefLive, book
<1> QED BY <1>3, <1>4

\* An order leaves the book: so it does the reference book.
LEMMA UnlinkRef ==
  ASSUME BookInv, Lists(arrival), NEW k \in 1..Len(arrival), Unlink(arrival[k]), Observe
  PROVE  Lists(arrival)' /\ RefLive' = RemoveAt(RefLive, k)
<1>1. PICK i : i = arrival[k] /\ i \in Resting
  BY ListsIs
<1>2. BookInv' /\ \A j : Live(j)' <=> Live(j) /\ j # i
  BY <1>1, UnlinkKeeps
<1>3. arrival' = RemoveAt(arrival, k)
  BY <1>1, <1>2, ObserveUnlink
<1>4. PICK ids, r : ids = arrival /\ r = RemoveAt(ids, k)
  OBVIOUS
<1>5. Lists(r)'
  BY <1>1, <1>4, UnlinkLists
<1>6. Lists(arrival)'
  BY <1>3, <1>4, <1>5 DEF Lists, Once, Resting, SameLevel, Place
<1>7. /\ RefLive \in Seq(RefOrder) /\ Len(RefLive) = Len(arrival) /\ Len(arrival) \in Nat
      /\ \A m \in 1..Len(arrival) : RefLive[m] = Entry(arrival[m])
  BY RefLiveIs DEF RefLiveRight
<1>8. /\ RefLive' \in Seq(RefOrder) /\ Len(RefLive') = Len(arrival')
      /\ \A m \in 1..Len(arrival') : RefLive'[m] = Entry(arrival[m])'
  BY <1>2, <1>6, RefLiveNext
<1>9. /\ RemoveAt(RefLive, k) \in Seq(RefOrder)
      /\ Len(RemoveAt(RefLive, k)) = Len(arrival) - 1
      /\ \A m \in 1..(Len(arrival) - 1) :
           RemoveAt(RefLive, k)[m] = IF m < k THEN RefLive[m] ELSE RefLive[m + 1]
  BY <1>7, RemoveAtIs
<1>10. /\ arrival \in Seq(Ids) /\ Len(arrival') = Len(arrival) - 1
       /\ \A m \in 1..(Len(arrival) - 1) :
            arrival'[m] = IF m < k THEN arrival[m] ELSE arrival[m + 1]
  <2>1. arrival \in Seq(Ids)
    BY ListsIs
  <2> QED BY <1>3, <2>1, RemoveAtIs
<1>11. /\ Resting' = Resting \ {i} /\ \A a \in Resting \ {i} : orders'[a] = orders[a]
  BY <1>1, UnlinkPlaces
<1>12. \A m \in 1..Len(arrival') : arrival'[m] \in Resting \ {i}
  <2>1. \A m \in 1..Len(arrival') : arrival'[m] \in Resting'
    BY <1>6 DEF Lists
  <2> QED BY <1>11, <2>1
<1>13. ASSUME NEW m \in 1..Len(arrival') PROVE RefLive'[m] = RemoveAt(RefLive, k)[m]
  <2>1. PICK x : x = (IF m < k THEN m ELSE m + 1)
    OBVIOUS
  <2>2. m \in 1..(Len(arrival) - 1)
    BY <1>10
  <2>3. x \in 1..Len(arrival)
    BY <1>7, <2>1, <2>2
  <2>4. arrival'[m] = arrival[x] /\ RemoveAt(RefLive, k)[m] = RefLive[x]
    BY <1>9, <1>10, <2>1, <2>2
  <2>5. orders'[arrival'[m]] = orders[arrival[x]]
    BY <1>11, <1>12, <2>4
  <2>6. RefLive'[m] = Entry(arrival[x])
    BY <1>8, <2>4, <2>5 DEF Entry
  <2> QED BY <1>7, <2>3, <2>4, <2>6
<1> QED BY <1>6, <1>8, <1>9, <1>10, <1>13, SeqEqual

\* An order shrinks: it keeps its place in both books.
LEMMA ShrinkRef ==
  ASSUME BookInv, Lists(arrival), NEW k \in 1..Len(arrival), NEW n \in Nat,
         n < orders[arrival[k]].qty, Shrink(arrival[k], n), Observe
  PROVE  Lists(arrival)' /\ RefLive' = [RefLive EXCEPT ![k].qty = @ - n]
<1>1. PICK i : i = arrival[k] /\ i \in Resting
  BY ListsIs
<1>2. BookInv' /\ \A j : Live(j)' <=> Live(j)
  BY <1>1, ShrinkKeeps
<1>3. arrival' = arrival
  BY <1>1, <1>2, ObserveSame
<1>4. PICK ids : ids = arrival
  OBVIOUS
<1>5. Lists(ids)'
  BY <1>1, <1>4, ShrinkLists
<1>6. Lists(arrival)'
  BY <1>3, <1>4, <1>5 DEF Lists, Once, Resting, SameLevel, Place
<1>7. /\ RefLive \in Seq(RefOrder) /\ Len(RefLive) = Len(arrival) /\ Len(arrival) \in Nat
      /\ \A m \in 1..Len(arrival) : RefLive[m] = Entry(arrival[m])
      /\ DOMAIN RefLive = 1..Len(arrival)
  BY RefLiveIs DEF RefLiveRight
<1>8. /\ RefLive' \in Seq(RefOrder) /\ Len(RefLive') = Len(arrival')
      /\ \A m \in 1..Len(arrival') : RefLive'[m] = Entry(arrival[m])'
  BY <1>2, <1>6, RefLiveNext
<1>9. /\ orders'[i] = [orders[i] EXCEPT !.qty = @ - n] /\ orders[i] \in Order
      /\ \A a \in Resting \ {i} : orders'[a] = orders[a]
  BY <1>1, ShrinkPlaces DEF BookInv, BookTypeOK, Resting
<1>10. PICK r : r = [RefLive EXCEPT ![k].qty = @ - n]
  OBVIOUS
<1>11. ASSUME NEW m \in 1..Len(arrival) PROVE RefLive'[m] = r[m]
  <2>1. RefLive'[m] = Entry(arrival[m])'
    BY <1>3, <1>8
  <2>2. CASE m = k
    <3>1. r[m] = [Entry(i) EXCEPT !.qty = @ - n]
      BY <1>1, <1>7, <1>10, <2>2
    <3>2. RefLive'[m] = [id |-> i, side |-> orders'[i].side, price |-> orders'[i].price,
                         qty |-> orders'[i].qty, participant |-> orders'[i].participant]
      BY <1>1, <1>3, <2>1, <2>2 DEF Entry
    <3> QED BY <1>9, <3>1, <3>2 DEF Entry, Order
  <2>3. CASE m # k
    <3>1. arrival[m] \in Resting \ {i}
      BY <1>1, <2>3, ListsIs DEF Lists, Once
    <3>2. RefLive'[m] = Entry(arrival[m])
      BY <1>3, <1>9, <2>1, <3>1 DEF Entry
    <3> QED BY <1>7, <1>10, <2>3, <3>2
  <2> QED BY <2>2, <2>3
<1>12. RefLive' = r
  <2>1. /\ RefLive' = [m \in 1..Len(arrival) |-> RefLive'[m]]
        /\ r = [m \in 1..Len(arrival) |-> r[m]]
    <3>1. RefLive' \in [1..Len(arrival) -> RefOrder] /\ RefLive \in [1..Len(arrival) -> RefOrder]
      BY <1>3, <1>7, <1>8, LenProperties
    <3> QED BY <1>10, <3>1
  <2> QED BY <1>11, <2>1
<1> QED BY <1>6, <1>10, <1>12

\* An order rests: the reference book has it at the end of its list.
LEMMA RestRef ==
  ASSUME BookInv, Lists(arrival), NEW i \in Ids, ~Live(i), NEW side \in Sides,
         NEW price \in ValidPrices, NEW qty \in Qtys, NEW actor \in Participants,
         Rest(i, side, price, qty, actor), Observe
  PROVE  /\ Lists(arrival)'
         /\ RefLive' = Append(RefLive, [id |-> i, side |-> side, price |-> price,
                                        qty |-> qty, participant |-> actor])
<1>1. BookInv' /\ (\A j : Live(j)' <=> Live(j) \/ j = i) /\ Live(i)'
  BY RestKeeps
<1>2. arrival' = Append(arrival, i)
  BY <1>1, ObserveRest
<1>3. PICK ids, r : ids = arrival /\ r = Append(ids, i)
  OBVIOUS
<1>4. Lists(r)'
  BY <1>1, <1>3, RestLists
<1>5. Lists(arrival)'
  <2>1. arrival' = r
    BY <1>2, <1>3
  <2> QED BY <1>4, <2>1 DEF Lists, Once, Resting, SameLevel, Place
<1>6. /\ RefLive \in Seq(RefOrder) /\ Len(RefLive) = Len(arrival) /\ Len(arrival) \in Nat
      /\ \A m \in 1..Len(arrival) : RefLive[m] = Entry(arrival[m])
  BY RefLiveIs DEF RefLiveRight
<1>7. /\ RefLive' \in Seq(RefOrder) /\ Len(RefLive') = Len(arrival')
      /\ \A m \in 1..Len(arrival') : RefLive'[m] = Entry(arrival[m])'
  BY <1>1, <1>5, RefLiveNext
<1>8. PICK e : e = [id |-> i, side |-> side, price |-> price, qty |-> qty, participant |-> actor]
  OBVIOUS
<1>9. e \in RefOrder
  BY <1>8 DEF RefOrder
<1>10. /\ Append(RefLive, e) \in Seq(RefOrder) /\ Len(Append(RefLive, e)) = Len(arrival) + 1
       /\ \A m \in 1..Len(arrival) : Append(RefLive, e)[m] = RefLive[m]
       /\ Append(RefLive, e)[Len(arrival) + 1] = e
  BY <1>6, <1>9, AppendFacts
<1>11. /\ Len(arrival') = Len(arrival) + 1
       /\ \A m \in 1..Len(arrival) : arrival'[m] = arrival[m]
       /\ arrival'[Len(arrival) + 1] = i
  <2>1. arrival \in Seq(Ids)
    BY ListsIs
  <2> QED BY <1>2, <2>1, AppendFacts
<1>12. /\ orders'[i] = [side |-> side, price |-> price, qty |-> qty, participant |-> actor]
       /\ \A a \in Resting : orders'[a] = orders[a]
  BY <1>1, RestPlaces
<1>13. ASSUME NEW m \in 1..Len(arrival') PROVE RefLive'[m] = Append(RefLive, e)[m]
  <2>1. m \in 1..Len(arrival) \/ m = Len(arrival) + 1
    BY <1>6, <1>11
  <2>2. CASE m \in 1..Len(arrival)
    <3>1. arrival'[m] = arrival[m] /\ arrival[m] \in Resting
      BY <1>11, <2>2, ListsIs
    <3>2. RefLive'[m] = Entry(arrival[m])
      BY <1>7, <1>12, <3>1 DEF Entry
    <3> QED BY <1>6, <1>10, <2>2, <3>2
  <2>3. CASE m = Len(arrival) + 1
    <3>1. arrival'[m] = i
      BY <1>11, <2>3
    <3>2. RefLive'[m] = [id |-> i, side |-> orders'[i].side, price |-> orders'[i].price,
                         qty |-> orders'[i].qty, participant |-> orders'[i].participant]
      BY <1>7, <3>1 DEF Entry
    <3>3. RefLive'[m] = e
      BY <1>8, <1>12, <3>2
    <3> QED BY <1>10, <2>3, <3>3
  <2> QED BY <2>1, <2>2, <2>3
<1>14. RefLive' = Append(RefLive, e)
  BY <1>7, <1>10, <1>11, <1>13, SeqEqual
<1> QED BY <1>5, <1>8, <1>14

-----------------------------------------------------------------------------
(* What the reference book reads off its list.                             *)

\* What is known of a place of the list.
LEMMA PlacesAre ==
  ASSUME Inv, Lists(arrival)
  PROVE  /\ DOMAIN RefLive = 1..Len(arrival) /\ Len(arrival) \in Nat
         /\ \A k \in 1..Len(arrival) :
              /\ arrival[k] \in Resting /\ arrival[k] \in Ids /\ orders[arrival[k]] \in Order
              /\ RefLive[k].id = arrival[k]
              /\ RefLive[k].side = orders[arrival[k]].side
              /\ RefLive[k].price = orders[arrival[k]].price
              /\ RefLive[k].qty = orders[arrival[k]].qty
              /\ RefLive[k].participant = orders[arrival[k]].participant
<1>1. BookInv
  BY DEF Inv, TypeOK, BookInv
<1>2. /\ DOMAIN RefLive = 1..Len(arrival) /\ Len(arrival) \in Nat
      /\ \A k \in 1..Len(arrival) : RefLive[k] = Entry(arrival[k])
  BY <1>1, RefLiveIs DEF RefLiveRight
<1> QED BY <1>1, <1>2, ListsIs DEF Entry

\* Finding an order in the list is finding it in the id map.
LEMMA FindIs ==
  ASSUME Inv, Lists(arrival), NEW i
  PROVE  /\ Reference!Find(i) # {} <=> Live(i)
         /\ \A k \in 1..Len(arrival) : k \in Reference!Find(i) <=> arrival[k] = i
         /\ Reference!Find(i) \subseteq 1..Len(arrival)
<1>1. Reference!Find(i) = {k \in 1..Len(arrival) : arrival[k] = i}
  BY PlacesAre DEF Reference!Find
<1>2. Live(i) <=> i \in Resting
  BY DEF Live, Resting
<1> QED BY <1>1, <1>2 DEF Lists

\* The two books refuse the same calls, for the same reason.
LEMMA ValidateIs ==
  ASSUME Inv, Lists(arrival), NEW kind, NEW i, NEW price, NEW qty
  PROVE  /\ Reference!Validate(kind, i, price, qty) = Validate(kind, i, price, qty)
         /\ \A old : Reference!ValidateReplace(old, i, price, qty)
                       = ValidateReplace(old, i, price, qty)
<1>1. \A a, b, c, d : Reference!Validate(a, b, c, d) = Validate(a, b, c, d)
  BY FindIs DEF Reference!Validate, Validate
<1> QED BY <1>1, FindIs DEF Reference!ValidateReplace, ValidateReplace

\* So is the set of orders an aggressor can trade with, ...
LEMMA CrossingMapped ==
  ASSUME Inv, Lists(arrival), NEW kind, NEW side \in Sides, NEW limit
  PROVE  Reference!Crossing(kind, side, limit) =
           {k \in 1..Len(arrival) : /\ orders[arrival[k]].side = Opposite(side)
                                    /\ Crosses(kind, side, limit, orders[arrival[k]].price)}
<1>1. \A k \in 1..Len(arrival) : orders[arrival[k]].side \in Sides
  BY PlacesAre DEF Order
<1>2. \A k \in 1..Len(arrival) : orders[arrival[k]].side # side <=> orders[arrival[k]].side = Opposite(side)
  BY <1>1 DEF Sides, Opposite
<1>3. \A k \in 1..Len(arrival) :
        k \in Reference!Crossing(kind, side, limit) <=>
          /\ orders[arrival[k]].side = Opposite(side)
          /\ Crosses(kind, side, limit, orders[arrival[k]].price)
  BY <1>2, PlacesAre DEF Reference!Crossing, Crosses
<1>4. Reference!Crossing(kind, side, limit) \subseteq 1..Len(arrival)
  BY PlacesAre DEF Reference!Crossing
<1> QED BY <1>3, <1>4

\* ... and their priority: arrival is all that the queues keep.
LEMMA BeforeIs ==
  ASSUME Inv, Lists(arrival), NEW side \in Sides,
         NEW j \in 1..Len(arrival), NEW k \in 1..Len(arrival), j # k,
         orders[arrival[j]].side = Opposite(side), orders[arrival[k]].side = Opposite(side)
  PROVE  Reference!Before(side, j, k) <=> MatchedBefore(arrival[j], arrival[k])
<1>1. BookInv
  BY DEF Inv, TypeOK, BookInv
<1> DEFINE a == arrival[j]
           b == arrival[k]
           p == orders[a].price
           q == orders[b].price
<1>2. a \in Resting /\ b \in Resting /\ p \in Int /\ q \in Int
  BY PlacesAre, PricesAssumption DEF Order
<1>3. RefLive[j].price = p /\ RefLive[k].price = q
  BY PlacesAre
<1>4. Better(Opposite(side), p, q) <=>
        IF side = "Bid" THEN p < q ELSE p > q
  BY <1>2 DEF Better, Opposite, Sides
<1>5. ASSUME p = q
      PROVE  /\ SameLevel(a, b) /\ SameLevel(b, a)
             /\ Place(a) = Position(fifo[orders[a].side][p], a)
             /\ Place(b) = Position(fifo[orders[a].side][p], b)
             /\ Place(a) \in Nat /\ Place(b) \in Nat
  <2>1. Place(a) \in Nat /\ Place(b) \in Nat
    BY <1>1, <1>2, QueueIs
  <2> QED BY <1>5, <2>1 DEF SameLevel, Place
<1>6. p = q => (j < k <=> Place(a) < Place(b))
  <2>1. j \in Int /\ k \in Int
    BY PlacesAre
  <2>2. j < k /\ p = q => Place(a) < Place(b)
    BY <1>5 DEF Lists
  <2>3. k < j /\ p = q => Place(b) < Place(a)
    BY <1>5 DEF Lists
  <2> QED BY <1>5, <2>1, <2>2, <2>3
<1>7. Reference!Before(side, j, k) <=>
        \/ IF side = "Bid" THEN p < q ELSE p > q
        \/ p = q /\ j < k
  BY <1>3 DEF Reference!Before
<1>8. MatchedBefore(a, b) <=>
        \/ Better(Opposite(side), p, q)
        \/ p = q /\ Position(fifo[orders[a].side][p], a) < Position(fifo[orders[a].side][p], b)
  BY DEF MatchedBefore
<1> QED BY <1>4, <1>5, <1>6, <1>7, <1>8

\* Shares are the same by another name: ids names the orders of S.
LEMMA SharesNamed ==
  ASSUME NEW nodes, NEW others, NEW ids, NEW S, Summable(others, S),
         \A k \in S : nodes[ids[k]].qty = others[k].qty,
         \A j, k \in S : ids[j] = ids[k] => j = k
  PROVE  Shares(others, S) = Shares(nodes, {ids[k] : k \in S})
<1> DEFINE Named(s) == {ids[k] : k \in s}
           B == {s \in SUBSET S : Shares(others, s) # Shares(nodes, Named(s))}
<1>1. SUFFICES ASSUME B # {} PROVE FALSE
  BY <1>1
<1>2. PICK s \in B : \A t \in B : t \subseteq s => t = s
  <2>1. IsFiniteSet(S) /\ B \in SUBSET (SUBSET S)
    BY DEF Summable
  <2> HIDE DEF B
  <2> QED BY <1>1, <2>1, LeastSet
<1>3. s \subseteq S /\ IsFiniteSet(s)
  BY <1>2, FS_Subset DEF Summable
<1>4. IsFiniteSet(Named(s)) /\ \A i \in Named(s) : nodes[i].qty \in Int
  <2>1. [k \in s |-> ids[k]] \in Surjection(s, Named(s))
    BY DEF Surjection
  <2>2. IsFiniteSet(Named(s))
    <3> HIDE DEF Named
    <3> QED BY ONLY <1>3, <2>1, FS_Surjection
  <2> QED BY <1>3, <2>2 DEF Summable
<1>5. Summable(nodes, Named(s)) /\ Summable(others, s)
  BY <1>3, <1>4 DEF Summable
<1>6. s # {}
  <2>1. ASSUME s = {} PROVE FALSE
    <3>1. Named(s) = {}
      BY <2>1
    <3>2. Shares(others, s) = 0 /\ Shares(nodes, Named(s)) = 0
      BY <1>5, <2>1, <3>1, SharesTake
    <3> QED BY <1>2, <3>2
  <2> QED BY <2>1
<1>7. PICK k \in s : TRUE
  BY <1>6
<1>8. PICK t : t = s \ {k}
  OBVIOUS
<1>9. t \in SUBSET S /\ t \notin B
  BY <1>2, <1>3, <1>8
<1>10. Shares(others, t) = Shares(nodes, Named(t))
  BY <1>9
<1>11. Named(t) = Named(s) \ {ids[k]} /\ ids[k] \in Named(s)
  BY <1>3, <1>8
<1>12. Shares(others, s) = others[k].qty + Shares(others, t)
  BY <1>5, <1>8, SharesTake
<1>13. Shares(nodes, Named(s)) = nodes[ids[k]].qty + Shares(nodes, Named(t))
  <2>1. PICK X, i : X = Named(s) /\ i = ids[k]
    OBVIOUS
  <2>2. Shares(nodes, X) = nodes[i].qty + Shares(nodes, X \ {i})
    <3>1. Summable(nodes, X) /\ i \in X
      BY <1>5, <1>11, <2>1
    <3> QED BY ONLY <3>1, SharesTake
  <2> QED BY <1>11, <2>1, <2>2
<1> QED BY <1>2, <1>3, <1>10, <1>12, <1>13

\* The reference book's own sum is the same operation.
RefShares(nodes, S) == Reference!MapThenSumSet(LAMBDA k : nodes[k].qty, S)

\* Both sum shares in the same way.
LEMMA RefSharesAre ==
  ASSUME NEW nodes, NEW S, IsFiniteSet(S)
  PROVE  RefShares(nodes, S) = Shares(nodes, S)
<1>1. PICK g : Adding(nodes, S, g)
  BY AddingExists
<1>2. \E f : Adding(nodes, S, f) /\ RefShares(nodes, S) = f[S]
  BY <1>1 DEF RefShares, Reference!MapThenSumSet, Reference!MapThenFoldSet, Adding, First
<1> QED BY <1>2, SharesIs

\* The pre-scan of a fill-or-kill order counts the same shares.
LEMMA ReachableIs ==
  ASSUME Inv, FiniteBook, Lists(arrival), NEW actor, NEW side \in Sides, NEW price
  PROVE  Reference!Reachable(actor, side, price) = Shares(orders, Reach(actor, side, price))
<1>1. BookInv
  BY DEF Inv, TypeOK, BookInv
<1> DEFINE C == Reference!Crossing("fok", side, price)
           own == {k \in C : Reference!StpOn(actor) /\ RefLive[k].participant = actor}
           R == {k \in C \ own : Reference!StopsAtOwn =>
                                   \A j \in own : Reference!Before(side, k, j)}
           Crossed == CrossingOrders(side, price)
           owned == {i \in Crossed : orders[i].participant = actor}
<1>2. Reference!Reachable(actor, side, price) = RefShares(RefLive, R)
  BY DEF Reference!Reachable, RefShares
<1>3. C = {k \in 1..Len(arrival) : /\ orders[arrival[k]].side = Opposite(side)
                                   /\ Crosses("fok", side, price, orders[arrival[k]].price)}
  BY CrossingMapped
<1>4. Crossed = {i \in Resting : /\ orders[i].side = Opposite(side)
                                 /\ Crosses("fok", side, price, orders[i].price)}
  BY <1>1, CrossingIs
<1>5. /\ \A k \in C : k \in 1..Len(arrival) /\ arrival[k] \in Crossed
      /\ \A i \in Crossed : \E k \in C : arrival[k] = i
  BY <1>3, <1>4, PlacesAre, ListsIs, <1>1
<1>6. \A k \in C : RefLive[k].participant = orders[arrival[k]].participant
  BY <1>5, PlacesAre
<1>7. \A j, k \in C : j # k => (Reference!Before(side, k, j) <=> MatchedBefore(arrival[k], arrival[j]))
  BY <1>3, BeforeIs
<1>8. Reference!StpOn(actor) <=> StpOn(actor)
  BY DEF Reference!StpOn, StpOn
<1>9. {arrival[k] : k \in R} = Reach(actor, side, price)
  <2>1. CASE ~StpOn(actor)
    <3>1. own = {} /\ R = C
      BY <1>8, <2>1
    <3>2. {arrival[k] : k \in C} = Crossed
      BY <1>5
    <3> QED BY <2>1, <3>1, <3>2 DEF Reach
  <2>2. CASE StpOn(actor)
    <3>1. Reference!StopsAtOwn <=> KillsAggressor
      BY <2>2 DEF StpOn, Reference!StopsAtOwn, KillsAggressor, Inv, TypeOK, PolicyNames
    <3>2. \A k \in C : k \in own <=> arrival[k] \in owned
      BY <1>5, <1>6, <1>8, <2>2
    <3>3. Reach(actor, side, price) =
            {i \in Crossed \ owned : KillsAggressor => \A j \in owned : MatchedBefore(i, j)}
      BY <2>2 DEF Reach, ReachedOrders
    <3>4. ASSUME NEW k \in C \ own
          PROVE  (\A j \in own : Reference!Before(side, k, j))
                   <=> \A j \in owned : MatchedBefore(arrival[k], j)
      <4>1. \A j \in own : j \in C /\ j # k /\ arrival[j] \in owned
        BY <3>2, <3>4
      <4>2. \A i \in owned : \E j \in own : arrival[j] = i
        BY <1>5, <3>2
      <4>3. \A j \in own : Reference!Before(side, k, j) <=> MatchedBefore(arrival[k], arrival[j])
        BY <1>7, <3>4, <4>1
      <4> HIDE DEF own, owned
      <4> QED BY <4>1, <4>2, <4>3
    <3>5. \A k \in C : k \in R <=> arrival[k] \in Reach(actor, side, price)
      <4>1. ASSUME NEW k \in C, k \in own PROVE k \notin R /\ arrival[k] \notin Reach(actor, side, price)
        BY <3>2, <3>3, <4>1
      <4>2. ASSUME NEW k \in C, k \notin own PROVE k \in R <=> arrival[k] \in Reach(actor, side, price)
        <5>1. arrival[k] \in Crossed \ owned
          BY <1>5, <3>2, <4>2
        <5>2. k \in R <=> (Reference!StopsAtOwn => \A j \in own : Reference!Before(side, k, j))
          BY <4>2
        <5>3. arrival[k] \in Reach(actor, side, price)
                <=> (KillsAggressor => \A j \in owned : MatchedBefore(arrival[k], j))
          BY <3>3, <5>1
        <5> QED BY <3>1, <3>4, <4>2, <5>2, <5>3
      <4> QED BY <4>1, <4>2
    <3>6. R \subseteq C /\ Reach(actor, side, price) \subseteq Crossed
      BY <3>3
    <3> HIDE DEF R, C, Crossed
    <3> QED BY <1>5, <3>5, <3>6
  <2> QED BY <2>1, <2>2
<1>10. Summable(RefLive, R) /\ \A k \in R : orders[arrival[k]].qty = RefLive[k].qty
  <2>1. R \subseteq 1..Len(arrival)
    BY <1>5
  <2>2. IsFiniteSet(R)
    <3>1. IsFiniteSet(1..Len(arrival))
      <4>1. PICK n : n = Len(arrival) /\ n \in Int
        BY PlacesAre
      <4> QED BY <4>1, FS_Interval
    <3> HIDE DEF R
    <3> QED BY <2>1, <3>1, FS_Subset
  <2>3. \A k \in 1..Len(arrival) : RefLive[k].qty \in Int /\ orders[arrival[k]].qty = RefLive[k].qty
    BY PlacesAre DEF Order, Qtys
  <2> QED BY <2>1, <2>2, <2>3 DEF Summable
<1>11. \A j, k \in R : arrival[j] = arrival[k] => j = k
  BY <1>5 DEF Lists, Once
<1>12. Shares(RefLive, R) = Shares(orders, {arrival[k] : k \in R})
  <2> HIDE DEF R
  <2> QED BY <1>10, <1>11, SharesNamed
<1>13. RefShares(RefLive, R) = Shares(RefLive, R)
  <2> HIDE DEF R
  <2> QED BY <1>10, RefSharesAre DEF Summable
<1> QED BY <1>2, <1>9, <1>12, <1>13

-----------------------------------------------------------------------------
(* The reference book, step for step.                                      *)

\* The counters the reference book has too.
LEMMA TallyCounts ==
  ASSUME counters \in Counters, NEW f \in {"added", "traded", "canceled"}, NEW n \in Int,
         counters' = Count(f, n)
  PROVE  RefTally' = Reference!Add(RefTally, f, n)
<1>1. counters = [added |-> counters.added, traded |-> counters.traded,
                  canceled |-> counters.canceled, executed |-> counters.executed,
                  prevented |-> counters.prevented]
  BY DEF Counters
<1>2. CASE f = "added"
  BY <1>1, <1>2 DEF RefTally, Count, Reference!Add
<1>3. CASE f = "traded"
  BY <1>1, <1>3 DEF RefTally, Count, Reference!Add
<1>4. CASE f = "canceled"
  BY <1>1, <1>4 DEF RefTally, Count, Reference!Add
<1> QED BY <1>2, <1>3, <1>4

\* A prevented self-trade counts the same in both.
LEMMA TallyPrevented ==
  ASSUME counters \in Counters, NEW n \in Int,
         counters' = [Count("canceled", n) EXCEPT !.prevented = (@ + 1) % CounterModulus]
  PROVE  RefTally' = Reference!Add(Reference!Add(RefTally, "prevented", 1), "canceled", n)
<1>1. PICK a, t, c, e, p : counters = [added |-> a, traded |-> t, canceled |-> c,
                                       executed |-> e, prevented |-> p]
  BY DEF Counters
<1>2. counters' = [added |-> a, traded |-> t, canceled |-> (c + n) % CounterModulus,
                   executed |-> e, prevented |-> (p + 1) % CounterModulus]
  BY <1>1 DEF Count
<1>3. RefTally = [added |-> a, traded |-> t, canceled |-> c, prevented |-> p]
  BY <1>1 DEF RefTally
<1>4. RefTally' = [added |-> a, traded |-> t, canceled |-> (c + n) % CounterModulus,
                   prevented |-> (p + 1) % CounterModulus]
  BY <1>2 DEF RefTally
<1>5. Reference!Add(RefTally, "prevented", 1) = [added |-> a, traded |-> t, canceled |-> c,
                                              prevented |-> (p + 1) % CounterModulus]
  BY <1>3 DEF Reference!Add
<1>6. \A r : r = [added |-> a, traded |-> t, canceled |-> c, prevented |-> (p + 1) % CounterModulus]
             => Reference!Add(r, "canceled", n) = RefTally'
  BY <1>4 DEF Reference!Add
<1> QED BY <1>5, <1>6

\* So does a replace.
LEMMA TallyReplaced ==
  ASSUME counters \in Counters, NEW m \in Int, NEW n \in Int,
         counters' = [Count("canceled", m) EXCEPT !.added = (@ + n) % CounterModulus]
  PROVE  RefTally' = Reference!Add(Reference!Add(RefTally, "canceled", m), "added", n)
<1>1. PICK a, t, c, e, p : counters = [added |-> a, traded |-> t, canceled |-> c,
                                       executed |-> e, prevented |-> p]
  BY DEF Counters
<1>2. counters' = [added |-> (a + n) % CounterModulus, traded |-> t, canceled |-> (c + m) % CounterModulus,
                   executed |-> e, prevented |-> p]
  BY <1>1 DEF Count
<1>3. RefTally = [added |-> a, traded |-> t, canceled |-> c, prevented |-> p]
  BY <1>1 DEF RefTally
<1>4. RefTally' = [added |-> (a + n) % CounterModulus, traded |-> t, canceled |-> (c + m) % CounterModulus,
                   prevented |-> p]
  BY <1>2 DEF RefTally
<1>5. Reference!Add(RefTally, "canceled", m) = [added |-> a, traded |-> t, canceled |-> (c + m) % CounterModulus,
                                             prevented |-> p]
  BY <1>3 DEF Reference!Add
<1>6. \A r : r = [added |-> a, traded |-> t, canceled |-> (c + m) % CounterModulus, prevented |-> p]
             => Reference!Add(r, "added", n) = RefTally'
  BY <1>4 DEF Reference!Add
<1> QED BY <1>5, <1>6

\* And a step that counts nothing.
LEMMA TallySame ==
  ASSUME UNCHANGED counters
  PROVE  UNCHANGED RefTally
  BY DEF RefTally

\* Nothing counted is nothing changed.
LEMMA CountNothing ==
  ASSUME counters \in Counters, counters' = Count("canceled", 0)
  PROVE  UNCHANGED RefTally
<1>1. counters.canceled \in Int /\ counters.canceled >= 0 /\ counters.canceled < CounterModulus
  BY ModulusAssumption DEF Counters, Counter
<1>2. (counters.canceled + 0) % CounterModulus = counters.canceled
  BY <1>1, ModulusAssumption
<1>3. counters = [added |-> counters.added, traded |-> counters.traded,
                  canceled |-> counters.canceled, executed |-> counters.executed,
                  prevented |-> counters.prevented]
  BY DEF Counters
<1> QED BY <1>2, <1>3 DEF RefTally, Count

\* A rejection.
LEMMA RejectRefines ==
  ASSUME Inv, Lists(arrival), NEW r, Reject(r), Observe
  PROVE  Lists(arrival)' /\ Reference!Reject(r)
<1>1. BookInv
  BY DEF Inv, TypeOK, BookInv
<1>2. Lists(arrival)' /\ UNCHANGED RefLive
  BY <1>1, KeepRef DEF Reject
<1>3. UNCHANGED RefTally
  BY TallySame DEF Reject
<1> QED BY <1>2, <1>3 DEF Reject, Reference!Reject

\* What a request is answered with by validation.
LEMMA ValidateNot ==
  ASSUME NEW kind, NEW i, NEW price, NEW qty
  PROVE  Validate(kind, i, price, qty) # "none"
  BY DEF Validate

\* One lemma for each action: it is a step of the reference book. An order enters.
LEMMA EnterRefines ==
  ASSUME Inv, SharesInv, Lists(arrival), NEW kind \in Kinds, NEW actor \in Participants,
         NEW i \in Ids \cup {0}, NEW side \in Sides, NEW price \in Prices, NEW qty \in 0..MaxQty,
         Enter(kind, actor, i, side, price, qty), Observe
  PROVE  Lists(arrival)' /\ (Reference!Enter \/ Reference!Refuse)
<1>1. BookInv /\ counters \in Counters
  BY DEF Inv, TypeOK, BookInv
<1> DEFINE r == Screen(kind, actor, i, side, price, qty)
           valid == Validate(kind, i, price, qty)
<1>2. Reference!Idle /\ Idle
  BY DEF Enter, Idle, Reference!Idle
<1>3. Reference!Validate(kind, i, price, qty) = valid
  BY ValidateIs
<1>4. Available(actor, side, price) = Reference!Reachable(actor, side, price)
  BY <1>1, AvailableIs, ReachableIs DEF SharesInv
<1>5. CASE r # "Ok" /\ Reject(r)
  <2>1. Lists(arrival)' /\ Reference!Reject(r) /\ result' = r
    BY <1>5, RejectRefines DEF Reject
  <2>2. \/ r = valid
        \/ /\ valid = "Ok" /\ kind = "fok" /\ r = "RejectedNoLiquidity"
           /\ Reference!Reachable(actor, side, price) < qty
    BY <1>4 DEF Screen
  <2>3. r \notin {"none", "Ok"}
    BY <1>5, <2>2, ValidateNot
  <2> HIDE DEF r, valid
  <2>4. Reference!Sides = Sides
    BY DEF Reference!Sides, Sides
  <2>5. \/ Reference!Validate(kind, i, price, qty) = result'
        \/ /\ Reference!Validate(kind, i, price, qty) = "Ok" /\ kind = "fok"
           /\ result' = "RejectedNoLiquidity"
           /\ \E a \in Participants, s \in Reference!Sides : Reference!Reachable(a, s, price) < qty
    BY <1>3, <2>1, <2>2, <2>4
  <2>6. Reference!Refuse
    BY <1>2, <2>1, <2>3, <2>5 DEF Reference!Refuse
  <2> QED BY <2>1, <2>6
<1>6. CASE /\ r = "Ok"
           /\ StartMatching(kind, actor, i, side, price, qty)
           /\ counters' = Count("added", qty)
           /\ UNCHANGED <<stp, book, exec, result>>
  <2>1. Lists(arrival)' /\ UNCHANGED RefLive
    BY <1>1, <1>6, KeepRef
  <2>2. valid = "Ok" /\ (kind = "fok" => ~(Reference!Reachable(actor, side, price) < qty))
    BY <1>4, <1>6 DEF Screen
  <2>3. i \in Ids /\ qty \in 1..MaxQty /\ qty \in Int
    BY <2>2, ValidateOk, QtyAssumption DEF Qtys
  <2>4. call' = [kind |-> kind, actor |-> actor, id |-> i, side |-> side, price |-> price,
                 qty |-> qty, left |-> qty, filled |-> 0]
    BY <1>6 DEF StartMatching
  <2>5. /\ call'.kind = kind /\ call'.actor = actor /\ call'.id = i /\ call'.side = side
        /\ call'.price = price /\ call'.qty = qty /\ call'.left = qty
    BY <2>4
  <2>6. Reference!Start
    BY <2>3, <2>4 DEF Reference!Start, Reference!Started, Reference!Sides, Sides
  <2>7. RefTally' = Reference!Add(RefTally, "added", call'.qty)
    BY <1>1, <1>6, <2>3, <2>5, TallyCounts
  <2>8. kind = "fok" => Reference!Reachable(actor, side, price) >= qty
    <3>1. Reference!Reachable(actor, side, price) \in Int
      <4>1. Reference!Reachable(actor, side, price) = Shares(orders, Reach(actor, side, price))
        BY ReachableIs DEF SharesInv
      <4>2. Reach(actor, side, price) \subseteq Resting
        BY <1>1, CrossingIs
      <4> QED BY <1>1, <4>1, <4>2, RestingSummable DEF SharesInv
    <3> QED BY <2>2, <2>3, <3>1
  <2>9. Reference!Enter
    BY <1>2, <1>3, <1>6, <2>1, <2>2, <2>5, <2>6, <2>7, <2>8 DEF Reference!Enter
  <2> QED BY <2>1, <2>9
<1> QED BY <1>5, <1>6 DEF Enter

\* A cancel.
LEMMA CancelRefines ==
  ASSUME Inv, Lists(arrival), NEW i \in Ids, Cancel(i), Observe
  PROVE  Lists(arrival)' /\ Reference!Cancel(i)
<1>1. BookInv /\ counters \in Counters
  BY DEF Inv, TypeOK, BookInv
<1>2. Reference!Idle
  BY DEF Cancel, Idle, Reference!Idle
<1>3. CASE ~Live(i) /\ Reject("RejectedUnknownId")
  BY <1>2, <1>3, RejectRefines, FindIs DEF Reference!Cancel
<1>4. CASE /\ Live(i)
           /\ counters' = Count("canceled", orders[i].qty)
           /\ Unlink(i)
           /\ result' = "Ok"
           /\ UNCHANGED <<stp, call, exec>>
  <2>1. PICK k \in 1..Len(arrival) : arrival[k] = i
    BY <1>1, <1>4, ListsIs DEF Live, Resting
  <2>2. Lists(arrival)' /\ RefLive' = RemoveAt(RefLive, k)
    BY <1>1, <1>4, <2>1, UnlinkRef
  <2>3. RefLive[k].qty = orders[i].qty /\ orders[i].qty \in Int
    BY <2>1, PlacesAre DEF Order, Qtys
  <2>4. RefTally' = Reference!Add(RefTally, "canceled", RefLive[k].qty)
    BY <1>1, <1>4, <2>3, TallyCounts
  <2>5. k \in Reference!Find(i)
    BY <2>1, FindIs
  <2>6. RefLive' = Reference!RemoveAt(RefLive, k)
    BY <2>2 DEF RemoveAt, Reference!RemoveAt
  <2> QED BY <1>2, <1>4, <2>2, <2>4, <2>5, <2>6 DEF Reference!Cancel
<1> QED BY <1>3, <1>4 DEF Cancel

\* A replace.
LEMMA ReplaceRefines ==
  ASSUME Inv, Lists(arrival), NEW old \in Ids, NEW new \in Ids \cup {0}, NEW price \in Prices,
         NEW qty \in 0..MaxQty, Replace(old, new, price, qty), Observe
  PROVE  Lists(arrival)' /\ (Reference!Replace(old) \/ Reference!RefuseReplace(old))
<1>1. BookInv /\ counters \in Counters
  BY DEF Inv, TypeOK, BookInv
<1> DEFINE r == ValidateReplace(old, new, price, qty)
<1>2. Reference!Idle
  BY DEF Replace, Idle, Reference!Idle
<1>3. Reference!ValidateReplace(old, new, price, qty) = r
  BY ValidateIs
<1>4. CASE r # "Ok" /\ Reject(r)
  <2>1. r # "none"
    BY ValidateNot DEF ValidateReplace
  <2> HIDE DEF r
  <2>2. Lists(arrival)' /\ Reference!Reject(r) /\ result' = r
    BY <1>4, RejectRefines DEF Reject
  <2> QED BY <1>2, <1>3, <1>4, <2>1, <2>2 DEF Reference!RefuseReplace
<1>5. CASE /\ r = "Ok"
           /\ LET o == orders[old]
              IN /\ StartMatching("limit", o.participant, new, o.side, price, qty)
                 /\ counters' = [Count("canceled", o.qty)
                                   EXCEPT !.added = (@ + qty) % CounterModulus]
           /\ Unlink(old)
           /\ UNCHANGED <<stp, exec, result>>
  <2>1. Live(old) /\ Validate("limit", new, price, qty) \in {"Ok", "RejectedDuplicateId"}
    BY <1>5 DEF ValidateReplace
  <2>2. new \in Ids /\ qty \in 1..MaxQty /\ qty \in Int
    BY <2>1, QtyAssumption DEF Validate
  <2>3. PICK k \in 1..Len(arrival) : arrival[k] = old
    BY <1>1, <2>1, ListsIs DEF Live, Resting
  <2>4. Lists(arrival)' /\ RefLive' = RemoveAt(RefLive, k)
    BY <1>1, <1>5, <2>3, UnlinkRef
  <2>5. /\ orders[old] \in Order
        /\ RefLive[k].qty = orders[old].qty /\ orders[old].qty \in Int
        /\ RefLive[k].participant = orders[old].participant
        /\ RefLive[k].side = orders[old].side
    BY <2>3, PlacesAre DEF Order, Qtys
  <2>6. call' = [kind |-> "limit", actor |-> orders[old].participant, id |-> new,
                 side |-> orders[old].side, price |-> price, qty |-> qty, left |-> qty,
                 filled |-> 0]
    BY <1>5 DEF StartMatching
  <2>7. /\ call'.kind = "limit" /\ call'.actor = orders[old].participant /\ call'.id = new
        /\ call'.side = orders[old].side /\ call'.price = price /\ call'.qty = qty
        /\ call'.left = qty
    BY <2>6
  <2>8. Reference!Start
    <3>1. orders[old].participant \in Participants /\ orders[old].side \in Sides
      BY <2>5 DEF Order
    <3> QED BY <2>2, <2>6, <3>1 DEF Reference!Start, Reference!Started, Reference!Sides, Sides
  <2>9. RefTally' = Reference!Add(Reference!Add(RefTally, "canceled", RefLive[k].qty), "added", call'.qty)
    BY <1>1, <1>5, <2>2, <2>5, <2>7, TallyReplaced
  <2>10. k \in Reference!Find(old)
    BY <2>3, FindIs
  <2>11. Reference!ValidateReplace(old, call'.id, call'.price, call'.qty) = "Ok"
    BY <1>3, <1>5, <2>7
  <2>12. RefLive' = Reference!RemoveAt(RefLive, k)
    BY <2>4 DEF RemoveAt, Reference!RemoveAt
  <2> QED BY <1>2, <1>5, <2>4, <2>5, <2>7, <2>8, <2>9, <2>10, <2>11, <2>12 DEF Reference!Replace
<1> QED BY <1>1, <1>4, <1>5, ReplaceIs DEF ReplacedAtOnce, BookInv

\* The order the matching loop comes to is the one the reference book picks.
LEMMA FrontIsBest ==
  ASSUME Inv, Lists(arrival), NEW p \in ValidPrices, CanMatch(p)
  PROVE  \E k \in 1..Len(arrival) :
           /\ arrival[k] = Front1(p) /\ arrival[k] \in Resting
           /\ orders[arrival[k]] \in Order /\ orders[arrival[k]].price = p
           /\ RefLive[k] = Entry(arrival[k])
           /\ k \in Reference!Crossing(call.kind, call.side, call.price)
           /\ \A j \in Reference!Crossing(call.kind, call.side, call.price) \ {k} :
                Reference!Before(call.side, k, j)
<1>1. BookInv
  BY DEF Inv, TypeOK, BookInv
<1>2. /\ Front1(p) \in Resting /\ call.side \in Sides
      /\ orders[Front1(p)].side = Opposite(call.side) /\ orders[Front1(p)].price = p
      /\ \A j \in Resting \ {Front1(p)} : orders[j].side = Opposite(call.side) =>
           MatchedBefore(Front1(p), j)
  BY FrontComesFirst
<1>3. PICK k \in 1..Len(arrival) : arrival[k] = Front1(p)
  BY <1>1, <1>2, ListsIs
<1>4. RefLive[k] = Entry(arrival[k]) /\ orders[arrival[k]] \in Order
  BY <1>1, RefLiveIs, PlacesAre DEF RefLiveRight
<1>5. Reference!Crossing(call.kind, call.side, call.price) =
        {j \in 1..Len(arrival) :
           /\ orders[arrival[j]].side = Opposite(call.side)
           /\ Crosses(call.kind, call.side, call.price, orders[arrival[j]].price)}
  BY <1>2, CrossingMapped
<1>6. k \in Reference!Crossing(call.kind, call.side, call.price)
  BY <1>2, <1>3, <1>5 DEF CanMatch
<1>7. ASSUME NEW j \in Reference!Crossing(call.kind, call.side, call.price) \ {k}
      PROVE  Reference!Before(call.side, k, j)
  <2>1. j \in 1..Len(arrival) /\ j # k /\ orders[arrival[j]].side = Opposite(call.side)
    BY <1>5
  <2>2. arrival[j] \in Resting \ {Front1(p)}
    BY <1>3, <2>1, PlacesAre DEF Lists, Once
  <2>3. MatchedBefore(arrival[k], arrival[j])
    BY <1>2, <1>3, <2>1, <2>2
  <2>4. orders[arrival[k]].side = Opposite(call.side)
    BY <1>2, <1>3
  <2> QED BY <1>2, <2>1, <2>3, <2>4, BeforeIs
<1> QED BY <1>2, <1>3, <1>4, <1>6, <1>7

\* A trade: the best level's first order is the reference book's choice among all orders.
LEMMA FillRefines ==
  ASSUME Inv, Lists(arrival), NEW p \in ValidPrices, Fill(p), Observe
  PROVE  Lists(arrival)' /\ \E k \in DOMAIN RefLive : Reference!Trade(k)
<1>1. BookInv /\ counters \in Counters /\ call \in Call /\ call # NoCall /\ CanMatch(p)
  BY DEF Inv, TypeOK, BookInv, Fill, CanMatch
<1>2. PICK k \in 1..Len(arrival) :
        /\ arrival[k] = Front1(p) /\ arrival[k] \in Resting
        /\ orders[arrival[k]] \in Order /\ orders[arrival[k]].price = p
        /\ RefLive[k] = Entry(arrival[k])
        /\ k \in Reference!Crossing(call.kind, call.side, call.price)
        /\ \A j \in Reference!Crossing(call.kind, call.side, call.price) \ {k} :
             Reference!Before(call.side, k, j)
  BY <1>1, FrontIsBest
<1>3. PICK i, fill : i = Front1(p) /\ fill = Min2(call.left, orders[i].qty)
  OBVIOUS
<1>4. /\ IF fill = orders[i].qty THEN Unlink(i) ELSE Shrink(i, fill)
      /\ call' = [call EXCEPT !.left = @ - fill, !.filled = @ + fill]
      /\ counters' = Count("traded", fill)
      /\ exec' = [resting |-> i, aggressor |-> call.id, price |-> p, qty |-> fill]
      /\ UNCHANGED <<stp, result>>
  BY <1>3 DEF Fill
<1>5. /\ call.left \in Int /\ call.left > 0 /\ orders[i].qty \in Int /\ orders[i].qty > 0
  BY <1>1, <1>2, <1>3, QtyAssumption DEF Call, Order, Qtys, CanMatch
<1>6. /\ fill = (IF call.left < orders[i].qty THEN call.left ELSE orders[i].qty)
      /\ fill \in Nat /\ fill <= orders[i].qty
  BY <1>3, <1>5 DEF Min2
<1>7. /\ RefLive[k].id = i /\ RefLive[k].price = p /\ RefLive[k].qty = orders[i].qty
      /\ RefLive[k].participant = orders[i].participant
  BY <1>2, <1>3 DEF Entry
<1>8. ~(Reference!StpOn(call.actor) /\ RefLive[k].participant = call.actor)
  BY <1>3, <1>7 DEF Fill, SelfTrade, StpOn, Reference!StpOn
<1>9. RefTally' = Reference!Add(RefTally, "traded", fill)
  BY <1>1, <1>4, <1>6, TallyCounts
<1>10. /\ Lists(arrival)'
       /\ RefLive' = IF fill = orders[i].qty THEN Reference!RemoveAt(RefLive, k)
                     ELSE [RefLive EXCEPT ![k].qty = @ - fill]
  <2>1. CASE fill = orders[i].qty
    <3>1. Lists(arrival)' /\ RefLive' = RemoveAt(RefLive, k)
      BY <1>1, <1>2, <1>3, <1>4, <2>1, UnlinkRef
    <3> QED BY <2>1, <3>1 DEF RemoveAt, Reference!RemoveAt
  <2>2. CASE fill # orders[i].qty
    <3>1. fill < orders[arrival[k]].qty /\ Shrink(arrival[k], fill)
      BY <1>2, <1>3, <1>4, <1>5, <1>6, <2>2
    <3> QED BY <1>1, <1>6, <2>2, <3>1, ShrinkRef
  <2> QED BY <2>1, <2>2
<1>11. k \in DOMAIN RefLive
  BY <1>2, PlacesAre
<1>12. Reference!Trade(k)
  BY <1>1, <1>2, <1>4, <1>5, <1>6, <1>7, <1>8, <1>9, <1>10 DEF Reference!Trade
<1> QED BY <1>10, <1>11, <1>12

\* A prevented self-trade meets the order that the reference book meets.
LEMMA PreventRefines ==
  ASSUME Inv, Lists(arrival), NEW p \in ValidPrices, PreventSelfTrade(p), Observe
  PROVE  Lists(arrival)' /\ \E k \in DOMAIN RefLive : Reference!Trade(k)
<1>1. /\ BookInv /\ counters \in Counters /\ call \in Call /\ call # NoCall /\ CanMatch(p)
      /\ stp \in PolicyNames /\ stp # "None"
  BY DEF Inv, TypeOK, BookInv, PreventSelfTrade, CanMatch, SelfTrade, StpOn
<1>2. PICK k \in 1..Len(arrival) :
        /\ arrival[k] = Front1(p) /\ arrival[k] \in Resting
        /\ orders[arrival[k]] \in Order /\ orders[arrival[k]].price = p
        /\ RefLive[k] = Entry(arrival[k])
        /\ k \in Reference!Crossing(call.kind, call.side, call.price)
        /\ \A j \in Reference!Crossing(call.kind, call.side, call.price) \ {k} :
             Reference!Before(call.side, k, j)
  BY <1>1, FrontIsBest
<1>3. PICK i, killed :
        /\ i = Front1(p)
        /\ killed = (IF stp = "CancelAggressor" THEN 0 ELSE orders[i].qty)
                    + (IF stp = "CancelResting" THEN 0 ELSE call.left)
  OBVIOUS
<1>4. killed = (IF KillsResting THEN orders[i].qty ELSE 0)
               + (IF KillsAggressor THEN call.left ELSE 0)
  BY <1>3 DEF KillsResting, KillsAggressor
<1>5. /\ IF stp = "CancelAggressor" THEN UNCHANGED book ELSE Unlink(i)
      /\ call' = [call EXCEPT !.left = IF stp = "CancelResting" THEN @ ELSE 0]
      /\ counters' = [Count("canceled", killed) EXCEPT !.prevented = (@ + 1) % CounterModulus]
      /\ exec' = NoExec
      /\ UNCHANGED <<stp, result>>
  BY <1>3, <1>4 DEF PreventSelfTrade, KillsResting, KillsAggressor
<1>6. /\ call.left \in Int /\ call.left > 0 /\ orders[i].qty \in Int
  BY <1>1, <1>2, <1>3, QtyAssumption DEF Call, Order, Qtys, CanMatch
<1>7. /\ RefLive[k].qty = orders[i].qty
      /\ RefLive[k].participant = orders[i].participant
  BY <1>2, <1>3 DEF Entry
<1>8. Reference!StpOn(call.actor) /\ RefLive[k].participant = call.actor
  BY <1>3, <1>7 DEF PreventSelfTrade, SelfTrade, StpOn, Reference!StpOn
<1>9. killed \in Int
  BY <1>3, <1>6
<1>10. RefTally' = Reference!Add(Reference!Add(RefTally, "prevented", 1), "canceled", killed)
  BY <1>1, <1>5, <1>9, TallyPrevented
<1>11. /\ Lists(arrival)'
       /\ RefLive' = IF stp = "CancelAggressor" THEN RefLive ELSE Reference!RemoveAt(RefLive, k)
  <2>1. CASE stp = "CancelAggressor"
    BY <1>1, <1>5, <2>1, KeepRef
  <2>2. CASE stp # "CancelAggressor"
    <3>1. Lists(arrival)' /\ RefLive' = RemoveAt(RefLive, k)
      BY <1>1, <1>2, <1>3, <1>5, <2>2, UnlinkRef
    <3> QED BY <2>2, <3>1 DEF RemoveAt, Reference!RemoveAt
  <2> QED BY <2>1, <2>2
<1>12. call' = IF stp = "CancelResting" THEN call ELSE [call EXCEPT !.left = 0]
  BY <1>1, <1>5 DEF Call
<1>13. k \in DOMAIN RefLive
  BY <1>2, PlacesAre
<1>14. Reference!Trade(k)
  BY <1>1, <1>2, <1>3, <1>5, <1>6, <1>7, <1>8, <1>10, <1>11, <1>12 DEF Reference!Trade
<1> QED BY <1>11, <1>13, <1>14

\* The book stops matching exactly when nothing in the reference book crosses.
LEMMA FinishRefines ==
  ASSUME Inv, Lists(arrival), Finish, Observe
  PROVE  Lists(arrival)' /\ Reference!Finish
<1>1. BookInv /\ counters \in Counters /\ call \in Call /\ call # NoCall /\ ~Live(call.id)
  BY DEF Inv, TypeOK, BookInv, CallInv, Finish, MatchOver
<1>2. /\ call.left \in 0..MaxQty /\ call.left \in Int /\ call.left >= 0 /\ call.side \in Sides
      /\ call.id \in Ids /\ call.actor \in Participants
  BY <1>1, QtyAssumption DEF Call
<1>3. call.left = 0 \/ Reference!Crossing(call.kind, call.side, call.price) = {}
  <2>1. ASSUME \A q \in levels[Opposite(call.side)] : ~Crosses(call.kind, call.side, call.price, q)
        PROVE  Reference!Crossing(call.kind, call.side, call.price) = {}
    <3>1. SUFFICES ASSUME NEW k \in Reference!Crossing(call.kind, call.side, call.price)
                   PROVE  FALSE
      OBVIOUS
    <3>2. /\ k \in 1..Len(arrival) /\ orders[arrival[k]].side = Opposite(call.side)
          /\ Crosses(call.kind, call.side, call.price, orders[arrival[k]].price)
      BY <1>2, CrossingMapped
    <3>3. arrival[k] \in Resting /\ orders[arrival[k]] \in Order
      BY <3>2, PlacesAre
    <3>4. orders[arrival[k]].price \in levels[orders[arrival[k]].side]
      <4>1. PICK s, q : s = orders[arrival[k]].side /\ q = orders[arrival[k]].price
        OBVIOUS
      <4>2. s \in Sides /\ q \in ValidPrices
        BY <3>3, <4>1 DEF Order
      <4>3. fifo[s][q] # <<>>
        <5>1. \E n \in DOMAIN fifo[s][q] : fifo[s][q][n] = arrival[k]
          BY <1>1, <3>3, <4>1 DEF BookInv, IndexesAgree
        <5>2. DOMAIN <<>> = {}
          OBVIOUS
        <5> QED BY <5>1, <5>2
      <4> QED BY <1>1, <4>1, <4>2, <4>3 DEF BookInv, LevelsLive
    <3> QED BY <2>1, <3>2, <3>4
  <2> QED BY <2>1 DEF Finish, MatchOver
<1>4. call' = NoCall /\ exec' = NoExec /\ result' = "Ok" /\ UNCHANGED stp
  BY DEF Finish
<1>5. CASE call.kind = "limit" /\ call.left > 0
  <2>1. /\ Rest(call.id, call.side, call.price, call.left, call.actor) /\ UNCHANGED counters
        /\ call.price \in ValidPrices /\ call.left \in Qtys
    BY <1>1, <1>2, <1>5, QtyAssumption DEF Finish, Inv, CallInv, Qtys
  <2>2. /\ Lists(arrival)'
        /\ RefLive' = Append(RefLive, [id |-> call.id, side |-> call.side, price |-> call.price,
                                       qty |-> call.left, participant |-> call.actor])
    <3>1. PICK i, side, price, qty, actor :
            /\ i = call.id /\ side = call.side /\ price = call.price /\ qty = call.left
            /\ actor = call.actor
      OBVIOUS
    <3>2. /\ i \in Ids /\ ~Live(i) /\ side \in Sides /\ price \in ValidPrices /\ qty \in Qtys
          /\ actor \in Participants /\ Rest(i, side, price, qty, actor)
      BY <1>1, <1>2, <2>1, <3>1
    <3>3. /\ Lists(arrival)'
          /\ RefLive' = Append(RefLive, [id |-> i, side |-> side, price |-> price,
                                         qty |-> qty, participant |-> actor])
      BY <1>1, <3>2, RestRef
    <3> QED BY <3>1, <3>3
  <2>3. UNCHANGED RefTally
    BY <2>1, TallySame
  <2> QED BY <1>1, <1>2, <1>3, <1>4, <1>5, <2>2, <2>3 DEF Reference!Finish
<1>6. CASE ~(call.kind = "limit" /\ call.left > 0)
  <2>1. counters' = Count("canceled", call.left) /\ UNCHANGED book
    BY <1>6 DEF Finish
  <2>2. Lists(arrival)' /\ UNCHANGED RefLive
    BY <1>1, <2>1, KeepRef
  <2>3. CASE call.kind = "limit"
    <3>1. call.left = 0
      BY <1>2, <1>6, <2>3
    <3>2. UNCHANGED RefTally
      BY <1>1, <2>1, <3>1, CountNothing
    <3> QED BY <1>1, <1>3, <1>4, <2>2, <2>3, <3>1, <3>2 DEF Reference!Finish
  <2>4. CASE call.kind # "limit"
    <3>1. RefTally' = Reference!Add(RefTally, "canceled", call.left)
      BY <1>1, <1>2, <2>1, TallyCounts
    <3> QED BY <1>1, <1>3, <1>4, <2>2, <2>4, <3>1 DEF Reference!Finish
  <2> QED BY <2>3, <2>4
<1> QED BY <1>5, <1>6

\* The call returns.
LEMMA ReturnRefines ==
  ASSUME Inv, Lists(arrival), Return, Observe
  PROVE  Lists(arrival)' /\ Reference!Return
<1>1. BookInv
  BY DEF Inv, TypeOK, BookInv
<1>2. Lists(arrival)' /\ UNCHANGED RefLive /\ UNCHANGED RefTally
  BY <1>1, KeepRef, TallySame DEF Return
<1> QED BY <1>2 DEF Return, Reference!Return

\* The policy changes.
LEMMA SetPolicyRefines ==
  ASSUME Inv, Lists(arrival), NEW policy \in Policies, SetPolicy(policy), Observe
  PROVE  Lists(arrival)' /\ Reference!SetPolicy(policy)
<1>1. BookInv
  BY DEF Inv, TypeOK, BookInv
<1>2. Lists(arrival)' /\ UNCHANGED RefLive /\ UNCHANGED RefTally
  BY <1>1, KeepRef, TallySame DEF SetPolicy
<1> QED BY <1>2 DEF SetPolicy, Idle, Reference!SetPolicy, Reference!Idle

\* Every step of the book, with what the history makes of it, is a step of the
\* reference book, and leaves the history in step.
LEMMA StepRefines ==
  ASSUME Inv, SharesInv, Lists(arrival), [ArrivalNext]_<<vars, arrival>>
  PROVE  Lists(arrival)' /\ [Reference!Next]_(Reference!vars)
<1>1. CASE OrderEntry /\ Observe
  <2>1. ASSUME NEW kind \in Kinds, NEW actor \in Participants, NEW i \in Ids \cup {0},
               NEW side \in Sides, NEW price \in Prices, NEW qty \in 0..MaxQty,
               Enter(kind, actor, i, side, price, qty)
        PROVE  Lists(arrival)' /\ Reference!Next
    BY <1>1, <2>1, EnterRefines DEF Reference!Next
  <2>2. ASSUME NEW i \in Ids, Cancel(i)
        PROVE  Lists(arrival)' /\ Reference!Next
    BY <1>1, <2>2, CancelRefines DEF Reference!Next
  <2>3. ASSUME NEW old \in Ids, NEW new \in Ids \cup {0}, NEW price \in Prices,
               NEW qty \in 0..MaxQty, Replace(old, new, price, qty)
        PROVE  Lists(arrival)' /\ Reference!Next
    BY <1>1, <2>3, ReplaceRefines DEF Reference!Next
  <2>4. ASSUME NEW policy \in Policies, SetPolicy(policy)
        PROVE  Lists(arrival)' /\ Reference!Next
    BY <1>1, <2>4, SetPolicyRefines DEF Reference!Next
  <2> QED BY <1>1, <2>1, <2>2, <2>3, <2>4 DEF OrderEntry
<1>2. CASE MatchStep /\ Observe
  <2>1. ASSUME NEW p \in ValidPrices, Fill(p) \/ PreventSelfTrade(p)
        PROVE  Lists(arrival)' /\ Reference!Next
    BY <1>2, <2>1, FillRefines, PreventRefines DEF Reference!Next
  <2>2. Finish => Lists(arrival)' /\ Reference!Next
    BY <1>2, FinishRefines DEF Reference!Next
  <2>3. Return => Lists(arrival)' /\ Reference!Next
    BY <1>2, ReturnRefines DEF Reference!Next
  <2> QED BY <1>2, <2>1, <2>2, <2>3 DEF MatchStep
<1>3. CASE UNCHANGED <<vars, arrival>>
  <2>1. BookInv /\ UNCHANGED book /\ UNCHANGED counters /\ UNCHANGED <<stp, call, exec, result>>
    BY <1>3 DEF Inv, TypeOK, BookInv, vars
  <2>2. Lists(arrival)' /\ UNCHANGED RefLive /\ UNCHANGED RefTally
    BY <1>3, <2>1, KeepRef, TallySame
  <2> QED BY <2>1, <2>2 DEF Reference!vars
<1> QED BY <1>1, <1>2, <1>3 DEF ArrivalNext

\* Both books begin empty.
LEMMA InitRefines == ArrivalInit => Lists(arrival) /\ Reference!Init
<1> SUFFICES ASSUME ArrivalInit PROVE Lists(arrival) /\ Reference!Init
  OBVIOUS
<1>1. arrival = <<>> /\ Init
  BY DEF ArrivalInit
<1>2. Resting = {}
  BY <1>1 DEF Init, Resting
<1>3. Len(arrival) = 0 /\ arrival \in Seq(Ids)
  BY <1>1
<1>4. Lists(arrival)
  BY <1>2, <1>3 DEF Lists, Once
<1>5. BookInv
  BY <1>1, InitInv DEF Inv, TypeOK, BookInv
<1>6. RefLive \in Seq(RefOrder) /\ Len(RefLive) = 0
  BY <1>3, <1>4, <1>5, RefLiveIs DEF RefLiveRight
<1>7. RefLive = <<>>
  BY <1>6, EmptySeq
<1>8. RefTally = [added |-> 0, traded |-> 0, canceled |-> 0, prevented |-> 0]
  BY <1>1 DEF Init, RefTally
<1> QED BY <1>1, <1>4, <1>7, <1>8 DEF Init, Reference!Init

\* Price-time priority, the result of every call and the counters: the ladder,
\* the level lists, the running totals and the id map together are the
\* reference book, for every set of ids, prices, participants and policies.
THEOREM BookImplementsReference == ArrivalSpec => ImplementsReference
<1>1. ArrivalInit => Init
  BY DEF ArrivalInit
<1>2. [ArrivalNext]_<<vars, arrival>> => [ApiNext]_vars
  BY DEF ArrivalNext, ApiNext, Next
<1>3. ArrivalSpec => ApiSpec
  BY <1>1, <1>2, PTL DEF ArrivalSpec, ApiSpec
<1>4. ArrivalSpec => [](Inv /\ SharesInv)
  BY <1>3, SharesInvariance, PTL
<1>5. ArrivalInit => Lists(arrival) /\ Reference!Init
  BY InitRefines
<1>6. Inv /\ SharesInv /\ Lists(arrival) /\ [ArrivalNext]_<<vars, arrival>>
        => Lists(arrival)' /\ [Reference!Next]_(Reference!vars)
  BY StepRefines
<1> QED BY <1>4, <1>5, <1>6, PTL DEF ArrivalSpec, ImplementsReference, Reference!Spec

-----------------------------------------------------------------------------
(* The orders of a replica.                                                *)

FeedOrder == [id : Ids, side : Sides, price : Int, qty : Qtys]

IdsOnce(c) == \A j, k \in 1..Len(c) : c[j].id = c[k].id => j = k

Uncrossed(c) ==
  \A j, k \in 1..Len(c) : c[j].side = "Bid" /\ c[k].side = "Ask" => c[j].price < c[k].price

\* A list of orders as a reader of the feed may find it.
Fine(c) == c \in Seq(FeedOrder) /\ IdsOnce(c) /\ (PricesFit => Uncrossed(c))

\* What is left of a list when n shares of the order at place k are gone.
Cut(c, k, n) == [c EXCEPT ![k].qty = @ - n]
Less(c, k, n) == IF n = c[k].qty THEN RemoveAt(c, k) ELSE Cut(c, k, n)

\* The message names orders the list has, and takes no more than they have.
Reduces(b, m, c) ==
  /\ m.type \in {"E", "X"}
  /\ \E k \in 1..Len(b) : /\ b[k].id = m.ref /\ m.qty \in 1..b[k].qty
                          /\ c = Less(b, k, m.qty)

Deletes(b, m, c) ==
  /\ m.type = "D"
  /\ \E k \in 1..Len(b) : b[k].id = m.ref /\ c = RemoveAt(b, k)

Adds(b, m, c) ==
  /\ m.type = "A" /\ m.symbol = Symbol /\ m.ref \in Ids /\ m.qty > 0
  /\ \A k \in 1..Len(b) : b[k].id # m.ref
  /\ c = Append(b, Replica!Resting(m.ref, m.side, m.price, m.qty))

Replaces(b, m, c) ==
  /\ m.type = "U" /\ m.newRef \in Ids /\ m.qty > 0
  /\ \E k \in 1..Len(b) :
       LET r == RemoveAt(b, k)
       IN  /\ b[k].id = m.ref
           /\ \A j \in 1..Len(r) : r[j].id # m.newRef
           /\ c = Append(r, Replica!Resting(m.newRef, b[k].side, m.price, m.qty))

\* The message makes list c of list b, and nothing is wrong with it.
Becomes(b, m, c) == Reduces(b, m, c) \/ Deletes(b, m, c) \/ Adds(b, m, c) \/ Replaces(b, m, c)

\* What a fine replica is made of.
LEMMA FineIs ==
  ASSUME NEW c, Fine(c)
  PROVE  /\ c \in Seq(FeedOrder) /\ Len(c) \in Nat /\ DOMAIN c = 1..Len(c) /\ IdsOnce(c)
         /\ \A k \in 1..Len(c) : /\ c[k] \in FeedOrder /\ c[k].id \in Ids /\ c[k].qty \in Nat
                                  /\ c[k].qty > 0 /\ c[k].price \in Int
<1>1. c \in Seq(FeedOrder) /\ Len(c) \in Nat /\ DOMAIN c = 1..Len(c) /\ IdsOnce(c)
  BY LenProperties DEF Fine
<1>2. \A k \in 1..Len(c) : c[k] \in FeedOrder
  BY <1>1, ElementOfSeq
<1>3. \A o \in FeedOrder : o.id \in Ids /\ o.qty \in Nat /\ o.qty > 0 /\ o.price \in Int
  BY QtyAssumption DEF FeedOrder, Qtys
<1> QED BY <1>1, <1>2, <1>3

\* When place k is taken out: which place comes to be place j, and where j goes.
From(k, j) == IF j < k THEN j ELSE j + 1
To(k, j) == IF j < k THEN j ELSE j - 1

\* r is c without its place k.
IsWithout(r, c, k) ==
  /\ Len(r) = Len(c) - 1
  /\ \A j \in 1..(Len(c) - 1) : /\ From(k, j) \in 1..Len(c) /\ From(k, j) # k
                                 /\ r[j] = c[From(k, j)] /\ r[j].id # c[k].id
  /\ \A j \in 1..Len(c) : j # k => To(k, j) \in 1..(Len(c) - 1) /\ r[To(k, j)] = c[j]

\* An order leaves the list.
LEMMA OutIs ==
  ASSUME NEW c, Fine(c), NEW k \in 1..Len(c)
  PROVE  Fine(RemoveAt(c, k)) /\ IsWithout(RemoveAt(c, k), c, k)
<1>1. /\ c \in Seq(FeedOrder) /\ Len(c) \in Nat /\ IdsOnce(c)
  BY FineIs
<1>2. PICK r : r = RemoveAt(c, k)
  OBVIOUS
<1>3. /\ r \in Seq(FeedOrder) /\ Len(r) = Len(c) - 1
      /\ \A j \in 1..(Len(c) - 1) : r[j] = IF j < k THEN c[j] ELSE c[j + 1]
  BY <1>1, <1>2, RemoveAtIs
<1>4. \A j \in 1..(Len(c) - 1) : From(k, j) \in 1..Len(c) /\ From(k, j) # k /\ r[j] = c[From(k, j)]
  BY <1>1, <1>3 DEF From
<1>5. \A j \in 1..(Len(c) - 1) : r[j].id # c[k].id
  BY <1>1, <1>4 DEF IdsOnce
<1>6. ASSUME NEW j \in 1..Len(c), j # k
      PROVE  To(k, j) \in 1..(Len(c) - 1) /\ r[To(k, j)] = c[j]
  <2>1. PICK m : m = To(k, j)
    OBVIOUS
  <2>2. m \in 1..(Len(c) - 1) /\ From(k, m) = j
    BY <1>1, <1>6, <2>1 DEF From, To
  <2> QED BY <1>4, <2>1, <2>2
<1>7. IdsOnce(r)
  <2>1. SUFFICES ASSUME NEW i \in 1..Len(r), NEW j \in 1..Len(r), r[i].id = r[j].id PROVE i = j
    BY DEF IdsOnce
  <2>2. i \in 1..(Len(c) - 1) /\ j \in 1..(Len(c) - 1)
    BY <1>3
  <2>3. From(k, i) = From(k, j)
    BY <1>1, <1>4, <2>1, <2>2 DEF IdsOnce
  <2> QED BY <1>1, <2>2, <2>3 DEF From
<1>8. PricesFit => Uncrossed(r)
  <2>1. SUFFICES ASSUME PricesFit, NEW i \in 1..Len(r), NEW j \in 1..Len(r),
                        r[i].side = "Bid", r[j].side = "Ask"
                 PROVE  r[i].price < r[j].price
    BY DEF Uncrossed
  <2>2. i \in 1..(Len(c) - 1) /\ j \in 1..(Len(c) - 1)
    BY <1>3
  <2>3. PICK m \in 1..Len(c) : r[i] = c[m]
    BY <1>4, <2>2
  <2>4. PICK n \in 1..Len(c) : r[j] = c[n]
    BY <1>4, <2>2
  <2>5. Uncrossed(c)
    BY <2>1 DEF Fine
  <2> QED BY <2>1, <2>3, <2>4, <2>5 DEF Uncrossed
<1>9. IsWithout(r, c, k)
  BY <1>3, <1>4, <1>5, <1>6 DEF IsWithout
<1>10. Fine(r)
  BY <1>3, <1>7, <1>8 DEF Fine
<1> QED BY <1>2, <1>9, <1>10

\* r is c without n shares of the order at place k.
IsCut(r, c, k, n) ==
  /\ Len(r) = Len(c)
  /\ r[k] = [id |-> c[k].id, side |-> c[k].side, price |-> c[k].price, qty |-> c[k].qty - n]
  /\ \A j \in 1..Len(c) : j # k => r[j] = c[j]

\* An order keeps some of its shares.
LEMMA CutIs ==
  ASSUME NEW c, Fine(c), NEW k \in 1..Len(c), NEW n \in Nat, n > 0, n < c[k].qty
  PROVE  Fine(Cut(c, k, n)) /\ IsCut(Cut(c, k, n), c, k, n)
<1>0. PICK r : r = Cut(c, k, n)
  OBVIOUS
<1>1. /\ c \in Seq(FeedOrder) /\ Len(c) \in Nat /\ DOMAIN c = 1..Len(c) /\ IdsOnce(c)
      /\ \A j \in 1..Len(c) : c[j] \in FeedOrder
  BY FineIs
<1>2. c[k] \in FeedOrder /\ c[k].qty \in 1..MaxQty
  BY <1>1 DEF FeedOrder, Qtys
<1>3. r[k] = [id |-> c[k].id, side |-> c[k].side, price |-> c[k].price, qty |-> c[k].qty - n]
  <2>1. r[k] = [c[k] EXCEPT !.qty = @ - n]
    BY <1>0, <1>1 DEF Cut
  <2> QED BY <1>2, <2>1 DEF FeedOrder
<1>4. \A j \in 1..Len(c) : j # k => r[j] = c[j]
  BY <1>0, <1>1 DEF Cut
<1>5. c[k].qty - n \in Qtys
  BY <1>2, QtyAssumption DEF Qtys
<1>6. r[k] \in FeedOrder
  BY <1>2, <1>3, <1>5 DEF FeedOrder
<1>7. r \in [1..Len(c) -> FeedOrder]
  <2>1. c \in [1..Len(c) -> FeedOrder]
    BY <1>1
  <2>2. r = [j \in 1..Len(c) |-> r[j]]
    BY <1>0, <2>1 DEF Cut
  <2>3. \A j \in 1..Len(c) : r[j] \in FeedOrder
    BY <1>1, <1>4, <1>6
  <2> QED BY <2>2, <2>3
<1>8. r \in Seq(FeedOrder) /\ Len(r) = Len(c)
  BY <1>1, <1>7, SeqDef, LenProperties
<1>9. \A j \in 1..Len(c) : r[j].id = c[j].id /\ r[j].side = c[j].side /\ r[j].price = c[j].price
  BY <1>3, <1>4
<1>10. IdsOnce(r) /\ (PricesFit => Uncrossed(r))
  BY <1>1, <1>8, <1>9 DEF IdsOnce, Uncrossed, Fine
<1>11. Fine(r) /\ IsCut(r, c, k, n)
  BY <1>3, <1>4, <1>8, <1>10 DEF Fine, IsCut
<1> QED BY <1>0, <1>11

\* Both.
LEMMA LessFine ==
  ASSUME NEW c, Fine(c), NEW k \in 1..Len(c), NEW n \in 1..c[k].qty
  PROVE  Fine(Less(c, k, n))
<1>1. c[k].qty \in Nat
  BY FineIs
<1>2. CASE n = c[k].qty
  BY <1>2, OutIs DEF Less
<1>3. CASE n # c[k].qty
  <2>1. PICK r : r = Cut(c, k, n)
    OBVIOUS
  <2>2. n \in Nat /\ n > 0 /\ n < c[k].qty
    BY <1>1, <1>3
  <2>3. Fine(r)
    BY <2>1, <2>2, CutIs
  <2> QED BY <1>3, <2>1, <2>3 DEF Less
<1> QED BY <1>2, <1>3

\* A replica that loses shares, or an order, stays fine.
LEMMA SmallerFine ==
  ASSUME NEW b, Fine(b), NEW m, NEW c, Reduces(b, m, c) \/ Deletes(b, m, c)
  PROVE  Fine(c)
  BY LessFine, OutIs DEF Reduces, Deletes

-----------------------------------------------------------------------------
(* The replayer.                                                           *)

Has(b, i) == \E k \in 1..Len(b) : b[k].id = i

\* One book, and an index that knows exactly the orders in it.
ReplicaInv ==
  /\ books \in [{Symbol} -> Seq(FeedOrder)]
  /\ owner \in [Ids -> {Symbol, NoOwner}]
  /\ \A i \in Ids : owner[i] = Symbol <=> Has(books[Symbol], i)

\* The replayer removes from a sequence as everyone does.
LEMMA SameRemoveAt ==
  ASSUME NEW s, NEW k
  PROVE  Replica!RemoveAt(s, k) = RemoveAt(s, k)
  BY DEF Replica!RemoveAt, RemoveAt

\* Where the replayer finds an order.
LEMMA AtIs ==
  ASSUME NEW b, Fine(b), NEW i
  PROVE  /\ Replica!At(b, i) = {} <=> ~Has(b, i)
         /\ \A k \in 1..Len(b) : b[k].id = i => /\ Replica!At(b, i) = {k}
                                                 /\ (CHOOSE j \in Replica!At(b, i) : TRUE) = k
<1>1. DOMAIN b = 1..Len(b) /\ IdsOnce(b)
  BY FineIs
<1>2. Replica!At(b, i) = {k \in 1..Len(b) : b[k].id = i}
  BY <1>1 DEF Replica!At
<1>3. ASSUME NEW k \in 1..Len(b), b[k].id = i
      PROVE  Replica!At(b, i) = {k}
  BY <1>1, <1>2, <1>3 DEF IdsOnce
<1>4. \A k : (CHOOSE j \in {k} : TRUE) = k
  OBVIOUS
<1> QED BY <1>2, <1>3, <1>4 DEF Has

\* Who is in the list when an order has left it.
LEMMA OutHas ==
  ASSUME NEW c, Fine(c), NEW k \in 1..Len(c), NEW i
  PROVE  Has(RemoveAt(c, k), i) <=> Has(c, i) /\ i # c[k].id
<1>1. PICK r : r = RemoveAt(c, k)
  OBVIOUS
<1>2. IsWithout(r, c, k)
  BY <1>1, OutIs
<1>3. ASSUME Has(r, i) PROVE Has(c, i) /\ i # c[k].id
  BY <1>2, <1>3 DEF Has, IsWithout
<1>4. ASSUME Has(c, i), i # c[k].id PROVE Has(r, i)
  BY <1>2, <1>4 DEF Has, IsWithout
<1> QED BY <1>1, <1>3, <1>4

\* The ids of a replica that gets an order,
LEMMA AppendHas ==
  ASSUME NEW c \in Seq(FeedOrder), NEW o \in FeedOrder, NEW i
  PROVE  Has(Append(c, o), i) <=> Has(c, i) \/ i = o.id
<1>1. PICK r : r = Append(c, o)
  OBVIOUS
<1>2. /\ Len(c) \in Nat /\ Len(r) = Len(c) + 1
      /\ \A k \in 1..Len(c) : r[k] = c[k]
      /\ r[Len(c) + 1] = o
  BY <1>1, AppendFacts
<1>3. \A k \in 1..Len(r) : k \in 1..Len(c) \/ k = Len(c) + 1
  BY <1>2
<1>4. Len(c) + 1 \in 1..Len(r) /\ \A k \in 1..Len(c) : k \in 1..Len(r)
  BY <1>2
<1>5. Has(r, i) => Has(c, i) \/ i = o.id
  BY <1>2, <1>3 DEF Has
<1>6. Has(c, i) \/ i = o.id => Has(r, i)
  BY <1>2, <1>4 DEF Has
<1> QED BY <1>1, <1>5, <1>6

\* and of one whose order gets smaller.
LEMMA CutHas ==
  ASSUME NEW c, Fine(c), NEW k \in 1..Len(c), NEW n \in Nat, n > 0, n < c[k].qty, NEW i
  PROVE  Has(Cut(c, k, n), i) <=> Has(c, i)
<1>1. PICK r : r = Cut(c, k, n)
  OBVIOUS
<1>2. /\ Len(r) = Len(c)
      /\ r[k] = [id |-> c[k].id, side |-> c[k].side, price |-> c[k].price, qty |-> c[k].qty - n]
      /\ \A j \in 1..Len(c) : j # k => r[j] = c[j]
  BY <1>1, CutIs DEF IsCut
<1>3. \A j \in 1..Len(c) : r[j].id = c[j].id
  BY <1>2
<1> QED BY <1>1, <1>2, <1>3 DEF Has

\* Append, of an element that is not known to be right.
LEMMA AppendAny ==
  ASSUME NEW S, NEW s \in Seq(S), NEW e
  PROVE  /\ Len(s) \in Nat /\ Len(Append(s, e)) = Len(s) + 1
         /\ Append(s, e)[Len(s) + 1] = e
<1>1. s \in Seq(S \cup {e}) /\ e \in S \cup {e}
  BY SeqDef
<1> QED BY <1>1, AppendFacts

\* A message that is right is applied without a complaint.
LEMMA ApplyBecomes ==
  ASSUME ReplicaInv, Fine(books[Symbol]), NEW m, NEW c, Becomes(books[Symbol], m, c), Fine(c),
         Replica!Apply(m)
  PROVE  books'[Symbol] = c /\ ReplicaInv' /\ anomalies' = anomalies
<1> DEFINE b == books[Symbol]
<1>1. /\ DOMAIN b = 1..Len(b) /\ IdsOnce(b) /\ b \in Seq(FeedOrder) /\ c \in Seq(FeedOrder)
      /\ \A k \in 1..Len(b) : b[k].id \in Ids /\ b[k].qty \in Nat /\ b[k].qty > 0
  BY FineIs
<1>2. \A i \in Ids : owner[i] = Symbol <=> Has(b, i)
  BY DEF ReplicaInv
<1>3. ASSUME books' = [books EXCEPT ![Symbol] = c] \/ books' = [s \in {Symbol} |-> c],
             owner' \in [Ids -> {Symbol, NoOwner}],
             \A i \in Ids : owner'[i] = Symbol <=> Has(c, i),
             anomalies' = anomalies
      PROVE  books'[Symbol] = c /\ ReplicaInv' /\ anomalies' = anomalies
  <2>1. books' \in [{Symbol} -> Seq(FeedOrder)] /\ books'[Symbol] = c
    BY <1>1, <1>3 DEF ReplicaInv
  <2> QED BY <1>3, <2>1 DEF ReplicaInv
<1>4. CASE Reduces(b, m, c)
  <2>1. PICK k \in 1..Len(b) : b[k].id = m.ref /\ m.qty \in 1..b[k].qty /\ c = Less(b, k, m.qty)
    BY <1>4 DEF Reduces
  <2>2. Replica!OnReduced(m)
    BY <1>4 DEF Reduces, Replica!Apply, Replica!OnAdd, Replica!OnDelete, Replica!OnReplace
  <2>3. owner[m.ref] = Symbol /\ m.ref \in Ids
    BY <1>1, <1>2, <2>1 DEF Has
  <2>4. ~Replica!Unrouted(m.ref)
    BY <2>3, NoOwnerAssumption DEF Replica!Unrouted
  <2>5. Replica!At(b, m.ref) = {k} /\ (CHOOSE j \in Replica!At(b, m.ref) : TRUE) = k
    BY <2>1, AtIs
  <2>6. m.qty \in Nat /\ m.qty > 0 /\ m.qty <= b[k].qty
    BY <1>1, <2>1
  <2>7. PICK take : take = IF m.qty < b[k].qty THEN m.qty ELSE b[k].qty
    OBVIOUS
  <2>8. take = m.qty
    BY <1>1, <2>6, <2>7
  <2>9. /\ books' = [books EXCEPT ![Symbol] = Replica!Reduced(@, k, take)]
        /\ owner' = IF take = b[k].qty THEN Replica!Forgotten(owner, m.ref) ELSE owner
        /\ anomalies' = IF take < m.qty THEN anomalies \cup {"clamped"} ELSE anomalies
    BY <2>2, <2>3, <2>4, <2>5, <2>7 DEF Replica!OnReduced
  <2>10. Replica!Reduced(b, k, take) = c
    BY <2>1, <2>8, SameRemoveAt DEF Replica!Reduced, Less, Cut
  <2>11. books' = [books EXCEPT ![Symbol] = c]
    BY <2>9, <2>10
  <2>12. anomalies' = anomalies
    BY <2>6, <2>8, <2>9
  <2>13. CASE m.qty = b[k].qty
    <3>1. owner' = [owner EXCEPT ![m.ref] = NoOwner] /\ c = RemoveAt(b, k)
      BY <2>1, <2>8, <2>9, <2>13 DEF Replica!Forgotten, Less
    <3>2. owner' \in [Ids -> {Symbol, NoOwner}]
      BY <3>1 DEF ReplicaInv
    <3>3. \A i \in Ids : owner'[i] = Symbol <=> Has(b, i) /\ i # m.ref
      BY <1>2, <2>3, <3>1, NoOwnerAssumption DEF ReplicaInv
    <3>4. \A i : Has(c, i) <=> Has(b, i) /\ i # m.ref
      BY <2>1, <3>1, OutHas
    <3> QED BY <1>3, <2>11, <2>12, <3>2, <3>3, <3>4
  <2>14. CASE m.qty # b[k].qty
    <3>1. owner' = owner /\ c = Cut(b, k, m.qty) /\ m.qty < b[k].qty
      BY <1>1, <2>1, <2>6, <2>8, <2>9, <2>14 DEF Less
    <3>2. \A i : Has(c, i) <=> Has(b, i)
      BY <2>6, <3>1, CutHas
    <3> QED BY <1>2, <1>3, <2>11, <2>12, <3>1, <3>2 DEF ReplicaInv
  <2> QED BY <2>13, <2>14
<1>5. CASE Deletes(b, m, c)
  <2>1. PICK k \in 1..Len(b) : b[k].id = m.ref /\ c = RemoveAt(b, k)
    BY <1>5 DEF Deletes
  <2>2. Replica!OnDelete(m)
    BY <1>5 DEF Deletes, Replica!Apply, Replica!OnAdd, Replica!OnReduced, Replica!OnReplace
  <2>3. owner[m.ref] = Symbol /\ m.ref \in Ids
    BY <1>1, <1>2, <2>1 DEF Has
  <2>4. ~Replica!Unrouted(m.ref)
    BY <2>3, NoOwnerAssumption DEF Replica!Unrouted
  <2>5. Replica!At(b, m.ref) = {k} /\ (CHOOSE j \in Replica!At(b, m.ref) : TRUE) = k
    BY <2>1, AtIs
  <2>6. /\ books' = [books EXCEPT ![Symbol] = Replica!Without(@, m.ref)]
        /\ owner' = [owner EXCEPT ![m.ref] = NoOwner]
        /\ anomalies' = anomalies
    BY <2>2, <2>3, <2>4 DEF Replica!OnDelete, Replica!Forgotten
  <2>7. Replica!Without(b, m.ref) = c
    BY <2>1, <2>5, SameRemoveAt DEF Replica!Without
  <2>8. owner' \in [Ids -> {Symbol, NoOwner}]
    BY <2>6 DEF ReplicaInv
  <2>9. \A i \in Ids : owner'[i] = Symbol <=> Has(b, i) /\ i # m.ref
    BY <1>2, <2>3, <2>6, NoOwnerAssumption DEF ReplicaInv
  <2>10. \A i : Has(c, i) <=> Has(b, i) /\ i # m.ref
    BY <2>1, OutHas
  <2> QED BY <1>3, <2>6, <2>7, <2>8, <2>9, <2>10
<1>6. CASE Adds(b, m, c)
  <2>1. /\ m.type = "A" /\ m.symbol = Symbol /\ m.ref \in Ids /\ m.qty > 0 /\ ~Has(b, m.ref)
        /\ c = Append(b, Replica!Resting(m.ref, m.side, m.price, m.qty))
    BY <1>6 DEF Adds, Has
  <2>2. Replica!OnAdd(m)
    BY <2>1 DEF Replica!Apply, Replica!OnDelete, Replica!OnReduced, Replica!OnReplace
  <2>3. Replica!Acceptable(b, m.ref, m.qty)
    BY <2>1, AtIs, IdsAssumption DEF Replica!Acceptable
  <2>4. owner[m.ref] = NoOwner
    BY <1>2, <2>1 DEF ReplicaInv
  <2>5. /\ books' = [books EXCEPT ![Symbol] = Append(@, Replica!Resting(m.ref, m.side, m.price, m.qty))]
        /\ owner' = [owner EXCEPT ![m.ref] = Symbol]
        /\ anomalies' = anomalies
    BY <2>1, <2>2, <2>3, <2>4 DEF Replica!OnAdd, Replica!Noted
  <2>6. PICK o : o = Replica!Resting(m.ref, m.side, m.price, m.qty)
    OBVIOUS
  <2>7. c = Append(b, o) /\ o.id = m.ref
    BY <2>1, <2>6 DEF Replica!Resting
  <2>8. o \in FeedOrder
    <3>1. Len(b) \in Nat /\ Len(c) = Len(b) + 1 /\ c[Len(b) + 1] = o
      BY <1>1, <2>7, AppendAny
    <3> QED BY <1>1, <3>1, FineIs
  <2>9. \A i : Has(c, i) <=> Has(b, i) \/ i = m.ref
    BY <1>1, <2>7, <2>8, AppendHas
  <2>10. owner' \in [Ids -> {Symbol, NoOwner}]
    BY <2>5 DEF ReplicaInv
  <2>11. \A i \in Ids : owner'[i] = Symbol <=> Has(b, i) \/ i = m.ref
    BY <1>2, <2>1, <2>5 DEF ReplicaInv
  <2> QED BY <1>3, <2>5, <2>6, <2>7, <2>9, <2>10, <2>11
<1>7. CASE Replaces(b, m, c)
  <2>1. PICK k \in 1..Len(b) :
          /\ b[k].id = m.ref
          /\ \A j \in 1..Len(RemoveAt(b, k)) : RemoveAt(b, k)[j].id # m.newRef
          /\ c = Append(RemoveAt(b, k), Replica!Resting(m.newRef, b[k].side, m.price, m.qty))
    BY <1>7 DEF Replaces
  <2>2. PICK r, o : /\ r = RemoveAt(b, k)
                    /\ o = Replica!Resting(m.newRef, b[k].side, m.price, m.qty)
    OBVIOUS
  <2>3. m.type = "U" /\ m.newRef \in Ids /\ m.qty > 0 /\ ~Has(r, m.newRef) /\ c = Append(r, o)
        /\ o.id = m.newRef
    BY <1>7, <2>1, <2>2 DEF Replaces, Has, Replica!Resting
  <2>4. Replica!OnReplace(m)
    BY <2>3 DEF Replica!Apply, Replica!OnDelete, Replica!OnReduced, Replica!OnAdd
  <2>5. owner[m.ref] = Symbol /\ m.ref \in Ids
    BY <1>1, <1>2, <2>1 DEF Has
  <2>6. Replica!Found(m.ref) = {k}
    <3>1. Replica!At(b, m.ref) = {k}
      BY <2>1, AtIs
    <3> QED BY <2>5, <3>1, NoOwnerAssumption DEF Replica!Found, Replica!Unrouted
  <2>7. Fine(r) /\ \A i : Has(r, i) <=> Has(b, i) /\ i # m.ref
    BY <2>1, <2>2, OutIs, OutHas
  <2>8. Replica!Acceptable(r, m.newRef, m.qty)
    BY <2>3, <2>7, AtIs, IdsAssumption DEF Replica!Acceptable
  <2>9. /\ books' = [books EXCEPT ![Symbol] = Append(r, o)]
        /\ owner' = Replica!Noted(Replica!Forgotten(owner, m.ref), m.newRef, Symbol)
        /\ anomalies' = anomalies
    BY <2>2, <2>4, <2>5, <2>6, <2>8, SameRemoveAt DEF Replica!OnReplace
  <2>10. PICK gone : gone = [owner EXCEPT ![m.ref] = NoOwner]
    OBVIOUS
  <2>11. /\ gone \in [Ids -> {Symbol, NoOwner}]
         /\ \A i \in Ids : gone[i] = Symbol <=> Has(r, i)
    BY <1>2, <2>5, <2>7, <2>10, NoOwnerAssumption DEF ReplicaInv
  <2>12. owner' = [gone EXCEPT ![m.newRef] = Symbol]
    BY <2>3, <2>9, <2>10, <2>11 DEF Replica!Noted, Replica!Forgotten
  <2>13. o \in FeedOrder
    <3>1. Len(r) \in Nat /\ Len(c) = Len(r) + 1 /\ c[Len(r) + 1] = o
      BY <2>3, <2>7, FineIs, AppendAny
    <3> QED BY <3>1, FineIs
  <2>14. \A i : Has(c, i) <=> Has(r, i) \/ i = m.newRef
    BY <2>3, <2>7, <2>13, AppendHas DEF Fine
  <2>15. owner' \in [Ids -> {Symbol, NoOwner}]
    BY <2>11, <2>12
  <2>16. \A i \in Ids : owner'[i] = Symbol <=> Has(r, i) \/ i = m.newRef
    BY <2>3, <2>11, <2>12
  <2> QED BY <1>3, <2>3, <2>9, <2>14, <2>15, <2>16
<1> QED BY <1>4, <1>5, <1>6, <1>7 DEF Becomes

-----------------------------------------------------------------------------
(* From list to list, message by message.                                  *)

\* t is what a reader has after each of the messages.
Trace(t, b, msgs, e) ==
  /\ t[0] = b /\ t[Len(msgs)] = e
  /\ \A n \in 0..Len(msgs) : Fine(t[n])
  /\ \A n \in 1..Len(msgs) : Becomes(t[n - 1], msgs[n], t[n])

\* Reading the messages makes list e of list b.
Leads(b, msgs, e) == \E t : Trace(t, b, msgs, e)

\* No message, no change.
LEMMA LeadsNowhere ==
  ASSUME NEW b, Fine(b)
  PROVE  Leads(b, <<>>, b)
<1>1. PICK t : t = [n \in {0} |-> b]
  OBVIOUS
<1>2. Trace(t, b, <<>>, b)
  BY <1>1 DEF Trace
<1> QED BY <1>2 DEF Leads

\* The books at both ends of a stream are fine, and one book if nothing is in between.
LEMMA LeadsIs ==
  ASSUME NEW S, NEW msgs \in Seq(S), NEW b, NEW e, Leads(b, msgs, e)
  PROVE  Fine(b) /\ Fine(e) /\ (msgs = <<>> => b = e)
<1>1. PICK t : Trace(t, b, msgs, e)
  BY DEF Leads
<1>2. Len(msgs) \in Nat /\ (msgs = <<>> => Len(msgs) = 0)
  BY LenProperties
<1> QED BY <1>1, <1>2 DEF Trace

\* One more message.
LEMMA LeadsOn ==
  ASSUME NEW S, NEW msgs \in Seq(S), NEW m \in S, NEW b, NEW e, Leads(b, msgs, e),
         NEW c, Becomes(e, m, c), Fine(c)
  PROVE  Leads(b, Append(msgs, m), c)
<1>1. PICK t : Trace(t, b, msgs, e)
  BY DEF Leads
<1>2. PICK r : r = Append(msgs, m)
  OBVIOUS
<1>3. /\ Len(msgs) \in Nat /\ Len(r) = Len(msgs) + 1 /\ r[Len(msgs) + 1] = m
      /\ \A n \in 1..Len(msgs) : r[n] = msgs[n]
  BY <1>2, AppendFacts
<1>4. PICK u : u = [n \in 0..Len(r) |-> IF n <= Len(msgs) THEN t[n] ELSE c]
  OBVIOUS
<1>5. u[0] = b /\ u[Len(r)] = c /\ \A n \in 0..Len(r) : Fine(u[n])
  BY <1>1, <1>3, <1>4 DEF Trace
<1>6. ASSUME NEW n \in 1..Len(r)
      PROVE  Becomes(u[n - 1], r[n], u[n])
  <2>1. CASE n = Len(r)
    BY <1>1, <1>3, <1>4, <2>1 DEF Trace
  <2>2. CASE n # Len(r)
    <3>1. n \in 1..Len(msgs)
      BY <1>3, <2>2
    <3>2. u[n - 1] = t[n - 1] /\ u[n] = t[n] /\ r[n] = msgs[n]
      BY <1>3, <1>4, <3>1
    <3> QED BY <1>1, <3>1, <3>2 DEF Trace
  <2> QED BY <2>1, <2>2
<1>7. Trace(u, b, r, c)
  BY <1>5, <1>6 DEF Trace
<1> QED BY <1>2, <1>7 DEF Leads

\* One message less.
LEMMA LeadsOff ==
  ASSUME NEW S, NEW msgs \in Seq(S), msgs # <<>>, NEW b, NEW e, Leads(b, msgs, e)
  PROVE  \E c : Fine(c) /\ Becomes(b, Head(msgs), c) /\ Leads(c, Tail(msgs), e)
<1>1. PICK t : Trace(t, b, msgs, e)
  BY DEF Leads
<1>2. PICK r : r = Tail(msgs)
  OBVIOUS
<1>3. /\ Len(msgs) \in Nat \ {0} /\ Len(r) = Len(msgs) - 1 /\ Head(msgs) = msgs[1]
      /\ \A n \in 1..(Len(msgs) - 1) : r[n] = msgs[n + 1]
  BY <1>2, TailFacts
<1>4. PICK u : u = [n \in 0..Len(r) |-> t[n + 1]]
  OBVIOUS
<1>5. u[0] = t[1] /\ u[Len(r)] = e /\ \A n \in 0..Len(r) : Fine(u[n])
  BY <1>1, <1>3, <1>4 DEF Trace
<1>6. ASSUME NEW n \in 1..Len(r)
      PROVE  Becomes(u[n - 1], r[n], u[n])
  <2>1. n + 1 \in 1..Len(msgs) /\ (n + 1) - 1 = n /\ (n - 1) + 1 = n
    BY <1>3
  <2>2. Becomes(t[n], msgs[n + 1], t[n + 1])
    BY <1>1, <2>1 DEF Trace
  <2>3. u[n - 1] = t[n] /\ u[n] = t[n + 1] /\ r[n] = msgs[n + 1]
    BY <1>3, <1>4, <2>1
  <2> QED BY <2>2, <2>3
<1>7. Trace(u, t[1], r, e)
  BY <1>5, <1>6 DEF Trace
<1>8. Fine(t[1]) /\ Becomes(b, Head(msgs), t[1])
  BY <1>1, <1>3 DEF Trace
<1> QED BY <1>2, <1>7, <1>8 DEF Leads

-----------------------------------------------------------------------------
(* The book, as the feed shows it.                                         *)

Shown(i) == Replica!Resting(i, orders[i].side, FeedPrice(orders[i].price), orders[i].qty)

\* e is what the feed shows of the orders in ids.
IsView(e, ids) == Len(e) = Len(ids) /\ \A k \in 1..Len(ids) : e[k] = Shown(ids[k])

\* put32 keeps a price that fits.
LEMMA FeedPriceIs ==
  ASSUME NEW p \in ValidPrices
  PROVE  FeedPrice(p) \in Nat /\ FeedPrice(p) \in Int /\ (PricesFit => FeedPrice(p) = p)
<1>1. p \in Int /\ PriceModulus \in Nat /\ PriceModulus > 0
  BY PricesAssumption, PriceModulusAssumption
<1>2. p % PriceModulus \in 0..(PriceModulus - 1)
  BY <1>1
<1>3. p \in 0..(PriceModulus - 1) => p % PriceModulus = p
  BY <1>1
<1> QED BY <1>1, <1>2, <1>3 DEF FeedPrice, PricesFit

\* The feed shows a live order as it is, price apart if it does not fit.
LEMMA ShownIs ==
  ASSUME BookInv, NEW i \in Resting
  PROVE  /\ Shown(i) \in FeedOrder /\ Shown(i).id = i /\ Shown(i).side = orders[i].side
         /\ Shown(i).qty = orders[i].qty /\ (PricesFit => Shown(i).price = orders[i].price)
<1>1. orders[i] \in Order /\ i \in Ids
  BY DEF BookInv, BookTypeOK, Resting
<1>2. FeedPrice(orders[i].price) \in Int
      /\ (PricesFit => FeedPrice(orders[i].price) = orders[i].price)
  BY <1>1, FeedPriceIs DEF Order
<1> QED BY <1>1, <1>2 DEF Shown, Replica!Resting, FeedOrder, Order

\* The ladder has the level an order rests at.
LEMMA LevelIsThere ==
  ASSUME BookInv, NEW i \in Resting
  PROVE  /\ orders[i].side \in Sides /\ orders[i].price \in levels[orders[i].side]
         /\ orders[i].price \in ValidPrices
<1>1. PICK s, q : s = orders[i].side /\ q = orders[i].price
  OBVIOUS
<1>2. s \in Sides /\ q \in ValidPrices
  BY <1>1 DEF BookInv, BookTypeOK, Resting, Order
<1>3. \E n \in DOMAIN fifo[s][q] : fifo[s][q][n] = i
  BY <1>1 DEF BookInv, IndexesAgree
<1>4. fifo[s][q] # <<>>
  <2>1. DOMAIN <<>> = {}
    OBVIOUS
  <2> QED BY <1>3, <2>1
<1> QED BY <1>1, <1>2, <1>4 DEF BookInv, LevelsLive

\* What is shown of a book that is not crossed is right.
ViewRight ==
  BookInv /\ NeverCrossed =>
    \A ids, e : Lists(ids) /\ e \in Seq(FeedOrder) /\ IsView(e, ids) => Fine(e)

\* The view of the feed of a book that is not crossed is fine.
LEMMA ViewFine == ViewRight
<1>1. SUFFICES ASSUME BookInv, NeverCrossed, NEW ids, NEW e,
                      Lists(ids), e \in Seq(FeedOrder), IsView(e, ids)
               PROVE  Fine(e)
  BY DEF ViewRight
<1>2. Len(e) = Len(ids) /\ \A k \in 1..Len(ids) : ids[k] \in Resting /\ e[k] = Shown(ids[k])
  BY <1>1, ListsIs DEF IsView
<1>3. IdsOnce(e)
  <2>1. \A k \in 1..Len(e) : e[k].id = ids[k]
    BY <1>1, <1>2, ShownIs
  <2> QED BY <1>1, <1>2, <2>1 DEF IdsOnce, Lists, Once
<1>4. ASSUME PricesFit, NEW j \in 1..Len(e), NEW k \in 1..Len(e),
             e[j].side = "Bid", e[k].side = "Ask"
      PROVE  e[j].price < e[k].price
  <2>1. /\ ids[j] \in Resting /\ e[j].price = orders[ids[j]].price /\ orders[ids[j]].side = "Bid"
        /\ ids[k] \in Resting /\ e[k].price = orders[ids[k]].price /\ orders[ids[k]].side = "Ask"
    BY <1>1, <1>2, <1>4, ShownIs
  <2>2. e[j].price \in levels["Bid"] /\ e[k].price \in levels["Ask"]
    BY <1>1, <2>1, LevelIsThere
  <2> QED BY <1>1, <2>2 DEF NeverCrossed
<1> QED BY <1>1, <1>3, <1>4 DEF Fine, Uncrossed

\* An order leaves the book.
LEMMA UnlinkView ==
  ASSUME BookInv, NEW i \in Resting, Unlink(i), NEW ids, Lists(ids), NEW e, Fine(e),
         IsView(e, ids), NEW k \in 1..Len(ids), ids[k] = i
  PROVE  Lists(RemoveAt(ids, k))' /\ IsView(RemoveAt(e, k), RemoveAt(ids, k))'
<1>1. PICK r, f : r = RemoveAt(ids, k) /\ f = RemoveAt(e, k)
  OBVIOUS
<1>2. Lists(r)'
  BY <1>1, UnlinkLists
<1>3. /\ Resting' = Resting \ {i}
      /\ \A a \in Resting \ {i} : orders'[a] = orders[a]
  BY UnlinkPlaces
<1>4. /\ Len(ids) \in Nat /\ Len(r) = Len(ids) - 1 /\ Len(e) = Len(ids)
      /\ \A j \in 1..(Len(ids) - 1) : r[j] = IF j < k THEN ids[j] ELSE ids[j + 1]
  <2>1. ids \in Seq(Ids) /\ Len(ids) \in Nat
    BY ListsIs
  <2>2. /\ Len(r) = Len(ids) - 1
        /\ \A j \in 1..(Len(ids) - 1) : r[j] = IF j < k THEN ids[j] ELSE ids[j + 1]
    BY ONLY <1>1, <2>1, k \in 1..Len(ids), RemoveAtIs
  <2>3. Len(e) = Len(ids)
    BY DEF IsView
  <2> QED BY <2>1, <2>2, <2>3
<1>5. /\ Len(f) = Len(e) - 1
      /\ \A j \in 1..(Len(e) - 1) : f[j] = IF j < k THEN e[j] ELSE e[j + 1]
  <2>1. e \in Seq(FeedOrder) /\ k \in 1..Len(e)
    BY <1>4, FineIs
  <2> QED BY <1>1, <2>1, RemoveAtIs
<1>6. ASSUME NEW j \in 1..Len(r)
      PROVE  f[j] = Shown(r[j])'
  <2>1. PICK m : m = IF j < k THEN j ELSE j + 1
    OBVIOUS
  <2>2. m \in 1..Len(ids) /\ m # k /\ r[j] = ids[m] /\ f[j] = e[m]
    BY <1>4, <1>5, <2>1
  <2>3. ids[m] \in Resting \ {i}
    BY <2>2, ListsIs DEF Lists, Once
  <2>4. e[m] = Shown(ids[m])
    BY <2>2 DEF IsView
  <2> QED BY <1>3, <2>2, <2>3, <2>4 DEF Shown
<1>7. IsView(f, r)'
  BY <1>4, <1>5, <1>6 DEF IsView
<1> QED BY <1>1, <1>2, <1>7

\* An order keeps some of its shares.
LEMMA ShrinkView ==
  ASSUME BookInv, NEW ids, Lists(ids), NEW e, Fine(e), IsView(e, ids),
         NEW k \in 1..Len(ids), ids[k] \in Resting,
         NEW n \in Nat, n > 0, n < orders[ids[k]].qty, Shrink(ids[k], n)
  PROVE  Lists(ids)' /\ IsView(Cut(e, k, n), ids)'
<1>1. PICK f, i : f = Cut(e, k, n) /\ i = ids[k]
  OBVIOUS
<1>2. Lists(ids)'
  BY ShrinkLists
<1>3. /\ Resting' = Resting
      /\ orders'[i] = [orders[i] EXCEPT !.qty = @ - n]
      /\ \A a \in Resting \ {i} : orders'[a] = orders[a]
  BY <1>1, ShrinkPlaces
<1>4. Len(e) = Len(ids) /\ e[k] = Shown(i)
  BY <1>1 DEF IsView
<1>5. e[k].qty = orders[i].qty /\ e[k].id = i /\ e[k].side = orders[i].side
      /\ e[k].price = FeedPrice(orders[i].price)
  BY <1>4 DEF Shown, Replica!Resting
<1>6. /\ Len(f) = Len(e)
      /\ f[k] = [id |-> e[k].id, side |-> e[k].side, price |-> e[k].price, qty |-> e[k].qty - n]
      /\ \A j \in 1..Len(e) : j # k => f[j] = e[j]
  <2>1. k \in 1..Len(e) /\ n < e[k].qty
    BY <1>1, <1>4, <1>5
  <2> QED BY <1>1, <2>1, CutIs DEF IsCut
<1>7. f[k] = Shown(i)'
  <2>1. orders[i] \in Order
    BY <1>1 DEF BookInv, BookTypeOK, Resting
  <2>2. /\ orders'[i].side = orders[i].side /\ orders'[i].price = orders[i].price
        /\ orders'[i].qty = orders[i].qty - n
    BY <1>3, <2>1 DEF Order
  <2> QED BY <1>5, <1>6, <2>2 DEF Shown, Replica!Resting
<1>8. ASSUME NEW j \in 1..Len(ids), j # k PROVE f[j] = Shown(ids[j])'
  <2>1. ids[j] \in Resting \ {i}
    BY <1>1, <1>8, ListsIs DEF Lists, Once
  <2>2. f[j] = Shown(ids[j])
    BY <1>4, <1>6, <1>8 DEF IsView
  <2> QED BY <1>3, <2>1, <2>2 DEF Shown
<1>9. IsView(f, ids)'
  BY <1>1, <1>4, <1>6, <1>7, <1>8 DEF IsView
<1> QED BY <1>1, <1>2, <1>9

\* Both: n shares of an order go.
LEMMA LessView ==
  ASSUME BookInv, NEW ids, Lists(ids), NEW e, Fine(e), IsView(e, ids),
         NEW k \in 1..Len(ids), ids[k] \in Resting, NEW n \in 1..orders[ids[k]].qty,
         IF n = orders[ids[k]].qty THEN Unlink(ids[k]) ELSE Shrink(ids[k], n)
  PROVE  /\ k \in 1..Len(e) /\ e[k].id = ids[k] /\ n \in 1..e[k].qty
         /\ \E r : Lists(r)' /\ IsView(Less(e, k, n), r)'
<1>1. Len(e) = Len(ids) /\ e[k].qty = orders[ids[k]].qty /\ e[k].id = ids[k]
  <2>1. Len(e) = Len(ids) /\ e[k] = Shown(ids[k])
    BY DEF IsView
  <2> QED BY <2>1 DEF Shown, Replica!Resting
<1>2. e[k].qty \in Nat
  BY <1>1, FineIs
<1>3. CASE n = orders[ids[k]].qty
  <2>1. Lists(RemoveAt(ids, k))' /\ IsView(RemoveAt(e, k), RemoveAt(ids, k))'
    BY <1>3, UnlinkView
  <2>2. Less(e, k, n) = RemoveAt(e, k)
    BY <1>1, <1>3 DEF Less
  <2> QED BY <1>1, <2>1, <2>2
<1>4. CASE n # orders[ids[k]].qty
  <2>1. n \in Nat /\ n > 0 /\ n < orders[ids[k]].qty
    BY <1>1, <1>2, <1>4
  <2>2. Lists(ids)' /\ IsView(Cut(e, k, n), ids)'
    BY <1>4, <2>1, ShrinkView
  <2>3. Less(e, k, n) = Cut(e, k, n)
    BY <1>1, <1>4 DEF Less
  <2> QED BY <1>1, <2>2, <2>3
<1> QED BY <1>3, <1>4

\* An order comes to rest.
LEMMA RestView ==
  ASSUME BookInv, NEW i \in Ids, ~Live(i), NEW side \in Sides, NEW price \in ValidPrices,
         NEW qty \in Qtys, NEW actor, Rest(i, side, price, qty, actor), Live(i)',
         NEW ids, Lists(ids), NEW e, Fine(e), IsView(e, ids),
         NEW f, f = Append(e, Replica!Resting(i, side, FeedPrice(price), qty))
  PROVE  f \in Seq(FeedOrder) /\ Lists(Append(ids, i))' /\ IsView(f, Append(ids, i))'
<1>1. PICK r, o : r = Append(ids, i) /\ o = Replica!Resting(i, side, FeedPrice(price), qty)
  OBVIOUS
<1>2. Lists(r)'
  BY <1>1, RestLists
<1>3. /\ orders'[i] = [side |-> side, price |-> price, qty |-> qty, participant |-> actor]
      /\ \A a \in Resting : orders'[a] = orders[a]
  BY RestPlaces
<1>4. o \in FeedOrder
  BY <1>1, FeedPriceIs DEF FeedOrder, Replica!Resting
<1>5. /\ e \in Seq(FeedOrder) /\ Len(e) = Len(ids) /\ ids \in Seq(Ids) /\ Len(ids) \in Nat
      /\ \A k \in 1..Len(ids) : ids[k] \in Resting /\ e[k] = Shown(ids[k])
  BY ListsIs DEF Fine, IsView
<1>6. /\ f \in Seq(FeedOrder) /\ Len(f) = Len(e) + 1 /\ f[Len(e) + 1] = o
      /\ \A k \in 1..Len(e) : f[k] = e[k]
  BY <1>1, <1>4, <1>5, AppendFacts
<1>7. /\ Len(r) = Len(ids) + 1 /\ r[Len(ids) + 1] = i
      /\ \A k \in 1..Len(ids) : r[k] = ids[k]
  BY <1>1, <1>5, AppendFacts
<1>8. ASSUME NEW k \in 1..Len(r) PROVE f[k] = Shown(r[k])'
  <2>1. CASE k \in 1..Len(ids)
    BY <1>3, <1>5, <1>6, <1>7, <2>1 DEF Shown
  <2>2. CASE k = Len(ids) + 1
    BY <1>1, <1>3, <1>5, <1>6, <1>7, <2>2 DEF Shown
  <2> QED BY <1>5, <1>7, <2>1, <2>2
<1>9. IsView(f, r)'
  BY <1>5, <1>6, <1>7, <1>8 DEF IsView
<1> QED BY <1>1, <1>2, <1>6, <1>9

\* The old order of a replace stays in the feed's book until the end of the
\* request: what the executions take, they take around it.
LEMMA LessSwap ==
  ASSUME NEW e, Fine(e), NEW k \in 1..Len(e), NEW r, r = RemoveAt(e, k), NEW j \in 1..Len(r),
         NEW n \in 1..r[j].qty, NEW f, f = Less(e, From(k, j), n)
  PROVE  \E h \in 1..Len(f) : /\ f[h].id = e[k].id /\ f[h].side = e[k].side
                              /\ RemoveAt(f, h) = Less(r, j, n)
<1>1. Len(e) \in Nat /\ Fine(r) /\ IsWithout(r, e, k)
  BY FineIs, OutIs
<1>2. PICK m : m = From(k, j)
  OBVIOUS
<1>3. m \in 1..Len(e) /\ m # k /\ r[j] = e[m] /\ Len(r) = Len(e) - 1 /\ k \in Nat /\ j \in Nat
  BY <1>1, <1>2 DEF IsWithout
<1>4. /\ r[j].qty \in Nat
      /\ \A x \in 1..Len(r) : r[x] = e[From(k, x)]
  BY <1>1, FineIs DEF IsWithout
<1>5. CASE n = r[j].qty
  <2>1. PICK h : h = To(m, k)
    OBVIOUS
  <2>2. f = RemoveAt(e, m) /\ Less(r, j, n) = RemoveAt(r, j)
    BY <1>2, <1>3, <1>5 DEF Less
  <2>3. Fine(f) /\ IsWithout(f, e, m)
    BY <1>3, <2>2, OutIs
  <2>4. Len(f) = Len(e) - 1 /\ h \in 1..Len(f) /\ f[h] = e[k]
    BY <1>3, <2>1, <2>3 DEF IsWithout
  <2>5. PICK s, u : s = RemoveAt(f, h) /\ u = RemoveAt(r, j)
    OBVIOUS
  <2>6. Fine(s) /\ IsWithout(s, f, h) /\ Fine(u) /\ IsWithout(u, r, j)
    BY <1>1, <2>3, <2>4, <2>5, OutIs
  <2>7. Len(s) = Len(e) - 2 /\ Len(u) = Len(e) - 2 /\ s \in Seq(FeedOrder) /\ u \in Seq(FeedOrder)
    BY <1>1, <1>3, <2>4, <2>6 DEF IsWithout, Fine
  <2>8. ASSUME NEW x \in 1..Len(s) PROVE s[x] = u[x]
    <3>1. s[x] = f[From(h, x)] /\ From(h, x) \in 1..Len(f)
      BY <1>1, <2>4, <2>6, <2>7 DEF IsWithout
    <3>2. f[From(h, x)] = e[From(m, From(h, x))]
      BY <1>1, <2>3, <2>4, <3>1 DEF IsWithout
    <3>3. u[x] = r[From(j, x)] /\ From(j, x) \in 1..Len(r)
      <4>1. x \in 1..(Len(r) - 1)
        BY <1>1, <1>3, <2>7
      <4> QED BY ONLY <4>1, <2>6 DEF IsWithout
    <3>4. r[From(j, x)] = e[From(k, From(j, x))]
      BY <1>4, <3>3
    <3>5. From(m, From(h, x)) = From(k, From(j, x))
      BY <1>1, <1>2, <1>3, <2>1, <2>7 DEF From, To
    <3> QED BY <3>1, <3>2, <3>3, <3>4, <3>5
  <2>9. s = u
    BY <2>7, <2>8, SeqEqual
  <2> QED BY <2>2, <2>4, <2>5, <2>9
<1>6. CASE n # r[j].qty
  <2>1. n \in Nat /\ n > 0 /\ n < e[m].qty /\ n < r[j].qty
    BY <1>3, <1>4, <1>6
  <2>2. PICK u : u = Cut(r, j, n)
    OBVIOUS
  <2>3. f = Cut(e, m, n) /\ Less(r, j, n) = u
    BY <1>2, <1>3, <1>6, <2>2 DEF Less
  <2>4. Fine(f) /\ IsCut(f, e, m, n)
    <3>1. m \in 1..Len(e) /\ n \in Nat /\ n > 0 /\ n < e[m].qty
      BY <1>3, <2>1
    <3> QED BY ONLY Fine(e), <3>1, <2>3, CutIs
  <2>5. Fine(u) /\ IsCut(u, r, j, n)
    BY ONLY <1>1, j \in 1..Len(r), <2>1, <2>2, CutIs
  <2>6. PICK s : s = RemoveAt(f, k)
    OBVIOUS
  <2>7. Fine(s) /\ IsWithout(s, f, k)
    <3>1. k \in 1..Len(f)
      BY <2>4 DEF IsCut
    <3> QED BY <2>4, <2>6, <3>1, OutIs
  <2>8. Len(s) = Len(u) /\ s \in Seq(FeedOrder) /\ u \in Seq(FeedOrder)
    BY <1>3, <2>4, <2>5, <2>7 DEF IsWithout, IsCut, Fine
  <2>9. ASSUME NEW x \in 1..Len(s) PROVE s[x] = u[x]
    <3>1. s[x] = f[From(k, x)] /\ From(k, x) \in 1..Len(e) /\ x \in 1..Len(r)
      BY <1>3, <2>4, <2>5, <2>7, <2>8 DEF IsWithout, IsCut
    <3>2. CASE x = j
      BY <1>2, <1>3, <2>4, <2>5, <3>1, <3>2 DEF IsCut
    <3>3. CASE x # j
      <4>1. From(k, x) # m
        BY <1>2, <1>3, <3>1, <3>3 DEF From
      <4> QED BY <1>4, <2>4, <2>5, <3>1, <3>3, <4>1 DEF IsCut
    <3> QED BY <3>2, <3>3
  <2>10. s = u
    BY <2>8, <2>9, SeqEqual
  <2>11. k \in 1..Len(f) /\ f[k] = e[k]
    BY <1>3, <2>4 DEF IsCut
  <2> QED BY <2>3, <2>6, <2>10, <2>11
<1> QED BY <1>5, <1>6

-----------------------------------------------------------------------------
(* The sum over the fills, and a client's count of them.                   *)

\* f[n] is the sum of the first n fills in s.
Filling(f, s) == f = [n \in 0..Len(s) |-> IF n = 0 THEN 0 ELSE f[n - 1] + s[n].qty]

\* A count without n shares of order i.
Took(count, i, n) == [count EXCEPT ![i] = @ - n]

BothTook(count, e) == Took(Took(count, e.aggressor, e.qty), e.resting, e.qty)

\* f[n] is the count after the first n fills in s.
Counting(f, s, count) ==
  f = [n \in 0..Len(s) |-> IF n = 0 THEN count ELSE BothTook(f[n - 1], s[n])]

\* Two sequences that start alike and go on alike end alike.
LEMMA SameEnd ==
  ASSUME NEW n \in Nat, NEW f, NEW g, f[0] = g[0],
         \A k \in 1..n : f[k - 1] = g[k - 1] => f[k] = g[k]
  PROVE  f[n] = g[n]
<1> DEFINE T == {k \in 0..n : f[k] # g[k]}
<1> SUFFICES ASSUME T # {} PROVE FALSE
  OBVIOUS
<1>1. PICK k \in T : \A j \in T : k <= j
  <2>1. T \in SUBSET Nat
    OBVIOUS
  <2> HIDE DEF T
  <2> QED BY <2>1, Least
<1>2. k \in 1..n /\ k - 1 \in 0..n
  <2>1. k \in 0..n /\ k # 0
    OBVIOUS
  <2> QED BY <2>1
<1>3. k - 1 \notin T
  <2>1. ~(k <= k - 1)
    BY <1>2
  <2> HIDE DEF T
  <2> QED BY <1>1, <2>1
<1> QED BY <1>2, <1>3

\* Filled is the last of the partial sums.
LEMMA FilledIs ==
  ASSUME NEW S, fills \in Seq(S), NEW f, Filling(f, fills)
  PROVE  Filled = f[Len(fills)]
<1>1. \E g : Filling(g, fills) /\ Filled = g[Len(fills)]
  BY DEF Filled, Filling
<1>2. PICK g : Filling(g, fills) /\ Filled = g[Len(fills)]
  BY <1>1
<1>3. Len(fills) \in Nat
  BY LenProperties
<1>4. /\ f[0] = 0 /\ g[0] = 0
      /\ \A k \in 1..Len(fills) : f[k] = f[k - 1] + fills[k].qty /\ g[k] = g[k - 1] + fills[k].qty
  BY <1>2, <1>3 DEF Filling
<1>5. f[0] = g[0] /\ \A k \in 1..Len(fills) : f[k - 1] = g[k - 1] => f[k] = g[k]
  BY <1>4
<1>6. f[Len(fills)] = g[Len(fills)]
  BY ONLY <1>3, <1>5, SameEnd
<1> QED BY <1>2, <1>6

\* One more execution adds its shares.
LEMMA FillsOn ==
  ASSUME NEW S, NEW s \in Seq(S), NEW e \in S, NEW f, Filling(f, s)
  PROVE  \E g : Filling(g, Append(s, e)) /\ g[Len(Append(s, e))] = f[Len(s)] + e.qty
<1>1. PICK r : r = Append(s, e)
  OBVIOUS
<1>2. /\ Len(s) \in Nat /\ Len(r) = Len(s) + 1 /\ r[Len(s) + 1] = e
      /\ \A k \in 1..Len(s) : r[k] = s[k]
  BY <1>1, AppendFacts
<1>3. PICK g : g = [n \in 0..Len(r) |-> IF n <= Len(s) THEN f[n] ELSE f[Len(s)] + e.qty]
  OBVIOUS
<1>4. /\ f[0] = 0 /\ \A k \in 1..Len(s) : f[k] = f[k - 1] + s[k].qty
  BY <1>2 DEF Filling
<1>5. ASSUME NEW n \in 0..Len(r)
      PROVE  g[n] = IF n = 0 THEN 0 ELSE g[n - 1] + r[n].qty
  <2>1. CASE n = 0
    BY <1>2, <1>3, <1>4, <2>1
  <2>2. CASE n \in 1..Len(s)
    BY <1>2, <1>3, <1>4, <2>2
  <2>3. CASE n = Len(s) + 1
    BY <1>2, <1>3, <2>3
  <2> QED BY <1>2, <2>1, <2>2, <2>3
<1>6. Filling(g, r)
  BY <1>3, <1>5 DEF Filling
<1>7. g[Len(r)] = f[Len(s)] + e.qty
  BY <1>2, <1>3
<1> QED BY <1>1, <1>6, <1>7

\* An execution takes its shares from both sides' counts.
LEMMA FillCountedIs ==
  ASSUME NEW count, NEW e
  PROVE  FillCounted(count, e) = BothTook(count, e)
  BY DEF FillCounted, Counted, Executed, Response, BothTook, Took

\* AllCounted is the last of the client's partial counts.
LEMMA AllCountedIs ==
  ASSUME NEW S, fills \in Seq(S), NEW f, Counting(f, fills, Counted(told, Reply))
  PROVE  AllCounted = f[Len(fills)]
<1>1. PICK count : count = Counted(told, Reply)
  OBVIOUS
<1>2. \E g : Counting(g, fills, count) /\ AllCounted = g[Len(fills)]
  BY <1>1, FillCountedIs DEF AllCounted, Counting
<1>3. PICK g : Counting(g, fills, count) /\ AllCounted = g[Len(fills)]
  BY <1>2
<1>4. Len(fills) \in Nat /\ Counting(f, fills, count)
  BY <1>1, LenProperties
<1>5. f[0] = count /\ \A k \in 1..Len(fills) : f[k] = BothTook(f[k - 1], fills[k])
  BY ONLY <1>4 DEF Counting
<1>6. g[0] = count /\ \A k \in 1..Len(fills) : g[k] = BothTook(g[k - 1], fills[k])
  BY ONLY <1>3, <1>4 DEF Counting
<1>7. f[0] = g[0] /\ \A k \in 1..Len(fills) : f[k - 1] = g[k - 1] => f[k] = g[k]
  BY <1>5, <1>6
<1>8. f[Len(fills)] = g[Len(fills)]
  BY ONLY <1>4, <1>7, SameEnd
<1> QED BY <1>3, <1>8

\* One more execution is counted last.
LEMMA CountsOn ==
  ASSUME NEW S, NEW s \in Seq(S), NEW e \in S, NEW f, NEW count, Counting(f, s, count)
  PROVE  \E g : /\ Counting(g, Append(s, e), count)
                /\ g[Len(Append(s, e))] = BothTook(f[Len(s)], e)
<1>1. PICK r : r = Append(s, e)
  OBVIOUS
<1>2. /\ Len(s) \in Nat /\ Len(r) = Len(s) + 1 /\ r[Len(s) + 1] = e
      /\ \A k \in 1..Len(s) : r[k] = s[k]
  BY <1>1, AppendFacts
<1>3. PICK g : g = [n \in 0..Len(r) |-> IF n <= Len(s) THEN f[n] ELSE BothTook(f[Len(s)], e)]
  OBVIOUS
<1>4. /\ f[0] = count /\ \A k \in 1..Len(s) : f[k] = BothTook(f[k - 1], s[k])
  BY <1>2 DEF Counting
<1>5. ASSUME NEW n \in 0..Len(r)
      PROVE  g[n] = IF n = 0 THEN count ELSE BothTook(g[n - 1], r[n])
  <2>1. CASE n = 0
    BY <1>2, <1>3, <1>4, <2>1
  <2>2. CASE n \in 1..Len(s)
    BY <1>2, <1>3, <1>4, <2>2
  <2>3. CASE n = Len(s) + 1
    BY <1>2, <1>3, <2>3
  <2> QED BY <1>2, <2>1, <2>2, <2>3
<1>6. Counting(g, r, count)
  BY <1>3, <1>5 DEF Counting
<1>7. g[Len(r)] = BothTook(f[Len(s)], e)
  BY <1>2, <1>3
<1> QED BY <1>1, <1>6, <1>7

-----------------------------------------------------------------------------
(* The feed's invariant.                                                   *)

Message ==
  [type : {"A"}, ref : Ids, symbol : {Symbol}, side : Sides, qty : Qtys, price : Nat]
    \cup [type : {"E", "X"}, ref : Ids, qty : Qtys]
    \cup [type : {"D"}, ref : Ids]
    \cup [type : {"U"}, ref : Ids, newRef : Ids, qty : Qtys, price : Nat]

\* The call the book is working on is the one the request asked for, and the
\* fills are what it has filled.
Handling ==
  /\ request \in Requests \cup {NoRequest}
  /\ fills \in Seq(Execution)
  /\ request = NoRequest <=> Idle
  /\ call # NoCall =>
       /\ result = "none" /\ call.kind = "limit"
       /\ call.price = request.price /\ call.qty = request.qty
       /\ \/ request.kind = "Enter" /\ call.id = request.id /\ call.side = request.side
          \/ request.kind = "Replace" /\ call.id = request.newId
       /\ call.left + call.filled = call.qty
       /\ \E f : Filling(f, fills) /\ f[Len(fills)] = call.filled
  /\ call = NoCall /\ result # "Ok" => fills = <<>>

\* The reply to a request that succeeds.
Acceptance ==
  CASE request.kind = "Enter" -> Response("Accepted", request.id, request.qty)
    [] request.kind = "Cancel" -> Response("Canceled", request.id, 0)
    [] request.kind = "Reduce" -> Response("Reduced", request.id, request.removed)
    [] request.kind = "Replace" -> Response("Accepted", request.newId, request.qty)

LiveShares == [i \in Ids |-> IF Live(i) THEN orders[i].qty ELSE 0]

\* With the shares of the order that is still trading.
OpenShares ==
  [i \in Ids |-> IF call # NoCall /\ i = call.id THEN call.left
                 ELSE IF Live(i) THEN orders[i].qty ELSE 0]

\* The client's count, and what it will be when it has read the answers.
ToldInv ==
  IF request = NoRequest \/ result \notin {"none", "Ok"} THEN told = LiveShares
  ELSE \E h : Counting(h, fills, Counted(told, Acceptance)) /\ h[Len(fills)] = OpenShares

Replacing == call # NoCall /\ request.kind = "Replace"

\* e is the book, and a replaced order until the feed says what became of it.
Shows(e, ids) ==
  \/ ~Replacing /\ IsView(e, ids)
  \/ /\ Replacing
     /\ \E k \in 1..Len(e) : /\ e[k].id = request.id /\ e[k].side = call.side
                             /\ IsView(RemoveAt(e, k), ids)

\* The messages that are on their way, and those of the request, lead from the
\* replayer's book to the engine's.
StreamInv ==
  /\ pending \in Seq(Message) /\ Published \in Seq(Message)
  /\ \E ids, e : Lists(ids) /\ Leads(books[Symbol], pending \o Published, e) /\ Shows(e, ids)

CleanInv == ReplicaInv /\ anomalies = {}

FeedInv == Handling /\ ToldInv /\ StreamInv /\ CleanInv

-----------------------------------------------------------------------------
(* What is published.                                                      *)

ExecutionsOf(s) == [k \in DOMAIN s |-> OrderExecuted(s[k])]

\* The messages of executions, in their order.
LEMMA ExecutionsAre ==
  ASSUME NEW s \in Seq(Execution)
  PROVE  /\ ExecutionsOf(s) \in Seq(Message)
         /\ s = <<>> => ExecutionsOf(s) = <<>>
         /\ \A e \in Execution :
              /\ OrderExecuted(e) \in Message
              /\ ExecutionsOf(Append(s, e)) = Append(ExecutionsOf(s), OrderExecuted(e))
<1>1. \A e \in Execution : OrderExecuted(e) \in Message
  BY DEF Execution, OrderExecuted, Message
<1>2. ASSUME NEW t \in Seq(Execution)
      PROVE  /\ ExecutionsOf(t) \in Seq(Message) /\ Len(ExecutionsOf(t)) = Len(t)
             /\ Len(t) \in Nat
             /\ \A k \in 1..Len(t) : ExecutionsOf(t)[k] = OrderExecuted(t[k])
  <2>1. /\ Len(t) \in Nat /\ DOMAIN t = 1..Len(t)
        /\ \A k \in 1..Len(t) : t[k] \in Execution
    BY LenProperties, ElementOfSeq
  <2>2. ExecutionsOf(t) \in [1..Len(t) -> Message]
    BY <1>1, <2>1 DEF ExecutionsOf
  <2>3. ExecutionsOf(t) \in Seq(Message) /\ Len(ExecutionsOf(t)) = Len(t)
    BY <2>1, <2>2, SeqDef, LenProperties
  <2> QED BY <2>1, <2>3 DEF ExecutionsOf
<1>3. s = <<>> => ExecutionsOf(s) = <<>>
  BY <1>2, EmptySeq
<1>4. ASSUME NEW e \in Execution
      PROVE  ExecutionsOf(Append(s, e)) = Append(ExecutionsOf(s), OrderExecuted(e))
  <2>1. PICK t : t = Append(s, e)
    OBVIOUS
  <2>2. /\ t \in Seq(Execution) /\ Len(t) = Len(s) + 1 /\ t[Len(s) + 1] = e
        /\ \A k \in 1..Len(s) : t[k] = s[k]
    BY <2>1, AppendFacts
  <2>3. PICK u, v : u = ExecutionsOf(s) /\ v = ExecutionsOf(t)
    OBVIOUS
  <2>4. /\ u \in Seq(Message) /\ Len(u) = Len(s) /\ Len(s) \in Nat
        /\ \A k \in 1..Len(s) : u[k] = OrderExecuted(s[k])
    BY <1>2, <2>3
  <2>5. /\ v \in Seq(Message) /\ Len(v) = Len(t)
        /\ \A k \in 1..Len(t) : v[k] = OrderExecuted(t[k])
    BY <1>2, <2>2, <2>3
  <2>6. PICK w : w = Append(u, OrderExecuted(e))
    OBVIOUS
  <2>7. /\ w \in Seq(Message) /\ Len(w) = Len(u) + 1 /\ w[Len(u) + 1] = OrderExecuted(e)
        /\ \A k \in 1..Len(u) : w[k] = u[k]
    BY <1>1, <2>4, <2>6, AppendFacts
  <2>8. ASSUME NEW k \in 1..Len(v) PROVE v[k] = w[k]
    <3>1. CASE k \in 1..Len(s)
      BY <2>2, <2>4, <2>5, <2>7, <3>1
    <3>2. CASE k = Len(s) + 1
      BY <2>2, <2>4, <2>5, <2>7, <3>2
    <3> QED BY <2>2, <2>4, <2>5, <3>1, <3>2
  <2>9. v = w
    BY <2>2, <2>4, <2>5, <2>7, <2>8, SeqEqual
  <2> QED BY <2>1, <2>3, <2>6, <2>9
<1> QED BY <1>1, <1>2, <1>3, <1>4

\* What is published: the executions, then the outcome.
LEMMA PublishedIs ==
  Published = ExecutionsOf(fills) \o Outcome
  BY DEF Published, Executions, ExecutionsOf

\* What can come after the messages that are pending.
LEMMA JoinIs ==
  ASSUME NEW S, NEW p \in Seq(S), NEW x \in Seq(S)
  PROVE  /\ p \o x \in Seq(S) /\ x \o <<>> = x /\ (p \o x) \o <<>> = p \o x
         /\ \A m \in S : /\ x \o <<m>> = Append(x, m) /\ Append(x, m) \in Seq(S)
                         /\ p \o Append(x, m) = Append(p \o x, m)
<1>1. p \o x \in Seq(S) /\ x \o <<>> = x /\ (p \o x) \o <<>> = p \o x
  BY ConcatProperties, ConcatEmptySeq
<1>2. ASSUME NEW m \in S
      PROVE  /\ x \o <<m>> = Append(x, m) /\ Append(x, m) \in Seq(S)
             /\ p \o Append(x, m) = Append(p \o x, m)
  <2>1. PICK o : o = <<m>>
    OBVIOUS
  <2>2. o \in Seq(S) /\ x \o o = Append(x, m) /\ (p \o x) \o o = Append(p \o x, m)
    BY <1>1, <2>1, AppendIsConcat
  <2>3. (p \o x) \o o = p \o (x \o o)
    <3>1. o \in Seq(S)
      BY <2>2
    <3> QED BY ONLY p \in Seq(S), x \in Seq(S), <3>1, ConcatAssociative
  <2>4. Append(x, m) \in Seq(S)
    BY AppendFacts
  <2> QED BY <2>1, <2>2, <2>3, <2>4
<1> QED BY <1>1, <1>2

-----------------------------------------------------------------------------
(* The feed: one lemma per action.                                         *)

\* Nothing to publish is done, and nothing of the book changes.
LEMMA QuietStream ==
  ASSUME StreamInv, ~Replacing, ~Replacing', UNCHANGED <<orders, fifo, pending, books>>,
         Published' = Published
  PROVE  StreamInv'
<1>1. PICK ids, e : /\ Lists(ids) /\ Leads(books[Symbol], pending \o Published, e)
                    /\ IsView(e, ids)
  BY DEF StreamInv, Shows
<1>2. Lists(ids)'
  BY <1>1, SameLists
<1>3. IsView(e, ids)'
  BY <1>1 DEF IsView, Shown
<1>4. Shows(e, ids)'
  BY <1>3 DEF Shows
<1>5. Leads(books[Symbol], pending \o Published, e)'
  BY <1>1 DEF Leads
<1> QED BY <1>2, <1>4, <1>5 DEF StreamInv

\* One more message is owed, and it makes the book's view the new one.
LEMMA StreamOn ==
  ASSUME StreamInv, UNCHANGED <<pending, books>>, NEW m \in Message,
         Published' = Append(Published, m),
         NEW e, Leads(books[Symbol], pending \o Published, e),
         NEW c, Becomes(e, m, c), Fine(c), NEW r, Lists(r)', Shows(c, r)'
  PROVE  StreamInv'
<1>1. pending \in Seq(Message) /\ Published \in Seq(Message)
  BY DEF StreamInv
<1>2. /\ Published' \in Seq(Message) /\ pending \o Published \in Seq(Message)
      /\ pending \o Published' = Append(pending \o Published, m)
  BY <1>1, JoinIs
<1>3. Leads(books[Symbol], Append(pending \o Published, m), c)
  BY <1>2, LeadsOn
<1>4. Leads(books[Symbol], pending \o Published, c)'
  BY <1>2, <1>3 DEF Leads
<1> QED BY <1>1, <1>2, <1>4 DEF StreamInv

\* How a request finds the engine.
LEMMA Received ==
  ASSUME FeedInv, NEW r \in Requests, Receive(r)
  PROVE  /\ Idle /\ fills = <<>> /\ Published = <<>> /\ ~Replacing /\ told = LiveShares
         /\ request' = r /\ request' # NoRequest /\ fills' = <<>> /\ told' = told
         /\ UNCHANGED <<pending, books, owner, anomalies>> /\ CleanInv'
         /\ Published' = <<>> \o Outcome'
<1>1. /\ request = NoRequest /\ request' = r /\ UNCHANGED <<fills, told, pending>>
      /\ UNCHANGED <<books, owner, anomalies>>
  BY DEF Receive, replica
<1>2. Idle /\ fills = <<>> /\ request' # NoRequest /\ fills' = <<>>
  BY <1>1, NoRequestAssumption DEF FeedInv, Handling, Idle
<1>3. ~Replacing /\ told = LiveShares
  BY <1>1, <1>2 DEF FeedInv, ToldInv, Idle, Replacing
<1>4. CleanInv'
  BY <1>1 DEF FeedInv, CleanInv, ReplicaInv
<1>5. ExecutionsOf(<<>>) = <<>>
  BY ExecutionsAre, EmptySeq
<1>6. Published = <<>>
  <2>1. Outcome = <<>>
    BY <1>2 DEF Outcome, Idle
  <2>2. Published = <<>> \o <<>>
    BY <1>2, <1>5, <2>1, PublishedIs
  <2> QED BY <2>2, EmptySeq, ConcatEmptySeq
<1>7. Published' = <<>> \o Outcome'
  <2>1. Published' = ExecutionsOf(fills') \o Outcome'
    BY DEF Published, Executions, ExecutionsOf
  <2> QED BY <1>2, <1>5, <2>1
<1> QED BY <1>1, <1>2, <1>3, <1>4, <1>6, <1>7

\* Nothing before a message.
LEMMA EmptyJoin ==
  /\ <<>> \o <<>> = <<>>
  /\ \A S : \A m \in S : <<>> \o <<m>> = Append(<<>>, m)
<1>1. <<>> \o <<>> = <<>>
  BY EmptySeq, ConcatEmptySeq
<1>2. ASSUME NEW S, NEW m \in S PROVE <<>> \o <<m>> = Append(<<>>, m)
  BY EmptySeq, JoinIs
<1> QED BY <1>1, <1>2

\* The book turns the request down.
LEMMA RejectFeeds ==
  ASSUME FeedInv, NEW r \in Requests, Receive(r),
         NEW res, res # "none", res # "Ok", Reject(res)
  PROVE  FeedInv'
<1>1. /\ Idle /\ fills = <<>> /\ Published = <<>> /\ ~Replacing /\ told = LiveShares
      /\ request' = r /\ request' # NoRequest /\ fills' = <<>> /\ told' = told
      /\ UNCHANGED <<pending, books, owner, anomalies>> /\ CleanInv'
      /\ Published' = <<>> \o Outcome'
  BY Received
<1>2. call' = NoCall /\ result' = res /\ orders' = orders /\ fifo' = fifo
  BY <1>1 DEF Reject, book, Idle
<1>3. Handling'
  BY <1>1, <1>2, EmptySeq DEF Handling, Idle
<1>4. ToldInv'
  BY <1>1, <1>2 DEF ToldInv, LiveShares, Live
<1>5. StreamInv'
  <2>1. Outcome' = <<>>
    BY <1>2 DEF Outcome
  <2>2. Published' = Published
    BY <1>1, <2>1, EmptyJoin
  <2>3. ~Replacing'
    BY <1>2 DEF Replacing
  <2> QED BY <1>1, <1>2, <2>2, <2>3, QuietStream DEF FeedInv
<1> QED BY <1>1, <1>3, <1>4, <1>5 DEF FeedInv

\* No fill yet: the sum is 0, the count what it is.
LEMMA NoFills ==
  /\ \E f : Filling(f, <<>>) /\ f[Len(<<>>)] = 0
  /\ \A count : \E f : Counting(f, <<>>, count) /\ f[Len(<<>>)] = count
<1>1. Len(<<>>) = 0
  OBVIOUS
<1>2. PICK f : f = [n \in {0} |-> 0]
  OBVIOUS
<1>3. Filling(f, <<>>) /\ f[0] = 0
  BY <1>1, <1>2 DEF Filling
<1>4. ASSUME NEW count
      PROVE  \E g : Counting(g, <<>>, count) /\ g[0] = count
  <2>1. PICK g : g = [n \in {0} |-> count]
    OBVIOUS
  <2>2. Counting(g, <<>>, count) /\ g[0] = count
    BY <1>1, <2>1 DEF Counting
  <2> QED BY <2>2
<1> QED BY <1>1, <1>3, <1>4

\* The book takes a new order and starts to match it.
LEMMA EnterFeeds ==
  ASSUME Inv, FeedInv, NEW i \in Ids \cup {0}, NEW side \in Sides, NEW price \in Prices,
         NEW qty \in 0..MaxQty, HandleEnter(i, side, price, qty)
  PROVE  FeedInv'
<1> DEFINE s == Screen("limit", 0, i, side, price, qty)
<1>1. PICK r : r = [kind |-> "Enter", id |-> i, side |-> side, price |-> price, qty |-> qty]
  OBVIOUS
<1>2. r \in Requests /\ Receive(r) /\ Enter("limit", 0, i, side, price, qty)
  BY <1>1 DEF HandleEnter, Requests
<1>3. s # "none" /\ (s = "Ok" => Validate("limit", i, price, qty) = "Ok")
  BY DEF Screen, Validate
<1>4. CASE s # "Ok"
  <2>1. Reject(s)
    BY <1>2, <1>4 DEF Enter
  <2> QED BY <1>2, <1>3, <1>4, <2>1, RejectFeeds
<1>5. CASE s = "Ok"
  <2>1. /\ Idle /\ fills = <<>> /\ Published = <<>> /\ ~Replacing /\ told = LiveShares
        /\ request' = r /\ request' # NoRequest /\ fills' = <<>> /\ told' = told
        /\ UNCHANGED <<pending, books, owner, anomalies>> /\ CleanInv'
        /\ Published' = <<>> \o Outcome'
    BY <1>2, Received
  <2>2. i \in Ids /\ qty \in Qtys /\ ~Live(i) /\ price \in ValidPrices
    BY <1>3, <1>5, ValidateOk
  <2>3. /\ call' = [kind |-> "limit", actor |-> 0, id |-> i, side |-> side, price |-> price,
                    qty |-> qty, left |-> qty, filled |-> 0]
        /\ orders' = orders /\ fifo' = fifo /\ result' = "none"
    BY <1>2, <1>5, <2>1 DEF Enter, StartMatching, Reject, Idle, book
  <2> HIDE DEF s
  <2>4. call' \in Call
    BY <2>2, <2>3, ParticipantsAssumption, QtyAssumption DEF Call, Qtys, KindNames
  <2>5. call' # NoCall
    BY <2>4, NoCallAssumption
  <2>6. /\ request'.kind = "Enter" /\ request'.id = i /\ request'.side = side
        /\ request'.price = price /\ request'.qty = qty
    BY <1>1, <2>1
  <2>7. /\ call'.kind = "limit" /\ call'.id = i /\ call'.side = side /\ call'.price = price
        /\ call'.qty = qty /\ call'.left = qty /\ call'.filled = 0
    BY <2>3
  <2>8. Handling'
    <3>1. \E f : Filling(f, fills') /\ f[Len(fills')] = call'.filled
      BY <2>1, <2>7, NoFills
    <3>2. call'.left + call'.filled = call'.qty
      BY <2>2, <2>7, QtyAssumption DEF Qtys
    <3>3. ~Idle'
      BY <2>5 DEF Idle
    <3>4. request' \in Requests /\ fills' \in Seq(Execution)
      BY <1>2, <2>1, EmptySeq
    <3> QED BY <2>1, <2>3, <2>5, <2>6, <2>7, <3>1, <3>2, <3>3, <3>4 DEF Handling
  <2>9. ToldInv'
    <3>1. Acceptance' = Response("Accepted", i, qty)
      BY <2>6 DEF Acceptance, Response
    <3>2. Counted(told, Acceptance)' = [LiveShares EXCEPT ![i] = qty]
      BY <2>1, <2>6, <3>1 DEF Counted, Response
    <3>3. OpenShares' = [LiveShares EXCEPT ![i] = qty]
      BY <2>2, <2>3, <2>5, <2>7 DEF OpenShares, LiveShares, Live
    <3>4. \E h : /\ Counting(h, fills', Counted(told, Acceptance)')
                 /\ h[Len(fills')] = OpenShares'
      BY <2>1, <3>2, <3>3, NoFills
    <3> QED BY <2>1, <2>3, <3>4 DEF ToldInv
  <2>10. StreamInv'
    <3>1. Outcome' = <<>>
      BY <2>3 DEF Outcome
    <3>2. Published' = Published
      BY <2>1, <3>1, EmptyJoin
    <3>3. ~Replacing'
      BY <2>6 DEF Replacing
    <3> QED BY <2>1, <2>3, <3>2, <3>3, QuietStream DEF FeedInv
  <2> QED BY <2>1, <2>8, <2>9, <2>10 DEF FeedInv
<1> QED BY <1>4, <1>5

\* n shares of a resting order go at once, and the feed is told in one message.
LEMMA TakenFeeds ==
  ASSUME Inv, FeedInv, NEW r \in Requests, Receive(r), NEW i \in Resting,
         NEW n \in 1..orders[i].qty, IF n = orders[i].qty THEN Unlink(i) ELSE Shrink(i, n),
         call' = NoCall, result' = "Ok",
         NEW m \in Message, Outcome' = <<m>>, m.ref = i,
         \/ m.type = "X" /\ m.qty = n
         \/ m.type = "D" /\ n = orders[i].qty
  PROVE  StreamInv'
<1>1. /\ Idle /\ fills = <<>> /\ Published = <<>> /\ ~Replacing
      /\ UNCHANGED <<pending, books>> /\ Published' = <<>> \o Outcome'
  BY Received
<1>2. PICK ids, e : /\ Lists(ids) /\ Leads(books[Symbol], pending \o Published, e)
                    /\ IsView(e, ids)
  BY <1>1 DEF FeedInv, StreamInv, Shows
<1>3. pending \in Seq(Message) /\ Published \in Seq(Message) /\ BookInv
  BY DEF FeedInv, StreamInv, Inv, TypeOK, BookInv
<1>4. Fine(e)
  <2>1. pending \o Published \in Seq(Message)
    BY <1>3, JoinIs
  <2> QED BY <1>2, <2>1, LeadsIs
<1>5. PICK k \in 1..Len(ids) : ids[k] = i
  BY <1>2, <1>3, ListsIs
<1>6. /\ k \in 1..Len(e) /\ e[k].id = i /\ n \in 1..e[k].qty
      /\ \E s : Lists(s)' /\ IsView(Less(e, k, n), s)'
  <2>1. /\ ids[k] \in Resting /\ n \in 1..orders[ids[k]].qty
        /\ IF n = orders[ids[k]].qty THEN Unlink(ids[k]) ELSE Shrink(ids[k], n)
    BY <1>5
  <2> QED BY <1>2, <1>3, <1>4, <1>5, <2>1, LessView
<1>7. PICK s : Lists(s)' /\ IsView(Less(e, k, n), s)'
  BY <1>6
<1>8. PICK c : c = Less(e, k, n)
  OBVIOUS
<1>9. Becomes(e, m, c)
  <2>1. CASE m.type = "X" /\ m.qty = n
    BY <1>6, <1>8, <2>1 DEF Becomes, Reduces
  <2>2. CASE m.type = "D" /\ n = orders[i].qty
    <3>1. e[k].qty = orders[i].qty
      <4>1. e[k] = Shown(i)
        BY <1>2, <1>5 DEF IsView
      <4> QED BY <4>1 DEF Shown, Replica!Resting
    <3>2. c = RemoveAt(e, k)
      BY <1>8, <2>2, <3>1 DEF Less
    <3> QED BY <1>6, <2>2, <3>2 DEF Becomes, Deletes
  <2> QED BY <2>1, <2>2
<1>10. Fine(c)
  BY <1>4, <1>6, <1>8, LessFine
<1>11. Shows(c, s)'
  BY <1>7, <1>8 DEF Shows, Replacing
<1>12. Published' = Append(Published, m)
  BY <1>1, EmptyJoin
<1> QED BY <1>1, <1>2, <1>7, <1>9, <1>10, <1>11, <1>12, StreamOn DEF FeedInv

\* Handling, when a request has been dealt with by one step.
LEMMA DoneHandling ==
  ASSUME FeedInv, NEW r \in Requests, Receive(r), call' = NoCall, result' = "Ok"
  PROVE  Handling'
<1>1. request' = r /\ request' # NoRequest /\ fills' = <<>>
  BY Received
<1> QED BY <1>1, EmptySeq DEF Handling, Idle

\* One lemma for each action: it keeps the feed's invariant. A cancel.
LEMMA CancelFeeds ==
  ASSUME Inv, FeedInv, NEW i \in Ids, HandleCancel(i)
  PROVE  FeedInv'
<1>1. PICK r : r = [kind |-> "Cancel", id |-> i]
  OBVIOUS
<1>2. r \in Requests /\ Receive(r) /\ Cancel(i)
  BY <1>1 DEF HandleCancel, Requests
<1>3. CASE ~Live(i)
  <2>1. Reject("RejectedUnknownId")
    BY <1>2, <1>3 DEF Cancel
  <2> QED BY <1>2, <2>1, RejectFeeds
<1>4. CASE Live(i)
  <2>1. /\ Idle /\ told = LiveShares /\ request' = r /\ request' # NoRequest /\ fills' = <<>>
        /\ told' = told /\ CleanInv'
    BY <1>2, Received
  <2>2. Unlink(i) /\ result' = "Ok" /\ call' = NoCall
    BY <1>2, <1>4, <2>1 DEF Cancel, Idle
  <2>3. /\ i \in Resting /\ BookInv /\ orders[i] \in Order
        /\ orders[i].qty \in Nat /\ orders[i].qty > 0
    BY <1>4, QtyAssumption DEF Inv, TypeOK, BookInv, BookTypeOK, Live, Resting, Order, Qtys
  <2>4. request'.kind = "Cancel" /\ request'.id = i
    BY <1>1, <2>1
  <2>5. Handling'
    BY <1>2, <2>2, DoneHandling
  <2>6. ToldInv'
    <3>1. Counted(told, Acceptance)' = [LiveShares EXCEPT ![i] = 0]
      BY <2>1, <2>4 DEF Acceptance, Counted, Response
    <3>2. OpenShares' = [LiveShares EXCEPT ![i] = 0]
      <4>1. Resting' = Resting \ {i} /\ \A a \in Resting \ {i} : orders'[a] = orders[a]
        BY <2>2, <2>3, UnlinkPlaces
      <4> QED BY <2>2, <4>1 DEF OpenShares, LiveShares, Live, Resting
    <3>3. \E h : /\ Counting(h, fills', Counted(told, Acceptance)')
                 /\ h[Len(fills')] = OpenShares'
      BY <2>1, <3>1, <3>2, NoFills
    <3> QED BY <2>1, <2>2, <3>3 DEF ToldInv
  <2>7. StreamInv'
    <3>1. PICK m : m = OrderDelete(i)
      OBVIOUS
    <3>2. m \in Message /\ m.type = "D" /\ m.ref = i
      BY <3>1 DEF OrderDelete, Message
    <3>3. Outcome' = <<m>>
      BY <2>2, <2>4, <3>1 DEF Outcome
    <3>4. PICK n : n = orders[i].qty
      OBVIOUS
    <3>5. n \in 1..orders[i].qty /\ IF n = orders[i].qty THEN Unlink(i) ELSE Shrink(i, n)
      BY <2>2, <2>3, <3>4
    <3> QED BY <1>2, <2>2, <2>3, <3>2, <3>3, <3>4, <3>5, TakenFeeds
  <2> QED BY <2>1, <2>5, <2>6, <2>7 DEF FeedInv
<1> QED BY <1>3, <1>4

\* A reduce, which publishes what was taken and not what was asked for.
LEMMA ReduceFeeds ==
  ASSUME Inv, FeedInv, NEW i \in Ids, NEW qty \in 0..MaxQty, HandleReduce(i, qty)
  PROVE  FeedInv'
<1>1. PICK n, r : /\ n = IF Live(i) THEN Min2(qty, orders[i].qty) ELSE 0
                  /\ r = [kind |-> "Reduce", id |-> i, removed |-> n]
  OBVIOUS
<1>2. Receive(r) /\ Consume(i, qty, "canceled")
  BY <1>1 DEF HandleReduce
<1>3. Live(i) => /\ i \in Resting /\ BookInv /\ orders[i] \in Order
                 /\ orders[i].qty \in Nat /\ orders[i].qty > 0 /\ orders[i].qty <= MaxQty
  BY QtyAssumption DEF Inv, TypeOK, BookInv, BookTypeOK, Live, Resting, Order, Qtys
<1>4. n \in 0..MaxQty
  BY <1>1, <1>3, QtyAssumption DEF Min2
<1>5. r \in Requests
  BY <1>1, <1>4 DEF Requests
<1>6. CASE ~Live(i) \/ qty = 0
  <2>1. PICK res : res \in {"RejectedUnknownId", "RejectedBadQty"} /\ Reject(res)
    BY <1>2, <1>6 DEF Consume
  <2> QED BY <1>2, <1>5, <2>1, RejectFeeds
<1>7. CASE Live(i) /\ qty # 0
  <2>1. /\ Idle /\ told = LiveShares /\ request' = r /\ request' # NoRequest /\ fills' = <<>>
        /\ told' = told /\ CleanInv'
    BY <1>2, <1>5, Received
  <2>2. /\ IF n = orders[i].qty THEN Unlink(i) ELSE Shrink(i, n)
        /\ result' = "Ok" /\ call' = NoCall
    BY <1>1, <1>2, <1>7, <2>1 DEF Consume, Idle
  <2>3. n \in 1..orders[i].qty
    BY <1>1, <1>3, <1>7, QtyAssumption DEF Min2
  <2>4. request'.kind = "Reduce" /\ request'.id = i /\ request'.removed = n
    BY <1>1, <2>1
  <2>5. Handling'
    BY <1>2, <1>5, <2>2, DoneHandling
  <2>6. ToldInv'
    <3>1. Counted(told, Acceptance)' = [LiveShares EXCEPT ![i] = @ - n]
      BY <2>1, <2>4 DEF Acceptance, Counted, Response
    <3>2. LiveShares[i] = orders[i].qty
      BY <1>7 DEF LiveShares
    <3>3. OpenShares' = [LiveShares EXCEPT ![i] = @ - n]
      <4>1. CASE n = orders[i].qty
        <5>1. Resting' = Resting \ {i} /\ \A a \in Resting \ {i} : orders'[a] = orders[a]
          BY <1>3, <1>7, <2>2, <4>1, UnlinkPlaces
        <5>2. OpenShares' = [LiveShares EXCEPT ![i] = 0]
          BY <2>2, <5>1 DEF OpenShares, LiveShares, Live, Resting
        <5>3. orders[i].qty - n = 0
          BY <1>3, <1>7, <4>1
        <5> QED BY <3>2, <5>2, <5>3 DEF LiveShares
      <4>2. CASE n # orders[i].qty
        <5>1. n \in Nat /\ n < orders[i].qty /\ Shrink(i, n)
          BY <1>3, <1>7, <2>2, <2>3, <4>2
        <5>2. /\ Resting' = Resting /\ orders'[i] = [orders[i] EXCEPT !.qty = @ - n]
              /\ \A a \in Resting \ {i} : orders'[a] = orders[a]
          BY <1>3, <1>7, <5>1, ShrinkPlaces
        <5>3. orders'[i].qty = orders[i].qty - n
          BY <1>3, <1>7, <5>2 DEF Order
        <5>4. OpenShares' = [LiveShares EXCEPT ![i] = orders[i].qty - n]
          BY <1>3, <1>7, <2>2, <5>2, <5>3 DEF OpenShares, LiveShares, Live, Resting
        <5> QED BY <3>2, <5>4 DEF LiveShares
      <4> QED BY <4>1, <4>2
    <3>4. \E h : /\ Counting(h, fills', Counted(told, Acceptance)')
                 /\ h[Len(fills')] = OpenShares'
      BY <2>1, <3>1, <3>3, NoFills
    <3> QED BY <2>1, <2>2, <3>4 DEF ToldInv
  <2>7. StreamInv'
    <3>1. PICK m : m = OrderCancel(i, n)
      OBVIOUS
    <3>2. m \in Message /\ m.type = "X" /\ m.ref = i /\ m.qty = n
      BY <1>3, <1>7, <2>3, <3>1, QtyAssumption DEF OrderCancel, Message, Qtys
    <3>3. Outcome' = <<m>>
      BY <2>2, <2>4, <3>1 DEF Outcome
    <3> QED BY <1>2, <1>3, <1>5, <1>7, <2>2, <2>3, <3>2, <3>3, TakenFeeds
  <2> QED BY <2>1, <2>5, <2>6, <2>7 DEF FeedInv
<1> QED BY <1>6, <1>7

\* Nothing new is owed, and what was owed still leads to the book.
LEMMA StreamStays ==
  ASSUME StreamInv, UNCHANGED <<pending, books>>, Published' = Published,
         NEW e, Leads(books[Symbol], pending \o Published, e), NEW r, Lists(r)', Shows(e, r)'
  PROVE  StreamInv'
<1>1. Leads(books[Symbol], pending \o Published, e)'
  BY DEF Leads
<1> QED BY <1>1 DEF StreamInv

\* The old order is out of the book; the feed keeps it until the request is over.
LEMMA ReplaceFeeds ==
  ASSUME Inv, FeedInv, NEW i \in Ids, NEW new \in Ids \cup {0}, NEW price \in Prices,
         NEW qty \in 0..MaxQty, HandleReplace(i, new, price, qty)
  PROVE  FeedInv'
<1> DEFINE v == ValidateReplace(i, new, price, qty)
           o == orders[i]
<1>1. PICK r : r = [kind |-> "Replace", id |-> i, newId |-> new, price |-> price, qty |-> qty]
  OBVIOUS
<1>2. r \in Requests /\ Receive(r) /\ Replace(i, new, price, qty)
  BY <1>1 DEF HandleReplace, Requests
<1>3. v # "none"
  BY DEF ValidateReplace, Validate
<1>4. CASE v # "Ok"
  <2>1. Reject(v)
    BY <1>2, <1>4 DEF Replace
  <2> QED BY <1>2, <1>3, <1>4, <2>1, RejectFeeds
<1>5. CASE v = "Ok"
  <2>1. /\ Idle /\ fills = <<>> /\ Published = <<>> /\ ~Replacing /\ told = LiveShares
        /\ request' = r /\ request' # NoRequest /\ fills' = <<>> /\ told' = told
        /\ UNCHANGED <<pending, books, owner, anomalies>> /\ CleanInv'
        /\ Published' = <<>> \o Outcome'
    BY <1>2, Received
  <2>2. i \in Resting
    BY <1>5 DEF ValidateReplace, Live, Resting
  <2>3. new \in Ids /\ qty \in Qtys /\ price \in ValidPrices
    BY <1>5, QtyAssumption DEF ValidateReplace, Validate, Qtys
  <2>4. /\ call' = [kind |-> "limit", actor |-> o.participant, id |-> new, side |-> o.side,
                    price |-> price, qty |-> qty, left |-> qty, filled |-> 0]
        /\ Unlink(i) /\ result' = "none"
    BY <1>2, <1>5, <2>1, ReplaceIs DEF ReplacedAtOnce, StartMatching, Idle, Inv, TypeOK
  <2>5. o \in Order /\ BookInv
    BY <2>2 DEF Inv, TypeOK, BookTypeOK, BookInv, Resting
  <2> HIDE DEF v
  <2>6. call' \in Call
    BY <2>3, <2>4, <2>5, QtyAssumption DEF Call, Order, Qtys, KindNames
  <2>7. call' # NoCall
    BY <2>6, NoCallAssumption
  <2>8. /\ request'.kind = "Replace" /\ request'.id = i /\ request'.newId = new
        /\ request'.price = price /\ request'.qty = qty
    BY <1>1, <2>1
  <2>9. /\ call'.kind = "limit" /\ call'.id = new /\ call'.side = o.side /\ call'.price = price
        /\ call'.qty = qty /\ call'.left = qty /\ call'.filled = 0
    BY <2>4
  <2>10. Handling'
    <3>1. \E f : Filling(f, fills') /\ f[Len(fills')] = call'.filled
      BY <2>1, <2>9, NoFills
    <3>2. call'.left + call'.filled = call'.qty
      BY <2>3, <2>9, QtyAssumption DEF Qtys
    <3>3. ~Idle'
      BY <2>7 DEF Idle
    <3>4. request' \in Requests /\ fills' \in Seq(Execution)
      BY <1>2, <2>1, EmptySeq
    <3> QED BY <2>1, <2>4, <2>7, <2>8, <2>9, <3>1, <3>2, <3>3, <3>4 DEF Handling
  <2>11. Resting' = Resting \ {i} /\ \A a \in Resting \ {i} : orders'[a] = orders[a]
    BY <2>2, <2>4, <2>5, UnlinkPlaces
  <2>12. ToldInv'
    <3>1. Acceptance' = Response("Accepted", new, qty)
      BY <2>8 DEF Acceptance, Response
    <3>2. Counted(told, Acceptance)' = [[LiveShares EXCEPT ![i] = 0] EXCEPT ![new] = qty]
      BY <2>1, <2>8, <3>1 DEF Counted, Response
    <3>3. OpenShares' = [[LiveShares EXCEPT ![i] = 0] EXCEPT ![new] = qty]
      BY <2>3, <2>7, <2>9, <2>11 DEF OpenShares, LiveShares, Live, Resting
    <3>4. \E h : /\ Counting(h, fills', Counted(told, Acceptance)')
                 /\ h[Len(fills')] = OpenShares'
      BY <2>1, <3>2, <3>3, NoFills
    <3> QED BY <2>1, <2>4, <3>4 DEF ToldInv
  <2>13. StreamInv'
    <3>1. Outcome' = <<>>
      BY <2>4 DEF Outcome
    <3>2. Published' = Published
      BY <2>1, <3>1, EmptyJoin
    <3>3. PICK ids, e : /\ Lists(ids) /\ Leads(books[Symbol], pending \o Published, e)
                        /\ IsView(e, ids)
      BY <2>1 DEF FeedInv, StreamInv, Shows
    <3>4. Fine(e)
      <4>1. pending \o Published \in Seq(Message)
        BY JoinIs DEF FeedInv, StreamInv
      <4> QED BY <3>3, <4>1, LeadsIs
    <3>5. PICK k \in 1..Len(ids) : ids[k] = i
      BY <2>2, <2>5, <3>3, ListsIs
    <3>6. k \in 1..Len(e) /\ e[k] = Shown(i)
      BY <3>3, <3>5 DEF IsView
    <3>7. e[k].id = i /\ e[k].side = o.side
      BY <3>6 DEF Shown, Replica!Resting
    <3>8. PICK s : s = RemoveAt(ids, k)
      OBVIOUS
    <3>9. Lists(s)' /\ IsView(RemoveAt(e, k), s)'
      BY <2>2, <2>4, <2>5, <3>3, <3>4, <3>5, <3>8, UnlinkView
    <3>10. Shows(e, s)'
      BY <2>7, <2>8, <2>9, <3>6, <3>7, <3>9 DEF Shows, Replacing
    <3> QED BY <2>1, <3>2, <3>3, <3>9, <3>10, StreamStays DEF FeedInv
  <2> QED BY <2>1, <2>10, <2>12, <2>13 DEF FeedInv
<1> QED BY <1>4, <1>5

\* What a fill does, in one place.
LEMMA FillFacts ==
  ASSUME Inv, NEW p \in ValidPrices, Fill(p)
  PROVE  \E i \in Resting, n \in Qtys :
           /\ n \in 1..orders[i].qty /\ IF n = orders[i].qty THEN Unlink(i) ELSE Shrink(i, n)
           /\ exec' = [resting |-> i, aggressor |-> call.id, price |-> p, qty |-> n]
           /\ exec' \in Execution /\ call \in Call /\ call # NoCall
           /\ n <= call.left
           /\ call' = [call EXCEPT !.left = @ - n, !.filled = @ + n]
           /\ result' = result
<1>1. PICK i, n : i = Front1(p) /\ n = Min2(call.left, orders[i].qty)
  OBVIOUS
<1>2. call # NoCall /\ call \in Call /\ call.left > 0 /\ p \in levels[Opposite(call.side)]
  BY DEF Fill, CanMatch, IsBest, Inv, TypeOK
<1>3. Opposite(call.side) \in Sides
  BY <1>2 DEF Call, Opposite, Sides
<1>4. i \in Resting
  BY <1>1, <1>2, <1>3, HeadIsResting DEF Inv, TypeOK, BookInv, Front1
<1>5. orders[i].qty \in Qtys /\ i \in Ids
  BY <1>4 DEF Inv, TypeOK, BookTypeOK, Resting, Order
<1>6. call.left \in 0..MaxQty /\ call.id \in Ids
  BY <1>2 DEF Call
<1>7. n \in Qtys /\ n \in 1..orders[i].qty /\ n <= call.left
  BY <1>1, <1>2, <1>5, <1>6, QtyAssumption DEF Qtys, Min2
<1>8. /\ IF n = orders[i].qty THEN Unlink(i) ELSE Shrink(i, n)
      /\ call' = [call EXCEPT !.left = @ - n, !.filled = @ + n]
      /\ exec' = [resting |-> i, aggressor |-> call.id, price |-> p, qty |-> n]
      /\ result' = result
  BY <1>1 DEF Fill
<1>9. exec' \in Execution
  BY <1>5, <1>6, <1>7, <1>8 DEF Execution
<1> QED BY <1>2, <1>4, <1>7, <1>8, <1>9

\* What is published while the book is matching.
LEMMA PublishedSoFar ==
  ASSUME result # "Ok", fills \in Seq(Execution)
  PROVE  Published = ExecutionsOf(fills) /\ Outcome = <<>>
<1>1. Outcome = <<>>
  BY DEF Outcome
<1>2. ExecutionsOf(fills) \in Seq(Message)
  BY ExecutionsAre
<1> QED BY <1>1, <1>2, PublishedIs, ConcatEmptySeq

\* Shares of order i go to the aggressor: the feed's book loses them too.
LEMMA FillStream ==
  ASSUME Inv, FeedInv, UNCHANGED <<request, pending, books>>,
         NEW i \in Resting, NEW n \in 1..orders[i].qty,
         IF n = orders[i].qty THEN Unlink(i) ELSE Shrink(i, n),
         call # NoCall, call' # NoCall, call'.side = call.side,
         NEW m \in Message, m.type = "E", m.ref = i, m.qty = n,
         Published' = Append(Published, m)
  PROVE  StreamInv'
<1>1. PICK ids, e : /\ Lists(ids) /\ Leads(books[Symbol], pending \o Published, e)
                    /\ Shows(e, ids)
  BY DEF FeedInv, StreamInv
<1>2. BookInv
  BY DEF Inv, TypeOK, BookInv
<1>3. Fine(e)
  <2>1. pending \o Published \in Seq(Message)
    BY JoinIs DEF FeedInv, StreamInv
  <2> QED BY <1>1, <2>1, LeadsIs
<1>4. PICK j \in 1..Len(ids) : ids[j] = i
  BY <1>1, <1>2, ListsIs
<1>5. /\ ids[j] \in Resting /\ n \in 1..orders[ids[j]].qty
      /\ IF n = orders[ids[j]].qty THEN Unlink(ids[j]) ELSE Shrink(ids[j], n)
  BY <1>4
<1>6. CASE ~Replacing
  <2>1. IsView(e, ids)
    BY <1>1, <1>6 DEF Shows
  <2>2. /\ j \in 1..Len(e) /\ e[j].id = i /\ n \in 1..e[j].qty
        /\ \E s : Lists(s)' /\ IsView(Less(e, j, n), s)'
    BY <1>1, <1>2, <1>3, <1>4, <1>5, <2>1, LessView
  <2>3. PICK s : Lists(s)' /\ IsView(Less(e, j, n), s)'
    BY <2>2
  <2>4. PICK c : c = Less(e, j, n)
    OBVIOUS
  <2>5. Becomes(e, m, c)
    BY <2>2, <2>4 DEF Becomes, Reduces
  <2>6. Fine(c)
    BY <1>3, <2>2, <2>4, LessFine
  <2>7. Shows(c, s)'
    BY <1>6, <2>3, <2>4 DEF Shows, Replacing
  <2> QED BY <1>1, <2>3, <2>5, <2>6, <2>7, StreamOn DEF FeedInv
<1>7. CASE Replacing
  <2>1. PICK k \in 1..Len(e) : /\ e[k].id = request.id /\ e[k].side = call.side
                               /\ IsView(RemoveAt(e, k), ids)
    BY <1>1, <1>7 DEF Shows
  <2>2. PICK r : r = RemoveAt(e, k)
    OBVIOUS
  <2>3. Fine(r) /\ IsWithout(r, e, k) /\ IsView(r, ids)
    BY <1>3, <2>1, <2>2, OutIs
  <2>4. /\ j \in 1..Len(r) /\ r[j].id = i /\ n \in 1..r[j].qty
        /\ \E s : Lists(s)' /\ IsView(Less(r, j, n), s)'
    BY <1>1, <1>2, <1>4, <1>5, <2>3, LessView
  <2>5. PICK s : Lists(s)' /\ IsView(Less(r, j, n), s)'
    BY <2>4
  <2>6. PICK c : c = Less(e, From(k, j), n)
    OBVIOUS
  <2>7. From(k, j) \in 1..Len(e) /\ r[j] = e[From(k, j)]
    BY <2>3, <2>4 DEF IsWithout
  <2>8. Becomes(e, m, c)
    BY <2>4, <2>6, <2>7 DEF Becomes, Reduces
  <2>9. Fine(c)
    BY <1>3, <2>4, <2>6, <2>7, LessFine
  <2>10. PICK h \in 1..Len(c) : /\ c[h].id = e[k].id /\ c[h].side = e[k].side
                                /\ RemoveAt(c, h) = Less(r, j, n)
    BY <1>3, <2>2, <2>4, <2>6, LessSwap
  <2>11. Shows(c, s)'
    BY <1>7, <2>1, <2>5, <2>10 DEF Shows, Replacing
  <2> QED BY <1>1, <2>5, <2>8, <2>9, <2>11, StreamOn DEF FeedInv
<1> QED BY <1>6, <1>7

\* A trade: the resting order shrinks or leaves on the feed too.
LEMMA FillFeeds ==
  ASSUME Inv, FeedInv, NEW p \in ValidPrices, Fill(p),
         fills' = IF exec' = NoExec THEN fills ELSE Append(fills, exec'),
         UNCHANGED <<request, told, pending, replica>>
  PROVE  FeedInv'
<1>1. PICK i \in Resting, n \in Qtys :
           /\ n \in 1..orders[i].qty /\ IF n = orders[i].qty THEN Unlink(i) ELSE Shrink(i, n)
           /\ exec' = [resting |-> i, aggressor |-> call.id, price |-> p, qty |-> n]
           /\ exec' \in Execution /\ call \in Call /\ call # NoCall
           /\ n <= call.left
           /\ call' = [call EXCEPT !.left = @ - n, !.filled = @ + n]
           /\ result' = result
  BY FillFacts
<1>2. PICK x : x = exec'
  OBVIOUS
<1>3. x \in Execution /\ x.resting = i /\ x.aggressor = call.id /\ x.qty = n
  BY <1>1, <1>2
<1>4. fills' = Append(fills, x) /\ fills \in Seq(Execution)
  BY <1>2, <1>3, NoExecAssumption DEF FeedInv, Handling
<1>5. /\ call'.kind = call.kind /\ call'.price = call.price /\ call'.qty = call.qty
      /\ call'.id = call.id /\ call'.side = call.side /\ call'.left = call.left - n
      /\ call'.filled = call.filled + n
  BY <1>1 DEF Call
<1>6. call' # NoCall
  BY FillIs
<1>7. result = "none" /\ request # NoRequest /\ n \in Int
  BY <1>1, QtyAssumption DEF FeedInv, Handling, Idle, Qtys
<1>8. BookInv /\ ~Live(call.id) /\ i \in Ids /\ orders[i] \in Order
  BY <1>1 DEF Inv, TypeOK, BookInv, BookTypeOK, CallInv, Resting
<1>9. Handling'
  <2>1. fills' \in Seq(Execution)
    BY <1>3, <1>4, AppendFacts
  <2>2. PICK f : Filling(f, fills) /\ f[Len(fills)] = call.filled
    BY <1>1 DEF FeedInv, Handling
  <2>3. \E g : Filling(g, fills') /\ g[Len(fills')] = call'.filled
    BY <1>3, <1>4, <1>5, <2>2, FillsOn
  <2>4. call'.left + call'.filled = call'.qty
    <3>1. /\ call.left \in Int /\ call.filled \in Int
          /\ call.left + call.filled = call.qty
      BY <1>1, QtyAssumption DEF Call, FeedInv, Handling
    <3> QED BY <1>5, <1>7, <3>1
  <2>5. ~Idle' /\ ~Idle
    BY <1>1, <1>6 DEF Idle
  <2> QED BY <1>1, <1>5, <1>6, <1>7, <2>1, <2>3, <2>4, <2>5 DEF FeedInv, Handling
<1>10. ToldInv'
  <2>1. PICK h : Counting(h, fills, Counted(told, Acceptance)) /\ h[Len(fills)] = OpenShares
    BY <1>7 DEF FeedInv, ToldInv
  <2>2. Counted(told, Acceptance)' = Counted(told, Acceptance)
    BY DEF Counted, Acceptance
  <2>3. \E g : /\ Counting(g, fills', Counted(told, Acceptance))
               /\ g[Len(fills')] = BothTook(OpenShares, x)
    BY <1>3, <1>4, <2>1, CountsOn
  <2>4. BothTook(OpenShares, x) = OpenShares'
    <3>1. call.id \in Ids /\ i # call.id
      BY <1>1, <1>8 DEF Call, Live, Resting
    <3>2. OpenShares[call.id] = call.left /\ OpenShares[i] = orders[i].qty
      BY <1>1, <1>8, <3>1 DEF OpenShares, Live, Resting
    <3>3. BothTook(OpenShares, x) = [[OpenShares EXCEPT ![call.id] = call.left - n]
                                        EXCEPT ![i] = orders[i].qty - n]
      BY <1>3, <1>8, <3>1, <3>2 DEF BothTook, Took, OpenShares
    <3>4. /\ \A a \in Ids \ {i} : orders'[a] = orders[a]
          /\ IF n = orders[i].qty THEN orders'[i] = NoOrder
             ELSE orders'[i] # NoOrder /\ orders'[i].qty = orders[i].qty - n
      <4>1. CASE n = orders[i].qty
        BY <1>1, <1>8, <4>1 DEF Unlink, BookInv, BookTypeOK
      <4>2. CASE n # orders[i].qty
        <5>1. orders' = [orders EXCEPT ![i].qty = @ - n]
          BY <1>1, <4>2 DEF Shrink
        <5>2. orders[i].qty - n \in Qtys /\ orders[i].qty \in Nat
          BY <1>1, <1>7, <1>8, <4>2, QtyAssumption DEF Order, Qtys
        <5>3. orders'[i] = [orders[i] EXCEPT !.qty = orders[i].qty - n]
          BY <1>8, <5>1 DEF BookInv, BookTypeOK
        <5>4. orders'[i] \in Order /\ orders'[i].qty = orders[i].qty - n
          BY <1>8, <5>2, <5>3 DEF Order
        <5> QED BY <1>8, <4>2, <5>1, <5>4, NoOrderAssumption DEF BookInv, BookTypeOK
      <4> QED BY <4>1, <4>2
    <3>5. n = orders[i].qty => orders[i].qty - n = 0
      BY <1>7
    <3>6. OpenShares' = [a \in Ids |-> IF a = i THEN orders[i].qty - n
                                       ELSE IF a = call.id THEN call.left - n
                                       ELSE IF Live(a) THEN orders[a].qty ELSE 0]
      BY <1>5, <1>6, <3>1, <3>4, <3>5 DEF OpenShares, Live
    <3> QED BY <1>1, <3>1, <3>3, <3>6 DEF OpenShares
  <2> QED BY <1>1, <1>7, <2>2, <2>3, <2>4 DEF ToldInv
<1>11. StreamInv'
  <2>1. PICK m : m = OrderExecuted(x)
    OBVIOUS
  <2>2. m \in Message /\ m.type = "E" /\ m.ref = i /\ m.qty = n
    BY <1>3, <2>1, ExecutionsAre, EmptySeq DEF OrderExecuted
  <2>3. fills' \in Seq(Execution)
    BY <1>9 DEF Handling
  <2>4. Published = ExecutionsOf(fills)
    BY <1>4, <1>7, PublishedSoFar
  <2>5. Published' = ExecutionsOf(fills')
    <3>1. Outcome' = <<>>
      BY <1>1, <1>7 DEF Outcome
    <3>2. Published' = ExecutionsOf(fills') \o Outcome'
      BY DEF Published, Executions, ExecutionsOf
    <3>3. ExecutionsOf(fills') \in Seq(Message)
      BY <2>3, ExecutionsAre
    <3> QED BY <3>1, <3>2, <3>3, ConcatEmptySeq
  <2>6. Published' = Append(Published, m)
    BY <1>3, <1>4, <2>1, <2>4, <2>5, ExecutionsAre
  <2> QED BY <1>1, <1>5, <1>6, <2>2, <2>6, FillStream DEF replica
<1>12. CleanInv'
  BY DEF FeedInv, CleanInv, ReplicaInv, replica
<1> QED BY <1>9, <1>10, <1>11, <1>12 DEF FeedInv

\* ViewFine, of the next state.
LEMMA ViewFineNext ==
  BookInv' /\ NeverCrossed' =>
    \A ids, e : Lists(ids)' /\ e \in Seq(FeedOrder) /\ IsView(e, ids)' => Fine(e)
<1>1. ViewRight'
  BY ViewFine, PTL
<1> QED BY <1>1 DEF ViewRight

\* What the feed says of an order that has been matched.
LEMMA OutcomeIs ==
  ASSUME Inv, FeedInv, Finish, UNCHANGED <<request, fills>>
  PROVE  /\ request.kind = "Enter" => Outcome' =
              IF call.left > 0
              THEN <<AddOrder(request.id, request.side, call.left, request.price)>> ELSE <<>>
         /\ request.kind = "Replace" => Outcome' =
              IF call.left > 0
              THEN <<OrderReplace(request.id, request.newId, call.left, request.price)>>
              ELSE <<OrderDelete(request.id)>>
<1>1. call \in Call /\ call # NoCall /\ result' = "Ok"
  BY DEF Finish, MatchOver, Inv, TypeOK
<1>2. PICK f : Filling(f, fills) /\ f[Len(fills)] = call.filled
  BY <1>1 DEF FeedInv, Handling
<1>3. Filled = call.filled
  BY <1>2, FilledIs DEF FeedInv, Handling
<1>4. call.left + call.filled = call.qty /\ call.qty = request.qty
  BY <1>1 DEF FeedInv, Handling
<1>5. call.left \in Int /\ call.filled \in Int
  BY <1>1, QtyAssumption DEF Call
<1>6. Displayed = call.left
  <2>1. Displayed = call.qty - call.filled
    BY <1>3, <1>4 DEF Displayed
  <2> QED BY <1>4, <1>5, <2>1
<1>7. Filled' = Filled
  BY DEF Filled
<1>8. Displayed' = call.left
  BY <1>6, <1>7 DEF Displayed
<1> QED BY <1>1, <1>8 DEF Outcome

\* A limit order that is through with matching rests or is gone.
LEMMA FinishIs ==
  ASSUME Inv, FeedInv, Finish
  PROVE  /\ call \in Call /\ call # NoCall /\ ~Live(call.id) /\ BookInv
         /\ call' = NoCall /\ exec' = NoExec /\ result' = "Ok" /\ result = "none"
         /\ request # NoRequest
         /\ IF call.left > 0
            THEN /\ call.left \in Qtys /\ call.price \in ValidPrices
                 /\ orders'[call.id] # NoOrder
                 /\ Rest(call.id, call.side, call.price, call.left, call.actor)
            ELSE call.left = 0 /\ UNCHANGED book
<1>1. /\ call \in Call /\ call # NoCall /\ ~Live(call.id) /\ BookInv
      /\ call' = NoCall /\ exec' = NoExec /\ result' = "Ok"
  BY DEF Finish, MatchOver, Inv, TypeOK, CallInv, BookInv
<1>2. result = "none" /\ request # NoRequest /\ call.kind = "limit"
  BY <1>1 DEF FeedInv, Handling, Idle
<1>3. call.left \in 0..MaxQty /\ (call.kind # "market" => call.price \in ValidPrices)
  BY <1>1 DEF Call, Inv, CallInv
<1>4. CASE call.left > 0
  <2>1. /\ call.left \in Qtys /\ call.price \in ValidPrices
        /\ Rest(call.id, call.side, call.price, call.left, call.actor)
    BY <1>2, <1>3, <1>4, QtyAssumption DEF Finish, Qtys
  <2>2. PICK o : o = [side |-> call.side, price |-> call.price, qty |-> call.left,
                      participant |-> call.actor]
    OBVIOUS
  <2>3. o \in Order /\ call.id \in Ids
    BY <1>1, <2>1, <2>2 DEF Order, Call
  <2>4. orders' = [orders EXCEPT ![call.id] = o]
    BY <2>1, <2>2 DEF Rest
  <2>5. orders'[call.id] # NoOrder
    BY <1>1, <2>3, <2>4, NoOrderAssumption DEF BookInv, BookTypeOK
  <2> QED BY <1>1, <1>2, <1>4, <2>1, <2>5
<1>5. CASE ~(call.left > 0)
  BY <1>1, <1>2, <1>3, <1>5, QtyAssumption DEF Finish
<1> QED BY <1>4, <1>5

\* What is left of an order comes to rest, in the book and in the feed's.
LEMMA RestStream ==
  ASSUME Inv, Inv', NeverCrossed', FeedInv, Finish, call.left > 0,
         UNCHANGED <<pending, books>>,
         NEW ids, Lists(ids), NEW f, Fine(f), IsView(f, ids),
         NEW c, c = Append(f, Replica!Resting(call.id, call.side, FeedPrice(call.price), call.left))
  PROVE  /\ Fine(c) /\ \E s : Lists(s)' /\ IsView(c, s)'
         /\ \A k \in 1..Len(f) : f[k].id # call.id
<1>1. /\ call \in Call /\ call # NoCall /\ ~Live(call.id) /\ BookInv
      /\ call.left \in Qtys /\ call.price \in ValidPrices /\ orders'[call.id] # NoOrder
      /\ Rest(call.id, call.side, call.price, call.left, call.actor)
  BY FinishIs
<1>2. PICK i, side, price, qty, actor :
        /\ i = call.id /\ side = call.side /\ price = call.price /\ qty = call.left
        /\ actor = call.actor
  OBVIOUS
<1>3. /\ i \in Ids /\ side \in Sides /\ price \in ValidPrices /\ qty \in Qtys /\ ~Live(i)
      /\ Rest(i, side, price, qty, actor)
      /\ c = Append(f, Replica!Resting(i, side, FeedPrice(price), qty))
  BY <1>1, <1>2 DEF Call
<1>4. Live(i)'
  BY <1>1, <1>2, <1>3 DEF Live
<1>5. c \in Seq(FeedOrder) /\ Lists(Append(ids, i))' /\ IsView(c, Append(ids, i))'
  BY <1>1, <1>3, <1>4, RestView
<1>6. BookInv'
  BY DEF Inv, TypeOK, BookInv
<1>7. Fine(c)
  BY <1>5, <1>6, ViewFineNext
<1>8. ASSUME NEW k \in 1..Len(f) PROVE f[k].id # call.id
  <2>1. k \in 1..Len(ids) /\ f[k] = Shown(ids[k])
    BY DEF IsView
  <2>2. f[k].id = ids[k] /\ ids[k] \in Resting
    BY <1>1, <2>1, ListsIs DEF Shown, Replica!Resting
  <2> QED BY <1>1, <2>2 DEF Live, Resting
<1> QED BY <1>5, <1>7, <1>8

\* What is left of an order rests: the outcome to be published shows it.
LEMMA FinishStream ==
  ASSUME Inv, Inv', NeverCrossed', FeedInv, Finish, UNCHANGED <<request, fills, pending, books>>
  PROVE  StreamInv'
<1>1. /\ call \in Call /\ call # NoCall /\ ~Live(call.id) /\ BookInv
      /\ call' = NoCall /\ result' = "Ok" /\ result = "none" /\ request # NoRequest
  BY FinishIs
<1>2. /\ request \in Requests /\ fills \in Seq(Execution)
      /\ call.price = request.price
      /\ \/ request.kind = "Enter" /\ call.id = request.id /\ call.side = request.side
         \/ request.kind = "Replace" /\ call.id = request.newId
  BY <1>1 DEF FeedInv, Handling
<1>3. PICK ids, e : /\ Lists(ids) /\ Leads(books[Symbol], pending \o Published, e)
                    /\ Shows(e, ids)
  BY DEF FeedInv, StreamInv
<1>4. Fine(e)
  <2>1. pending \o Published \in Seq(Message)
    BY JoinIs DEF FeedInv, StreamInv
  <2> QED BY <1>3, <2>1, LeadsIs
<1>5. Published = ExecutionsOf(fills) /\ Published \in Seq(Message)
  BY <1>1, <1>2, PublishedSoFar, ExecutionsAre
<1>6. Published' = Published \o Outcome'
  <2>1. Published' = ExecutionsOf(fills') \o Outcome'
    BY DEF Published, Executions, ExecutionsOf
  <2> QED BY <1>5, <2>1
<1>7. \A m \in Message : Outcome' = <<m>> => Published' = Append(Published, m)
  BY <1>5, <1>6, JoinIs
<1>8. ~Replacing'
  BY <1>1 DEF Replacing
<1>9. \A s, c : IsView(c, s)' => Shows(c, s)'
  BY <1>8 DEF Shows
<1>10. call.id \in Ids /\ call.side \in Sides /\ call.left \in 0..MaxQty
  BY <1>1 DEF Call
<1>11. call.left > 0 => call.left \in Qtys /\ call.price \in ValidPrices
  BY FinishIs
<1>12. ~(call.left > 0) => \A s, c : Lists(s) /\ IsView(c, s) => Lists(s)' /\ IsView(c, s)'
  <2>1. ~(call.left > 0) => UNCHANGED <<orders, fifo>>
    BY FinishIs DEF book
  <2>2. ASSUME ~(call.left > 0), NEW s, NEW c, Lists(s), IsView(c, s)
        PROVE  Lists(s)' /\ IsView(c, s)'
    <3>1. Lists(s)'
      BY <2>1, <2>2, SameLists
    <3>2. IsView(c, s)'
      BY <2>1, <2>2 DEF IsView, Shown
    <3> QED BY <3>1, <3>2
  <2> QED BY <2>2
<1>13. CASE request.kind = "Enter"
  <2>1. call.id = request.id /\ call.side = request.side /\ ~Replacing /\ IsView(e, ids)
    BY <1>2, <1>3, <1>13 DEF Shows, Replacing
  <2>2. CASE call.left > 0
    <3>1. PICK m : m = AddOrder(request.id, request.side, call.left, request.price)
      OBVIOUS
    <3>2. Outcome' = <<m>>
      BY <1>13, <2>2, <3>1, OutcomeIs
    <3>3. PICK c : c = Append(e, Replica!Resting(call.id, call.side, FeedPrice(call.price), call.left))
      OBVIOUS
    <3>4. /\ Fine(c) /\ \E s : Lists(s)' /\ IsView(c, s)'
          /\ \A k \in 1..Len(e) : e[k].id # call.id
      BY <1>3, <1>4, <2>1, <2>2, <3>3, RestStream
    <3>5. PICK s : Lists(s)' /\ IsView(c, s)'
      BY <3>4
    <3>6. /\ m.type = "A" /\ m.symbol = Symbol /\ m.ref = call.id /\ m.side = call.side
          /\ m.price = FeedPrice(call.price) /\ m.qty = call.left
      BY <1>2, <2>1, <3>1 DEF AddOrder
    <3>7. m \in Message
      <4>1. FeedPrice(request.price) \in Nat
        BY <1>2, <1>11, <2>2, FeedPriceIs
      <4> QED BY <1>10, <1>11, <2>1, <2>2, <3>1, <4>1 DEF AddOrder, Message
    <3>8. Becomes(e, m, c)
      BY <1>10, <2>2, <3>3, <3>4, <3>6 DEF Becomes, Adds
    <3> QED BY <1>3, <1>7, <1>9, <3>2, <3>4, <3>5, <3>7, <3>8, StreamOn DEF FeedInv
  <2>3. CASE ~(call.left > 0)
    <3>1. Outcome' = <<>>
      BY <1>13, <2>3, OutcomeIs
    <3>2. Published' = Published
      BY <1>5, <1>6, <3>1, ConcatEmptySeq
    <3>3. Lists(ids)' /\ IsView(e, ids)'
      BY <1>3, <1>12, <2>1, <2>3
    <3> QED BY <1>3, <1>9, <3>2, <3>3, StreamStays DEF FeedInv
  <2> QED BY <2>2, <2>3
<1>14. CASE request.kind = "Replace"
  <2>1. call.id = request.newId /\ Replacing
    BY <1>1, <1>2, <1>14 DEF Replacing
  <2>2. PICK k \in 1..Len(e) : /\ e[k].id = request.id /\ e[k].side = call.side
                               /\ IsView(RemoveAt(e, k), ids)
    BY <1>3, <2>1 DEF Shows
  <2>3. PICK r : r = RemoveAt(e, k)
    OBVIOUS
  <2>4. Fine(r) /\ IsView(r, ids) /\ request.id \in Ids
    <3>1. Fine(r) /\ IsView(r, ids)
      BY <1>4, <2>2, <2>3, OutIs
    <3>2. e[k].id \in Ids
      BY <1>4, FineIs
    <3> QED BY <2>2, <3>1, <3>2
  <2>5. CASE call.left > 0
    <3>1. PICK m : m = OrderReplace(request.id, request.newId, call.left, request.price)
      OBVIOUS
    <3>2. Outcome' = <<m>>
      BY <1>14, <2>5, <3>1, OutcomeIs
    <3>3. PICK c : c = Append(r, Replica!Resting(call.id, call.side, FeedPrice(call.price), call.left))
      OBVIOUS
    <3>4. /\ Fine(c) /\ \E s : Lists(s)' /\ IsView(c, s)'
          /\ \A j \in 1..Len(r) : r[j].id # call.id
      BY <1>3, <2>4, <2>5, <3>3, RestStream
    <3>5. PICK s : Lists(s)' /\ IsView(c, s)'
      BY <3>4
    <3>6. /\ m.type = "U" /\ m.ref = request.id /\ m.newRef = call.id
          /\ m.price = FeedPrice(call.price) /\ m.qty = call.left
      BY <1>2, <2>1, <3>1 DEF OrderReplace
    <3>7. m \in Message
      <4>1. FeedPrice(request.price) \in Nat
        BY <1>2, <1>11, <2>5, FeedPriceIs
      <4> QED BY <1>10, <1>11, <2>1, <2>4, <2>5, <3>1, <4>1 DEF OrderReplace, Message
    <3>8. Replaces(e, m, c)
      <4>1. /\ e[k].id = m.ref /\ \A j \in 1..Len(r) : r[j].id # m.newRef
            /\ c = Append(r, Replica!Resting(m.newRef, e[k].side, m.price, m.qty))
        BY <2>2, <3>3, <3>4, <3>6
      <4> QED BY <1>10, <2>3, <2>5, <3>6, <4>1 DEF Replaces
    <3>9. Becomes(e, m, c)
      BY <3>8 DEF Becomes
    <3> QED BY <1>3, <1>7, <1>9, <3>2, <3>4, <3>5, <3>7, <3>9, StreamOn DEF FeedInv
  <2>6. CASE ~(call.left > 0)
    <3>1. PICK m : m = OrderDelete(request.id)
      OBVIOUS
    <3>2. Outcome' = <<m>>
      BY <1>14, <2>6, <3>1, OutcomeIs
    <3>3. m \in Message /\ m.type = "D" /\ m.ref = request.id
      BY <2>4, <3>1 DEF OrderDelete, Message
    <3>4. Becomes(e, m, r)
      BY <2>2, <2>3, <3>3 DEF Becomes, Deletes
    <3>5. Lists(ids)' /\ IsView(r, ids)'
      BY <1>3, <1>12, <2>4, <2>6
    <3> QED BY <1>3, <1>7, <1>9, <2>4, <3>2, <3>3, <3>4, <3>5, StreamOn DEF FeedInv
  <2> QED BY <2>5, <2>6
<1> QED BY <1>2, <1>13, <1>14

\* The last step of matching.
LEMMA FinishFeeds ==
  ASSUME Inv, Inv', NeverCrossed', FeedInv, Finish,
         fills' = IF exec' = NoExec THEN fills ELSE Append(fills, exec'),
         UNCHANGED <<request, told, pending, replica>>
  PROVE  FeedInv'
<1>1. /\ call \in Call /\ call # NoCall /\ ~Live(call.id) /\ BookInv
      /\ call' = NoCall /\ exec' = NoExec /\ result' = "Ok" /\ result = "none"
      /\ request # NoRequest
  BY FinishIs
<1>2. fills' = fills
  BY <1>1
<1>3. Handling'
  BY <1>1, <1>2 DEF FeedInv, Handling, Idle
<1>4. ToldInv'
  <2>1. PICK h : Counting(h, fills, Counted(told, Acceptance)) /\ h[Len(fills)] = OpenShares
    BY <1>1 DEF FeedInv, ToldInv
  <2>2. Counted(told, Acceptance)' = Counted(told, Acceptance)
    BY DEF Counted, Acceptance
  <2>3. OpenShares' = OpenShares
    <3>1. call.id \in Ids
      BY <1>1 DEF Call
    <3>2. OpenShares' = [a \in Ids |-> IF orders'[a] # NoOrder THEN orders'[a].qty ELSE 0]
      BY <1>1 DEF OpenShares, Live
    <3>3. OpenShares = [a \in Ids |-> IF a = call.id THEN call.left
                                      ELSE IF orders[a] # NoOrder THEN orders[a].qty ELSE 0]
      BY <1>1 DEF OpenShares, Live
    <3>4. CASE call.left > 0
      <4>1. /\ Rest(call.id, call.side, call.price, call.left, call.actor)
            /\ orders'[call.id] # NoOrder
        BY <3>4, FinishIs
      <4>2. orders' = [orders EXCEPT ![call.id] =
                         [side |-> call.side, price |-> call.price, qty |-> call.left,
                          participant |-> call.actor]]
        BY <4>1 DEF Rest
      <4>3. orders'[call.id].qty = call.left /\ \A a \in Ids \ {call.id} : orders'[a] = orders[a]
        BY <1>1, <3>1, <4>2 DEF BookInv, BookTypeOK
      <4> QED BY <3>2, <3>3, <4>1, <4>3
    <3>5. CASE ~(call.left > 0)
      <4>1. call.left = 0 /\ orders' = orders
        BY <3>5, FinishIs DEF book
      <4>2. orders[call.id] = NoOrder
        BY <1>1, <3>1 DEF Live
      <4> QED BY <3>2, <3>3, <4>1, <4>2
    <3> QED BY <3>4, <3>5
  <2> QED BY <1>1, <1>2, <2>1, <2>2, <2>3 DEF ToldInv
<1>5. StreamInv'
  BY <1>2, FinishStream DEF replica
<1>6. CleanInv'
  BY DEF FeedInv, CleanInv, ReplicaInv, replica
<1> QED BY <1>3, <1>4, <1>5, <1>6 DEF FeedInv

\* Answers and messages leave: what was to be told is told.
LEMMA PublishFeeds ==
  ASSUME Inv, FeedInv, Publish
  PROVE  FeedInv'
<1>1. /\ call = NoCall /\ result # "none" /\ result' = "none" /\ call' = NoCall
      /\ orders' = orders /\ fifo' = fifo
      /\ told' = AllCounted /\ pending' = pending \o Published
      /\ request' = NoRequest /\ fills' = <<>> /\ UNCHANGED <<books, owner, anomalies>>
  BY DEF Publish, Return, replica, book
<1>2. request # NoRequest /\ fills \in Seq(Execution) /\ (result # "Ok" => fills = <<>>)
  BY <1>1 DEF FeedInv, Handling, Idle
<1>3. Handling'
  BY <1>1, EmptySeq DEF Handling, Idle
<1>4. ToldInv'
  <2>1. LiveShares' = LiveShares
    BY <1>1 DEF LiveShares, Live
  <2>2. AllCounted = LiveShares
    <3>1. CASE result = "Ok"
      <4>1. Reply = Acceptance
        BY <3>1 DEF Reply, Acceptance
      <4>2. PICK h : Counting(h, fills, Counted(told, Acceptance)) /\ h[Len(fills)] = OpenShares
        BY <1>2, <3>1 DEF FeedInv, ToldInv
      <4>3. OpenShares = LiveShares
        BY <1>1 DEF OpenShares, LiveShares
      <4> QED BY <1>2, <4>1, <4>2, <4>3, AllCountedIs
    <3>2. CASE result # "Ok"
      <4>1. told = LiveShares
        BY <1>1, <3>2 DEF FeedInv, ToldInv
      <4>2. request.kind \in {"Enter", "Cancel", "Reduce", "Replace"}
        BY <1>2 DEF FeedInv, Handling, Requests
      <4>3. Reply.kind = "Rejected"
        BY <3>2, <4>2 DEF Reply, Response
      <4>4. Counted(told, Reply) = told
        BY <4>3 DEF Counted
      <4>5. PICK h : Counting(h, <<>>, told) /\ h[Len(<<>>)] = told
        BY NoFills
      <4> QED BY <1>2, <3>2, <4>1, <4>4, <4>5, AllCountedIs
    <3> QED BY <3>1, <3>2
  <2> QED BY <1>1, <2>1, <2>2 DEF ToldInv
<1>5. StreamInv'
  <2>1. PICK ids, e : /\ Lists(ids) /\ Leads(books[Symbol], pending \o Published, e)
                      /\ Shows(e, ids)
    BY DEF FeedInv, StreamInv
  <2>2. Published' = <<>>
    <3>1. Outcome' = <<>>
      BY <1>1 DEF Outcome
    <3>2. Published' = ExecutionsOf(fills') \o Outcome'
      BY DEF Published, Executions, ExecutionsOf
    <3>3. ExecutionsOf(fills') = <<>>
      BY <1>1, ExecutionsAre, EmptySeq
    <3> QED BY <3>1, <3>2, <3>3, EmptyJoin
  <2>3. /\ pending' \in Seq(Message) /\ Published' \in Seq(Message)
        /\ pending' \o Published' = pending \o Published
    BY <1>1, <2>2, JoinIs, EmptySeq DEF FeedInv, StreamInv
  <2>4. IsView(e, ids) /\ ~Replacing'
    BY <1>1, <2>1 DEF Shows, Replacing
  <2>5. IsView(e, ids)'
    BY <1>1, <2>4 DEF IsView, Shown
  <2>6. Shows(e, ids)'
    BY <2>4, <2>5 DEF Shows
  <2>7. Lists(ids)'
    BY <1>1, <2>1, SameLists
  <2>8. Leads(books[Symbol], pending \o Published, e)'
    BY <1>1, <2>1, <2>3 DEF Leads
  <2> QED BY <2>3, <2>6, <2>7, <2>8 DEF StreamInv
<1>6. CleanInv'
  BY <1>1 DEF FeedInv, CleanInv, ReplicaInv
<1> QED BY <1>3, <1>4, <1>5, <1>6 DEF FeedInv

\* Nothing changes on the engine's side.
EngineSame == UNCHANGED <<orders, fifo, call, result, request, fills, told>>

\* A step of the replayer leaves the engine's part of the invariant.
LEMMA SameEngine ==
  ASSUME EngineSame
  PROVE  /\ Handling => Handling'
         /\ ToldInv => ToldInv'
         /\ Published' = Published
         /\ \A ids : Lists(ids) => Lists(ids)'
         /\ \A e, ids : Shows(e, ids) => Shows(e, ids)'
<1>1. Handling => Handling'
  BY DEF EngineSame, Handling, Idle
<1>2. ToldInv => ToldInv'
  <2>1. Counted(told, Acceptance)' = Counted(told, Acceptance)
    BY DEF EngineSame, Counted, Acceptance
  <2>2. OpenShares' = OpenShares /\ LiveShares' = LiveShares
    BY DEF EngineSame, OpenShares, LiveShares, Live
  <2> QED BY <2>1, <2>2 DEF EngineSame, ToldInv
<1>3. Published' = Published
  <2>1. Filled' = Filled
    BY DEF EngineSame, Filled
  <2>2. Displayed' = Displayed
    BY <2>1 DEF EngineSame, Displayed
  <2>3. Outcome' = Outcome
    BY <2>2 DEF EngineSame, Outcome
  <2>4. Executions' = Executions
    BY DEF EngineSame, Executions
  <2> QED BY <2>3, <2>4 DEF Published
<1>4. \A ids : Lists(ids) => Lists(ids)'
  BY SameLists DEF EngineSame
<1>5. \A e, ids : Shows(e, ids) => Shows(e, ids)'
  <2>1. Replacing' = Replacing
    BY DEF EngineSame, Replacing
  <2>2. \A e, ids : IsView(e, ids)' <=> IsView(e, ids)
    BY DEF EngineSame, IsView, Shown
  <2> QED BY <2>1, <2>2 DEF EngineSame, Shows
<1> QED BY <1>1, <1>2, <1>3, <1>4, <1>5

\* The replayer takes the first message, which leads from its book to a fine one.
LEMMA ApplyFeeds ==
  ASSUME Inv, FeedInv, Apply
  PROVE  FeedInv'
<1>1. /\ pending # <<>> /\ Replica!Apply(Head(pending)) /\ pending' = Tail(pending)
      /\ EngineSame
  BY DEF Apply, EngineSame, vars, book
<1>2. PICK ids, e : /\ Lists(ids) /\ Leads(books[Symbol], pending \o Published, e)
                    /\ Shows(e, ids)
  BY DEF FeedInv, StreamInv
<1>3. pending \in Seq(Message) /\ Published \in Seq(Message)
  BY DEF FeedInv, StreamInv
<1>4. PICK msgs, rest : msgs = pending \o Published /\ rest = Tail(pending) \o Published
  OBVIOUS
<1>5. /\ msgs \in Seq(Message) /\ msgs # <<>> /\ rest \in Seq(Message)
      /\ Head(msgs) = Head(pending) /\ Tail(msgs) = rest
  <2>1. /\ Len(pending) \in Nat \ {0} /\ Tail(pending) \in Seq(Message)
        /\ Len(Tail(pending)) = Len(pending) - 1 /\ Head(pending) = pending[1]
        /\ \A k \in 1..(Len(pending) - 1) : Tail(pending)[k] = pending[k + 1]
    BY <1>1, <1>3, TailFacts
  <2>2. /\ msgs \in Seq(Message) /\ Len(msgs) = Len(pending) + Len(Published)
        /\ \A k \in 1..Len(pending) : msgs[k] = pending[k]
        /\ \A k \in 1..Len(Published) : msgs[Len(pending) + k] = Published[k]
        /\ Len(Published) \in Nat
    BY <1>3, <1>4, ConcatFacts
  <2>3. /\ rest \in Seq(Message) /\ Len(rest) = Len(Tail(pending)) + Len(Published)
        /\ \A k \in 1..Len(Tail(pending)) : rest[k] = Tail(pending)[k]
        /\ \A k \in 1..Len(Published) : rest[Len(Tail(pending)) + k] = Published[k]
    BY <1>3, <1>4, <2>1, ConcatFacts
  <2>4. msgs # <<>>
    BY <2>1, <2>2
  <2>5. /\ Tail(msgs) \in Seq(Message) /\ Len(Tail(msgs)) = Len(msgs) - 1 /\ Head(msgs) = msgs[1]
        /\ \A k \in 1..(Len(msgs) - 1) : Tail(msgs)[k] = msgs[k + 1]
    BY <2>2, <2>4, TailFacts
  <2>6. Head(msgs) = Head(pending)
    BY <2>1, <2>2, <2>5
  <2>7. Len(Tail(msgs)) = Len(rest)
    BY <2>1, <2>2, <2>3, <2>5
  <2>8. ASSUME NEW k \in 1..Len(rest) PROVE Tail(msgs)[k] = rest[k]
    <3>1. Tail(msgs)[k] = msgs[k + 1]
      BY <2>1, <2>2, <2>3, <2>5
    <3>2. CASE k \in 1..Len(Tail(pending))
      <4>1. rest[k] = pending[k + 1]
        BY <2>1, <2>3, <3>2
      <4>2. k + 1 \in 1..Len(pending)
        BY <2>1, <3>2
      <4> QED BY <2>2, <3>1, <4>1, <4>2
    <3>3. CASE k \notin 1..Len(Tail(pending))
      <4>1. PICK j : j = k - Len(Tail(pending))
        OBVIOUS
      <4>2. /\ j \in 1..Len(Published) /\ Len(Tail(pending)) + j = k
            /\ Len(pending) + j = k + 1
        BY <2>1, <2>2, <2>3, <3>3, <4>1
      <4>3. rest[k] = Published[j] /\ msgs[k + 1] = Published[j]
        BY <2>2, <2>3, <4>2
      <4> QED BY <3>1, <4>3
    <3> QED BY <3>2, <3>3
  <2>9. Tail(msgs) = rest
    BY <2>3, <2>5, <2>7, <2>8, SeqEqual
  <2> QED BY <2>2, <2>3, <2>4, <2>6, <2>9
<1>6. PICK c : /\ Fine(c) /\ Becomes(books[Symbol], Head(pending), c) /\ Leads(c, rest, e)
  BY <1>2, <1>4, <1>5, LeadsOff
<1>7. Fine(books[Symbol])
  BY <1>2, <1>4, <1>5, LeadsIs
<1>8. books'[Symbol] = c /\ ReplicaInv' /\ anomalies' = anomalies
  BY <1>1, <1>6, <1>7, ApplyBecomes DEF FeedInv, CleanInv
<1>9. /\ Handling' /\ ToldInv' /\ Published' = Published /\ Lists(ids)' /\ Shows(e, ids)'
  BY <1>1, <1>2, SameEngine DEF FeedInv
<1>10. Leads(books[Symbol], pending \o Published, e)'
  BY <1>1, <1>4, <1>6, <1>8, <1>9 DEF Leads
<1>11. pending' \in Seq(Message) /\ Published' \in Seq(Message)
  BY <1>1, <1>3, <1>9, TailFacts
<1>12. StreamInv'
  BY <1>9, <1>10, <1>11 DEF StreamInv
<1>13. CleanInv'
  BY <1>8 DEF FeedInv, CleanInv
<1> QED BY <1>9, <1>12, <1>13 DEF FeedInv

-----------------------------------------------------------------------------
(* The engine, for every sequence of requests.                             *)

\* What handle() does to the book is what a caller of the book may do.
LEMMA FeedStepIs == [FeedNext]_feedVars => [Next]_vars
<1> SUFFICES ASSUME [FeedNext]_feedVars PROVE [Next]_vars
  OBVIOUS
<1>1. ASSUME NEW i \in Ids \cup {0}, NEW side \in Sides, NEW price \in Prices,
             NEW qty \in 0..MaxQty, HandleEnter(i, side, price, qty)
      PROVE  Next
  BY <1>1, LimitAssumption, ParticipantsAssumption DEF HandleEnter, Next, OrderEntry
<1>2. ASSUME NEW i \in Ids, HandleCancel(i) PROVE Next
  BY <1>2 DEF HandleCancel, Next, OrderEntry
<1>3. ASSUME NEW i \in Ids, NEW qty \in 0..MaxQty, HandleReduce(i, qty) PROVE Next
  BY <1>3 DEF HandleReduce, Next, Reduction
<1>4. ASSUME NEW i \in Ids, NEW new \in Ids \cup {0}, NEW price \in Prices, NEW qty \in 0..MaxQty,
             HandleReplace(i, new, price, qty)
      PROVE  Next
  BY <1>4 DEF HandleReplace, Next, OrderEntry
<1>5. CASE Match
  BY <1>5 DEF Match, Next, MatchStep
<1>6. CASE Publish
  BY <1>6 DEF Publish, Next, MatchStep
<1>7. CASE Apply
  BY <1>7 DEF Apply
<1>8. CASE UNCHANGED feedVars
  BY <1>8 DEF feedVars
<1> QED BY <1>1, <1>2, <1>3, <1>4, <1>5, <1>6, <1>7, <1>8 DEF FeedNext

\* At the start everything is empty.
LEMMA FeedInitInv == FeedInit => FeedInv
<1> SUFFICES ASSUME FeedInit PROVE FeedInv
  OBVIOUS
<1>1. /\ orders = [i \in Ids |-> NoOrder] /\ call = NoCall /\ result = "none"
      /\ request = NoRequest /\ fills = <<>> /\ pending = <<>>
      /\ told = [i \in Ids |-> 0]
      /\ books = [s \in {Symbol} |-> <<>>] /\ owner = [i \in Ids |-> NoOwner] /\ anomalies = {}
  BY DEF FeedInit, Init, Replica!Init
<1>2. Handling
  BY <1>1, EmptySeq DEF Handling, Idle
<1>3. ToldInv
  BY <1>1 DEF ToldInv, LiveShares, Live
<1>4. PICK z : z = <<>>
  OBVIOUS
<1>5. z \in Seq(FeedOrder) /\ z \in Seq(Ids) /\ Len(z) = 0
  BY <1>4, EmptySeq
<1>6. Fine(z)
  BY <1>5 DEF Fine, IdsOnce, Uncrossed
<1>7. StreamInv
  <2>1. Lists(z)
    BY <1>1, <1>5 DEF Lists, Once, Resting
  <2>2. IsView(z, z)
    BY <1>5 DEF IsView
  <2>3. Shows(z, z)
    BY <1>1, <2>2 DEF Shows, Replacing
  <2>4. Published = <<>>
    <3>1. fills \in Seq(Execution) /\ ExecutionsOf(fills) = <<>>
      BY <1>1, ExecutionsAre, EmptySeq
    <3> QED BY <1>1, <3>1, PublishedSoFar
  <2>5. pending \o Published = <<>> /\ pending \in Seq(Message) /\ Published \in Seq(Message)
    BY <1>1, <2>4, EmptyJoin, EmptySeq
  <2>6. books[Symbol] = z
    BY <1>1, <1>4
  <2>7. Leads(books[Symbol], pending \o Published, z)
    BY <1>6, <2>5, <2>6, LeadsNowhere
  <2> QED BY <2>1, <2>3, <2>5, <2>7 DEF StreamInv
<1>8. CleanInv
  <2>1. books \in [{Symbol} -> Seq(FeedOrder)] /\ books[Symbol] = z
    BY <1>1, <1>4, <1>5
  <2>2. \A i : ~Has(z, i)
    BY <1>5 DEF Has
  <2> QED BY <1>1, <2>1, <2>2, NoOwnerAssumption DEF CleanInv, ReplicaInv
<1> QED BY <1>2, <1>3, <1>7, <1>8 DEF FeedInv

\* Each step keeps the feed's invariant.
LEMMA FeedStepKeeps ==
  Inv /\ Inv' /\ NeverCrossed' /\ FeedInv /\ [FeedNext]_feedVars => FeedInv'
<1> SUFFICES ASSUME Inv, Inv', NeverCrossed', FeedInv, [FeedNext]_feedVars PROVE FeedInv'
  OBVIOUS
<1>1. CASE Match
  <2>1. CASE \E p \in ValidPrices : Fill(p)
    BY <1>1, <2>1, FillFeeds DEF Match
  <2>2. CASE Finish
    BY <1>1, <2>2, FinishFeeds DEF Match
  <2> QED BY <1>1, <2>1, <2>2 DEF Match
<1>2. CASE UNCHANGED feedVars
  <2>1. EngineSame /\ UNCHANGED <<pending, books, owner, anomalies>>
    BY <1>2 DEF feedVars, vars, book, replica, EngineSame
  <2>2. CleanInv'
    BY <2>1 DEF FeedInv, CleanInv, ReplicaInv
  <2>3. PICK ids, e : /\ Lists(ids) /\ Leads(books[Symbol], pending \o Published, e)
                      /\ Shows(e, ids)
    BY DEF FeedInv, StreamInv
  <2>4. /\ Handling' /\ ToldInv' /\ Published' = Published /\ Lists(ids)' /\ Shows(e, ids)'
    BY <2>1, <2>3, SameEngine DEF FeedInv
  <2>5. StreamInv'
    BY <2>1, <2>3, <2>4, StreamStays DEF FeedInv
  <2> QED BY <2>2, <2>4, <2>5 DEF FeedInv
<1> QED BY <1>1, <1>2, EnterFeeds, CancelFeeds, ReduceFeeds, ReplaceFeeds, PublishFeeds,
           ApplyFeeds DEF FeedNext

\* It holds in every reachable state, with the book's own.
LEMMA FeedInvariance == FeedSpec => [](Inv /\ NeverCrossed /\ FeedInv)
<1>1. FeedInit => Inv /\ NeverCrossed /\ FeedInv
  BY InitInv, FeedInitInv DEF FeedInit
<1>2. Inv /\ NeverCrossed /\ FeedInv /\ [FeedNext]_feedVars => Inv' /\ NeverCrossed' /\ FeedInv'
  BY FeedStepIs, NextKeeps, FeedStepKeeps
<1> QED BY <1>1, <1>2, PTL DEF FeedSpec

\* A client that goes by the responses alone has the shares the book has,
\* whatever it asks for and whoever trades with it.
THEOREM ClientAlwaysAgrees == FeedSpec => []ClientAgrees
<1>1. FeedInv => ClientAgrees
  BY DEF FeedInv, ToldInv, ClientAgrees, LiveShares
<1> QED BY <1>1, FeedInvariance, PTL

\* No message of the feed ever names an order its reader does not have.
THEOREM FeedIsAlwaysClean == FeedSpec => []FeedIsClean
<1>1. FeedInv => FeedIsClean
  BY DEF FeedInv, CleanInv, FeedIsClean
<1> QED BY <1>1, FeedInvariance, PTL

\* If the prices of the book fit the feed's field, a reader that is through with
\* the messages of a request has the engine's book, order for order and queue
\* for queue.
THEOREM FeedAlwaysAgrees ==
  ASSUME PricesFit
  PROVE  FeedSpec => []FeedAgrees
<1>1. Inv /\ FeedInv => FeedAgrees
  <2> SUFFICES ASSUME Inv, FeedInv, request = NoRequest, pending = <<>>
               PROVE  LET rebuilt == books[Symbol]
                      IN /\ Len(rebuilt) = Cardinality(Resting)
                         /\ \A i \in Resting : \E k \in DOMAIN rebuilt :
                              rebuilt[k] = Replica!Resting(i, orders[i].side, orders[i].price,
                                                           orders[i].qty)
                         /\ \A j, k \in DOMAIN rebuilt :
                              /\ j < k
                              /\ rebuilt[j].side = rebuilt[k].side
                              /\ rebuilt[j].price = rebuilt[k].price
                              => MatchedBefore(rebuilt[j].id, rebuilt[k].id)
    BY DEF FeedAgrees
  <2>1. BookInv /\ Idle /\ fills = <<>>
    BY DEF Inv, TypeOK, BookInv, FeedInv, Handling, Idle
  <2>2. PICK ids, e : /\ Lists(ids) /\ Leads(books[Symbol], pending \o Published, e)
                      /\ Shows(e, ids)
    BY DEF FeedInv, StreamInv
  <2>3. pending \o Published = <<>>
    <3>1. ExecutionsOf(fills) = <<>> /\ fills \in Seq(Execution)
      BY <2>1, ExecutionsAre, EmptySeq
    <3>2. Published = <<>>
      BY <2>1, <3>1, PublishedSoFar DEF Idle
    <3> QED BY <3>2, EmptyJoin
  <2>4. PICK b : b = books[Symbol]
    OBVIOUS
  <2>5. Fine(b) /\ b = e /\ IsView(b, ids)
    <3>1. IsView(e, ids)
      BY <2>1, <2>2 DEF Shows, Replacing, Idle
    <3>2. Leads(b, <<>>, e)
      BY <2>2, <2>3, <2>4
    <3>3. <<>> \in Seq(Message)
      BY EmptySeq
    <3>4. Fine(b) /\ b = e
      BY <3>2, <3>3, LeadsIs
    <3> QED BY <3>1, <3>4
  <2>6. /\ DOMAIN b = 1..Len(b) /\ Len(b) = Len(ids)
        /\ \A k \in 1..Len(b) : ids[k] \in Resting /\ b[k] = Shown(ids[k])
    BY <2>1, <2>2, <2>5, FineIs, ListsIs DEF IsView
  <2>7. Len(b) = Cardinality(Resting)
    BY <2>2, <2>6, ListsCount
  <2>8. \A i \in Resting : Shown(i) = Replica!Resting(i, orders[i].side, orders[i].price,
                                                     orders[i].qty)
    <3>1. \A i \in Resting : orders[i].price \in ValidPrices
      BY <2>1, LevelIsThere
    <3>2. \A i \in Resting : FeedPrice(orders[i].price) = orders[i].price
      BY <3>1, FeedPriceIs
    <3> QED BY <3>2 DEF Shown
  <2>9. ASSUME NEW i \in Resting
        PROVE  \E k \in DOMAIN b : b[k] = Replica!Resting(i, orders[i].side, orders[i].price,
                                                          orders[i].qty)
    BY <2>1, <2>2, <2>6, <2>8, ListsIs
  <2>10. ASSUME NEW j \in DOMAIN b, NEW k \in DOMAIN b, j < k,
                b[j].side = b[k].side, b[j].price = b[k].price
         PROVE  MatchedBefore(b[j].id, b[k].id)
    <3>1. /\ ids[j] \in Resting /\ b[j].id = ids[j] /\ b[j].side = orders[ids[j]].side
          /\ b[j].price = orders[ids[j]].price
      BY <2>6, <2>8, <2>10 DEF Replica!Resting
    <3>2. /\ ids[k] \in Resting /\ b[k].id = ids[k] /\ b[k].side = orders[ids[k]].side
          /\ b[k].price = orders[ids[k]].price
      BY <2>6, <2>8, <2>10 DEF Replica!Resting
    <3>3. SameLevel(ids[j], ids[k])
      BY <2>10, <3>1, <3>2 DEF SameLevel
    <3>4. Place(ids[j]) < Place(ids[k])
      BY <2>2, <2>6, <2>10, <3>3 DEF Lists
    <3> QED BY <3>1, <3>2, <3>3, <3>4 DEF MatchedBefore, Place, SameLevel
  <2> QED BY <2>4, <2>7, <2>9, <2>10
<1> QED BY <1>1, FeedInvariance, PTL

\* If the prices fit, no reader ever sees a crossed market, not even between
\* the messages of one request.
THEOREM ReplicaNeverCrossed ==
  ASSUME PricesFit
  PROVE  FeedSpec => []ReplicaUncrossed
<1>1. FeedInv => ReplicaUncrossed
  <2> SUFFICES ASSUME FeedInv PROVE ReplicaUncrossed
    OBVIOUS
  <2>1. PICK e : Leads(books[Symbol], pending \o Published, e)
    BY DEF FeedInv, StreamInv
  <2>2. pending \o Published \in Seq(Message)
    BY JoinIs DEF FeedInv, StreamInv
  <2>3. Fine(books[Symbol])
    BY <2>1, <2>2, LeadsIs
  <2> QED BY <2>3, FineIs DEF Fine, Uncrossed, ReplicaUncrossed
<1> QED BY <1>1, FeedInvariance, PTL
=============================================================================
