--------------------------- MODULE SandboxProofs ---------------------------
(***************************************************************************)
(* For any stream of messages, any references, prices and quantities and   *)
(* any configuration of the market maker: the owner index routes to where  *)
(* the orders rest, the orders ahead of a quote are known exactly, no fill *)
(* comes before its turn, and the position stays within its bound.         *)
(*                                                                         *)
(* A book is seen as the set of its orders, one for each reference.  What  *)
(* a message does to it is said reference by reference (RefStep); that the *)
(* queue estimate follows is then a matter of numbers (StillExact).        *)
(***************************************************************************)
EXTENDS Sandbox, SequenceFacts

Orders == [id : Ids, side : Sides, price : Prices, qty : Nat \ {0}]

\* No reference is there twice.
Unique(orders) == \A j, k \in DOMAIN orders : orders[j].id = orders[k].id => j = k

\* The only book is the tracked symbol's, and the index is exact.
BookInv ==
  /\ books \in [Symbols -> Seq(Orders)] /\ Unique(Book)
  /\ \A s \in Symbols \ {Symbol} : books[s] = <<>>
  /\ owner \in [Ids -> {NoOwner, Symbol}]
  /\ \A i \in Ids : owner[i] = Symbol <=> At(Book, i) # {}

QuoteTypes == [active : BOOLEAN, price : Int, remaining : Nat, ahead : [Ids -> Nat]]

\* Quotes are only held in the queue model, and once there has been a mid.
QuoteInv ==
  /\ queueModel \in BOOLEAN /\ lastMid \in Nat \cup {NoMid}
  /\ quotes \in [Sides -> QuoteTypes]
  /\ \A side \in Sides : quotes[side].active => queueModel /\ lastMid # NoMid
  /\ QueueExact

\* The limit leaves room for what is still to be filled of a quote.
PositionInv ==
  /\ PositionBounded
  /\ quotes["Bid"].active => position + quotes["Bid"].remaining <= MaxPosition + QuoteSize - 1
  /\ quotes["Ask"].active => position - quotes["Ask"].remaining >= -(MaxPosition + QuoteSize - 1)

Inv == BookInv /\ QuoteInv /\ PositionInv

-----------------------------------------------------------------------------
(* A book as a set of orders.                                              *)

\* A reference is in the sequence when an order of the set has it.
LEMMA AtIs ==
  ASSUME NEW orders \in Seq(Orders), NEW i
  PROVE  /\ At(orders, i) # {} <=> \E o \in ToSet(orders) : o.id = i
         /\ DOMAIN orders = 1..Len(orders) /\ Len(orders) \in Nat
         /\ \A k \in DOMAIN orders : orders[k] \in Orders
         /\ \A k \in At(orders, i) : k \in 1..Len(orders) /\ orders[k] \in ToSet(orders)
                                     /\ orders[k].id = i
  BY LenProperties, ElementOfSeq DEF At, ToSet

\* One reference, one order.
LEMMA OneOrder ==
  ASSUME NEW orders \in Seq(Orders), Unique(orders),
         NEW o \in ToSet(orders), NEW p \in ToSet(orders), o.id = p.id
  PROVE  o = p /\ o \in Orders
  BY AtIs DEF Unique, ToSet

\* The place of a reference, and the order there.
LEMMA PlaceIs ==
  ASSUME NEW orders \in Seq(Orders), Unique(orders), NEW k \in DOMAIN orders
  PROVE  At(orders, orders[k].id) = {k} /\ (CHOOSE j \in At(orders, orders[k].id) : TRUE) = k
<1>1. At(orders, orders[k].id) = {k}
  BY DEF At, Unique
<1> QED BY <1>1

\* A new reference at the end.
LEMMA AddOne ==
  ASSUME NEW orders \in Seq(Orders), Unique(orders), NEW o \in Orders, At(orders, o.id) = {}
  PROVE  /\ Append(orders, o) \in Seq(Orders) /\ Unique(Append(orders, o))
         /\ ToSet(Append(orders, o)) = ToSet(orders) \cup {o}
<1>1. /\ Append(orders, o) \in Seq(Orders) /\ Len(orders) \in Nat
      /\ Len(Append(orders, o)) = Len(orders) + 1
      /\ \A k \in 1..Len(orders) : Append(orders, o)[k] = orders[k]
      /\ Append(orders, o)[Len(orders) + 1] = o
      /\ ToSet(Append(orders, o)) = ToSet(orders) \cup {o}
  BY AppendFacts
<1>2. /\ DOMAIN orders = 1..Len(orders)
      /\ DOMAIN Append(orders, o) = 1..(Len(orders) + 1)
  BY <1>1, LenProperties
<1>3. \A k \in 1..Len(orders) : orders[k].id # o.id
  BY <1>2 DEF At
<1>4. Unique(Append(orders, o))
  BY <1>1, <1>2, <1>3 DEF Unique
<1> QED BY <1>1, <1>4

\* One order taken out.
LEMMA RemoveOne ==
  ASSUME NEW orders \in Seq(Orders), Unique(orders), NEW k \in 1..Len(orders)
  PROVE  /\ RemoveAt(orders, k) \in Seq(Orders) /\ Unique(RemoveAt(orders, k))
         /\ ToSet(RemoveAt(orders, k)) = ToSet(orders) \ {orders[k]}
         /\ At(RemoveAt(orders, k), orders[k].id) = {}
<1>1. /\ RemoveAt(orders, k) \in Seq(Orders) /\ Len(RemoveAt(orders, k)) = Len(orders) - 1
      /\ \A j \in 1..(Len(orders) - 1) :
           RemoveAt(orders, k)[j] = IF j < k THEN orders[j] ELSE orders[j + 1]
  BY RemoveAtIs
<1>2. PICK r : r = RemoveAt(orders, k)
  OBVIOUS
<1>3. /\ DOMAIN orders = 1..Len(orders) /\ Len(orders) \in Nat
      /\ DOMAIN r = 1..(Len(orders) - 1)
  BY <1>1, <1>2, LenProperties
<1>4. \A j, l \in 1..Len(orders) : orders[j].id = orders[l].id => j = l
  BY <1>3 DEF Unique
<1>5. \A i, j \in 1..Len(orders) : orders[i] = orders[j] => i = j
  BY <1>4
<1>6. PICK q : /\ q = RemoveAt(orders, k)
               /\ \A i \in 1..Len(q) : q[i] # orders[k] /\ \E j \in 1..Len(orders) : q[i] = orders[j]
               /\ \A j \in 1..Len(orders) : orders[j] # orders[k] => \E i \in 1..Len(q) : q[i] = orders[j]
  BY <1>5, RemoveAtElements
<1>7. /\ \A i \in DOMAIN r : r[i] # orders[k] /\ \E j \in DOMAIN orders : r[i] = orders[j]
      /\ \A j \in DOMAIN orders : orders[j] # orders[k] => \E i \in DOMAIN r : r[i] = orders[j]
  <2>1. q = r /\ DOMAIN r = 1..Len(r)
    BY <1>1, <1>2, <1>6, LenProperties
  <2> QED BY <1>3, <1>6, <2>1
<1>8. ToSet(r) = ToSet(orders) \ {orders[k]}
  BY <1>7 DEF ToSet
<1>9. Unique(r)
  <2> SUFFICES ASSUME NEW j \in 1..(Len(orders) - 1), NEW l \in 1..(Len(orders) - 1), r[j].id = r[l].id
               PROVE  j = l
    BY <1>3 DEF Unique
  <2> DEFINE at(x) == IF x < k THEN x ELSE x + 1
  <2>1. r[j] = orders[at(j)] /\ r[l] = orders[at(l)]
    BY <1>1, <1>2
  <2>2. at(j) \in 1..Len(orders) /\ at(l) \in 1..Len(orders)
    BY <1>3
  <2>3. at(j) = at(l)
    BY <2>1, <2>2, <1>4
  <2> QED BY <2>3
<1>a. At(r, orders[k].id) = {}
  <2>1. \A j \in 1..Len(orders) : orders[j].id = orders[k].id => orders[j] = orders[k]
    BY <1>4
  <2> QED BY <1>3, <1>7, <2>1 DEF At
<1> QED BY <1>1, <1>2, <1>8, <1>9, <1>a

\* The book with n shares left in the order in place k.
Shrunk(orders, k, n) == [orders EXCEPT ![k].qty = n]

\* One order left with fewer shares.
LEMMA ShrinkOne ==
  ASSUME NEW orders \in Seq(Orders), Unique(orders), NEW k \in 1..Len(orders), NEW n \in Nat \ {0}
  PROVE  /\ Shrunk(orders, k, n) \in Seq(Orders) /\ Unique(Shrunk(orders, k, n))
         /\ ToSet(Shrunk(orders, k, n)) = (ToSet(orders) \ {orders[k]}) \cup {[orders[k] EXCEPT !.qty = n]}
<1> DEFINE fewer == Shrunk(orders, k, n)
           o == [orders[k] EXCEPT !.qty = n]
<1>1. /\ DOMAIN orders = 1..Len(orders) /\ Len(orders) \in Nat
      /\ \A j \in 1..Len(orders) : orders[j] \in Orders
  BY LenProperties, ElementOfSeq
<1>2. o \in Orders /\ o.id = orders[k].id
  BY <1>1 DEF Orders
<1>3. /\ fewer \in Seq(Orders) /\ DOMAIN fewer = 1..Len(orders)
      /\ \A j \in 1..Len(orders) : fewer[j] = IF j = k THEN o ELSE orders[j]
  <2>1. \A j \in 1..Len(orders) : fewer[j] = IF j = k THEN o ELSE orders[j]
    BY <1>1 DEF Shrunk
  <2>2. fewer = [j \in 1..Len(orders) |-> fewer[j]]
    BY <1>1 DEF Shrunk
  <2>3. \A j \in 1..Len(orders) : fewer[j] \in Orders
    BY <1>1, <1>2, <2>1
  <2> HIDE DEF fewer
  <2>4. [j \in 1..Len(orders) |-> fewer[j]] \in Seq(Orders)
    BY <1>1, <2>3
  <2> QED BY <2>1, <2>2, <2>4
<1> HIDE DEF fewer, o
<1>4. Unique(fewer)
  BY <1>1, <1>2, <1>3 DEF Unique
<1>5. \A j \in 1..Len(orders) : orders[j] = orders[k] => j = k
  BY <1>1 DEF Unique
<1>6. ToSet(fewer) = (ToSet(orders) \ {orders[k]}) \cup {o}
  BY <1>1, <1>3, <1>5 DEF ToSet
<1> QED BY <1>3, <1>4, <1>6 DEF fewer, o

\* The shares of a reference at a level.
LEMMA AtLevelIs ==
  ASSUME NEW orders \in Seq(Orders), Unique(orders), NEW side, NEW price
  PROVE  /\ AtLevel(orders, side, price) \in [Ids -> Nat]
         /\ \A i \in Ids : At(orders, i) = {} => AtLevel(orders, side, price)[i] = 0
         /\ \A o \in ToSet(orders) :
              AtLevel(orders, side, price)[o.id] =
                IF o.side = side /\ o.price = price THEN o.qty ELSE 0
<1>1. \A k \in DOMAIN orders : orders[k] \in Orders
  BY AtIs
<1>2. ASSUME NEW k \in DOMAIN orders
      PROVE  AtLevel(orders, side, price)[orders[k].id] =
               IF orders[k].side = side /\ orders[k].price = price THEN orders[k].qty ELSE 0
  <2>1. At(orders, orders[k].id) = {k} /\ orders[k].id \in Ids
    BY <1>1, PlaceIs DEF Orders
  <2>2. {j \in At(orders, orders[k].id) : orders[j].side = side /\ orders[j].price = price} =
          IF orders[k].side = side /\ orders[k].price = price THEN {k} ELSE {}
    BY <2>1
  <2> QED BY <2>1, <2>2 DEF AtLevel
<1>3. ASSUME NEW i \in Ids, At(orders, i) = {} PROVE AtLevel(orders, side, price)[i] = 0
  BY <1>3 DEF AtLevel
<1>4. ASSUME NEW i \in Ids PROVE AtLevel(orders, side, price)[i] \in Nat
  <2>1. CASE At(orders, i) = {}
    BY <1>3, <2>1
  <2>2. CASE At(orders, i) # {}
    <3>1. PICK k \in DOMAIN orders : orders[k].id = i
      BY <2>2 DEF At
    <3> QED BY <1>1, <1>2, <3>1 DEF Orders
  <2> QED BY <2>1, <2>2
<1>5. AtLevel(orders, side, price) \in [Ids -> Nat]
  BY <1>4 DEF AtLevel
<1>6. ToSet(orders) = {orders[k] : k \in DOMAIN orders}
  BY DEF ToSet
<1> QED BY <1>2, <1>3, <1>5, <1>6

-----------------------------------------------------------------------------
(* What a message does to the book.                                        *)

\* What there is in a message.
LEMMA MessageFacts ==
  ASSUME NEW m \in Messages
  PROVE  /\ m.type \in {"A", "U", "E", "X", "D"} /\ m.ref \in Ids
         /\ m.type = "A" => /\ m.symbol \in Symbols /\ m.side \in Sides
                            /\ m.price \in Prices /\ m.qty \in Nat
         /\ m.type = "U" => m.newRef \in Ids /\ m.price \in Prices /\ m.qty \in Nat
         /\ m.type \in {"E", "X"} => m.qty \in Nat \ {0}
<1>1. RefsOf \in [Sides -> SUBSET Ids] /\ MaxQty \in Nat /\ Symbol \in Symbols
  BY SandboxAssumption, TrackedAssumption DEF Sides
<1>2. CASE m \in UNION {Adds(side) \cup Replaces(side) : side \in Sides}
  <2>1. PICK side \in Sides : m \in Adds(side) \cup Replaces(side)
    BY <1>2
  <2>2. CASE m \in Adds(side)
    BY <1>1, <2>1, <2>2 DEF Adds
  <2>3. CASE m \in Replaces(side)
    BY <1>1, <2>1, <2>3 DEF Replaces
  <2> QED BY <2>1, <2>2, <2>3
<1>3. CASE m \in [type : {"A"}, symbol : Symbols \ {Symbol}, ref : OtherRefs, side : {"Bid"},
                  price : Prices, qty : {MaxQty}]
  BY <1>1, <1>3 DEF OtherRefs, Sides
<1>4. CASE m \in [type : {"E", "X"}, ref : Ids, qty : 1..MaxQty]
  BY <1>1, <1>4
<1>5. CASE m \in [type : {"D"}, ref : Ids]
  BY <1>5
<1>6. \/ m \in UNION {Adds(side) \cup Replaces(side) : side \in Sides}
      \/ m \in [type : {"A"}, symbol : Symbols \ {Symbol}, ref : OtherRefs, side : {"Bid"},
               price : Prices, qty : {MaxQty}]
      \/ m \in [type : {"E", "X"}, ref : Ids, qty : 1..MaxQty]
      \/ m \in [type : {"D"}, ref : Ids]
  BY Zenon DEF Messages
<1> QED BY <1>2, <1>3, <1>4, <1>5, <1>6, Zenon

\* The index routes a reference to the book and the place where its order is.
LEMMA RouteIs ==
  ASSUME BookInv, NEW i \in Ids
  PROVE  /\ Found(i) = At(Book, i)
         /\ Unrouted(i) <=> At(Book, i) = {}
         /\ ~Unrouted(i) => owner[i] = Symbol
<1>1. NoOwner # Symbol
  BY TrackedAssumption, NoOwnerAssumption
<1>2. owner[i] \in {NoOwner, Symbol} /\ (owner[i] = Symbol <=> At(Book, i) # {})
  BY DEF BookInv
<1> QED BY <1>1, <1>2 DEF Found, Unrouted, Book

\* What a valid message is about to take shares from.
LEMMA HitIs ==
  ASSUME BookInv, NEW m \in Messages, m.type # "A", NEW p \in ToSet(Book), p.id = m.ref
  PROVE  Valid(m) /\ Hit(m) = p /\ p \in Orders
<1>1. Book \in Seq(Orders) /\ Unique(Book)
  BY TrackedAssumption DEF BookInv, Book
<1>2. PICK k \in DOMAIN Book : Book[k] = p
  BY DEF ToSet
<1>3. At(Book, m.ref) = {k} /\ (CHOOSE j \in At(Book, m.ref) : TRUE) = k
  BY <1>1, <1>2, PlaceIs
<1>4. Found(m.ref) = At(Book, m.ref)
  BY MessageFacts, RouteIs
<1>5. p \in Orders
  BY <1>1, <1>2, AtIs
<1> QED BY <1>2, <1>3, <1>4, <1>5 DEF Valid, Hit

\* Another book of the symbol, and the references that are in it.
LEMMA NewBook ==
  ASSUME BookInv, NEW new \in Seq(Orders), Unique(new), books' = [books EXCEPT ![Symbol] = new],
         owner' \in [Ids -> {NoOwner, Symbol}],
         \A i \in Ids : owner'[i] = Symbol <=> At(new, i) # {}
  PROVE  BookInv' /\ Book' = new
<1>1. Symbol \in Symbols /\ books \in [Symbols -> Seq(Orders)]
  BY TrackedAssumption DEF BookInv
<1>2. Book' = new /\ books' \in [Symbols -> Seq(Orders)]
  BY <1>1 DEF Book
<1>3. \A s \in Symbols \ {Symbol} : books'[s] = <<>>
  BY <1>1 DEF BookInv
<1> QED BY <1>2, <1>3 DEF BookInv

\* The book after a message: an add brings an order in, a reduction takes from
\* one, a removal takes one out, and a replace takes one out and may bring
\* another in.
BookChange(m) ==
  \/ Book' = Book /\ (m.type = "A" \/ At(Book, m.ref) = {})
  \/ /\ m.type = "A"
     /\ \E o \in Orders : /\ o.id = m.ref /\ At(Book, m.ref) = {}
                          /\ ToSet(Book') = ToSet(Book) \cup {o}
  \/ \E p \in ToSet(Book) :
       /\ p.id = m.ref
       /\ \/ /\ m.type \in {"E", "X", "D"} /\ (m.type # "D" => m.qty >= p.qty)
             /\ ToSet(Book') = ToSet(Book) \ {p}
          \/ /\ m.type \in {"E", "X"} /\ m.qty < p.qty
             /\ ToSet(Book') = (ToSet(Book) \ {p}) \cup {[p EXCEPT !.qty = p.qty - m.qty]}
          \/ /\ m.type = "U"
             /\ \/ ToSet(Book') = ToSet(Book) \ {p}
                \/ \E o \in Orders : /\ \A x \in ToSet(Book) \ {p} : x.id # o.id
                                     /\ ToSet(Book') = (ToSet(Book) \ {p}) \cup {o}

\* An add.
LEMMA AddChanges ==
  ASSUME BookInv, NEW m \in Messages, OnAdd(m)
  PROVE  BookInv' /\ BookChange(m)
<1>1. m.type = "A" /\ m.ref \in Ids /\ m.symbol \in Symbols /\ m.side \in Sides
      /\ m.price \in Prices /\ m.qty \in Nat
  BY MessageFacts DEF OnAdd
<1>2. Book \in Seq(Orders) /\ Unique(Book) /\ NoOwner # Symbol /\ Tracked = {Symbol}
  BY TrackedAssumption, NoOwnerAssumption DEF BookInv, Book
<1>3. CASE UNCHANGED <<books, owner>>
  BY <1>1, <1>3 DEF BookInv, BookChange, Book, At
<1>4. CASE /\ m.symbol = Symbol /\ Acceptable(books[m.symbol], m.ref, m.qty)
           /\ books' = [books EXCEPT ![m.symbol] =
                          Append(@, Resting(m.ref, m.side, m.price, m.qty))]
           /\ owner' = Noted(owner, m.ref, m.symbol)
  <2> DEFINE o == Resting(m.ref, m.side, m.price, m.qty)
             new == Append(Book, o)
  <2>1. o \in Orders /\ o.id = m.ref /\ At(Book, m.ref) = {}
    BY <1>1, <1>4 DEF Acceptable, Resting, Orders, Book
  <2>2. new \in Seq(Orders) /\ Unique(new) /\ ToSet(new) = ToSet(Book) \cup {o}
    BY <1>2, <2>1, AddOne
  <2>3. books' = [books EXCEPT ![Symbol] = new]
    BY <1>4 DEF BookInv, Book
  <2>4. owner[m.ref] = NoOwner /\ owner \in [Ids -> {NoOwner, Symbol}]
    BY <1>1, <1>2, <2>1 DEF BookInv
  <2>5. owner' = [owner EXCEPT ![m.ref] = Symbol]
    BY <1>4, <2>4 DEF Noted
  <2> HIDE DEF o, new
  <2>6. ASSUME NEW i \in Ids PROVE owner'[i] = Symbol <=> At(new, i) # {}
    <3>0. /\ At(new, i) # {} <=> \E x \in ToSet(new) : x.id = i
          /\ At(Book, i) # {} <=> \E x \in ToSet(Book) : x.id = i
      BY <1>2, <2>2, AtIs
    <3>1. At(new, i) # {} <=> At(Book, i) # {} \/ i = m.ref
      BY <2>1, <2>2, <3>0
    <3> QED BY <1>1, <2>4, <2>5, <3>1 DEF BookInv
  <2>7. BookInv' /\ Book' = new
    BY <1>1, <2>2, <2>3, <2>4, <2>5, <2>6, NewBook
  <2> QED BY <1>1, <2>1, <2>2, <2>7 DEF BookChange
<1>5. \/ UNCHANGED <<books, owner>>
      \/ /\ m.symbol = Symbol /\ Acceptable(books[m.symbol], m.ref, m.qty)
         /\ books' = [books EXCEPT ![m.symbol] =
                        Append(@, Resting(m.ref, m.side, m.price, m.qty))]
         /\ owner' = Noted(owner, m.ref, m.symbol)
  BY <1>2 DEF OnAdd
<1> QED BY <1>3, <1>4, <1>5

\* A message for a reference the index does not know changes nothing.
LEMMA UnknownChanges ==
  ASSUME BookInv, NEW m \in Messages, At(Book, m.ref) = {}, Unknown
  PROVE  BookInv' /\ BookChange(m)
  BY DEF Unknown, BookInv, BookChange, Book, At

\* An order is gone, from the book and from the index.
LEMMA GoneOne ==
  ASSUME BookInv, NEW k \in 1..Len(Book), NEW new, new = RemoveAt(Book, k)
  PROVE  /\ new \in Seq(Orders) /\ Unique(new) /\ ToSet(new) = ToSet(Book) \ {Book[k]}
         /\ Book[k] \in Orders /\ Book[k] \in ToSet(Book)
         /\ Forgotten(owner, Book[k].id) \in [Ids -> {NoOwner, Symbol}]
         /\ \A i \in Ids : Forgotten(owner, Book[k].id)[i] = Symbol <=> At(new, i) # {}
<1>1. Book \in Seq(Orders) /\ Unique(Book) /\ NoOwner # Symbol
  BY TrackedAssumption, NoOwnerAssumption DEF BookInv, Book
<1>2. new \in Seq(Orders) /\ Unique(new) /\ ToSet(new) = ToSet(Book) \ {Book[k]}
      /\ At(new, Book[k].id) = {}
  BY <1>1, RemoveOne
<1>3. Book[k] \in Orders /\ Book[k] \in ToSet(Book)
  BY <1>1, AtIs DEF ToSet
<1>4. owner \in [Ids -> {NoOwner, Symbol}] /\ Book[k].id \in Ids
  BY <1>3 DEF BookInv, Orders
<1>5. Forgotten(owner, Book[k].id) \in [Ids -> {NoOwner, Symbol}]
  BY <1>4 DEF Forgotten
<1>6. ASSUME NEW i \in Ids PROVE Forgotten(owner, Book[k].id)[i] = Symbol <=> At(new, i) # {}
  <2>1. CASE i = Book[k].id
    BY <1>1, <1>2, <1>4, <2>1 DEF Forgotten
  <2>2. CASE i # Book[k].id
    <3>1. At(new, i) # {} <=> At(Book, i) # {}
      <4>1. /\ At(new, i) # {} <=> \E x \in ToSet(new) : x.id = i
            /\ At(Book, i) # {} <=> \E x \in ToSet(Book) : x.id = i
        BY <1>1, <1>2, AtIs
      <4> QED BY <1>2, <2>2, <4>1
    <3> QED BY <1>4, <2>2, <3>1 DEF Forgotten, BookInv
  <2> QED BY <2>1, <2>2
<1> QED BY <1>2, <1>3, <1>5, <1>6

\* An execution or a cancel.
LEMMA ReduceChanges ==
  ASSUME BookInv, NEW m \in Messages, OnReduced(m)
  PROVE  BookInv' /\ BookChange(m)
<1>1. m.type \in {"E", "X"} /\ m.ref \in Ids /\ m.qty \in Nat \ {0}
  BY MessageFacts DEF OnReduced
<1>2. Book \in Seq(Orders) /\ Unique(Book) /\ Symbol \in Symbols /\ Book = books[Symbol]
      /\ owner \in [Ids -> {NoOwner, Symbol}]
  BY TrackedAssumption DEF BookInv, Book
<1>3. CASE At(Book, m.ref) = {}
  BY <1>1, <1>3, RouteIs, UnknownChanges DEF OnReduced
<1>4. CASE At(Book, m.ref) # {}
  <2>1. PICK k \in 1..Len(Book) : Book[k].id = m.ref
    BY <1>2, <1>4, AtIs
  <2>2. k \in DOMAIN Book
    BY <1>2, AtIs
  <2>3. At(Book, m.ref) = {k} /\ (CHOOSE j \in At(Book, m.ref) : TRUE) = k
    <3>1. At(Book, Book[k].id) = {k} /\ (CHOOSE j \in At(Book, Book[k].id) : TRUE) = k
      BY <1>2, <2>2, PlaceIs
    <3> QED BY <2>1, <3>1
  <2>4. owner[m.ref] = Symbol /\ ~Unrouted(m.ref)
    BY <1>1, <1>4, RouteIs
  <2> DEFINE p == Book[k]
             take == IF m.qty < p.qty THEN m.qty ELSE p.qty
  <2>5. p \in Orders /\ p \in ToSet(Book) /\ p.id = m.ref /\ p.qty \in Nat \ {0}
    BY <2>1, GoneOne DEF Orders
  <2>6. /\ books' = [books EXCEPT ![Symbol] = Reduced(@, k, take)]
        /\ owner' = IF take = p.qty THEN Forgotten(owner, m.ref) ELSE owner
    BY <1>2, <2>3, <2>4 DEF OnReduced
  <2>7. books' = [books EXCEPT ![Symbol] = Reduced(Book, k, take)]
    BY <1>2, <2>6 DEF BookInv
  <2>8. CASE m.qty >= p.qty
    <3>1. take = p.qty
      BY <1>1, <2>5, <2>8
    <3>2. PICK new : new = RemoveAt(Book, k)
      OBVIOUS
    <3>3. books' = [books EXCEPT ![Symbol] = new] /\ owner' = Forgotten(owner, p.id)
      BY <2>5, <2>6, <2>7, <3>1, <3>2 DEF Reduced
    <3>4. /\ new \in Seq(Orders) /\ Unique(new) /\ ToSet(new) = ToSet(Book) \ {p}
          /\ Forgotten(owner, p.id) \in [Ids -> {NoOwner, Symbol}]
          /\ \A i \in Ids : Forgotten(owner, p.id)[i] = Symbol <=> At(new, i) # {}
      BY <3>2, GoneOne
    <3> HIDE DEF p
    <3>5. BookInv' /\ Book' = new
      BY <3>3, <3>4, NewBook
    <3> QED BY <1>1, <2>5, <2>8, <3>4, <3>5 DEF BookChange
  <2>9. CASE m.qty < p.qty
    <3>1. take = m.qty /\ take # p.qty /\ p.qty - m.qty \in Nat \ {0}
      BY <1>1, <2>5, <2>9
    <3> DEFINE n == p.qty - m.qty
    <3>2. PICK new : new = Shrunk(Book, k, n)
      OBVIOUS
    <3>3. books' = [books EXCEPT ![Symbol] = new] /\ owner' = owner
      BY <2>6, <2>7, <3>1, <3>2 DEF Reduced, Shrunk
    <3>4. /\ new \in Seq(Orders) /\ Unique(new)
          /\ ToSet(new) = (ToSet(Book) \ {p}) \cup {[p EXCEPT !.qty = n]}
      <4>1. n \in Nat \ {0}
        BY <3>1
      <4> HIDE DEF n
      <4>2. Book \in Seq(Orders) /\ Unique(Book) /\ k \in 1..Len(Book)
        BY <1>2
      <4>3. /\ new \in Seq(Orders) /\ Unique(new)
            /\ ToSet(new) = (ToSet(Book) \ {Book[k]}) \cup {[Book[k] EXCEPT !.qty = n]}
        BY <3>2, <4>1, <4>2, ShrinkOne
      <4> QED BY <4>3
    <3>5. [p EXCEPT !.qty = n].id = p.id
      BY <2>5 DEF Orders
    <3>6. ASSUME NEW i \in Ids PROVE At(new, i) # {} <=> At(Book, i) # {}
      <4>1. /\ At(new, i) # {} <=> \E x \in ToSet(new) : x.id = i
            /\ At(Book, i) # {} <=> \E x \in ToSet(Book) : x.id = i
        BY <1>2, <3>4, AtIs
      <4> HIDE DEF p, n
      <4> QED BY <2>5, <3>4, <3>5, <4>1
    <3>7. BookInv' /\ Book' = new
      <4>1. \A i \in Ids : owner'[i] = Symbol <=> At(new, i) # {}
        BY <3>3, <3>6 DEF BookInv
      <4> QED BY <1>2, <3>3, <3>4, <4>1, NewBook
    <3> QED BY <1>1, <2>5, <2>9, <3>4, <3>7 DEF BookChange
  <2> QED BY <1>1, <2>5, <2>8, <2>9
<1> QED BY <1>3, <1>4

\* A removal.
LEMMA DeleteChanges ==
  ASSUME BookInv, NEW m \in Messages, OnDelete(m)
  PROVE  BookInv' /\ BookChange(m)
<1>1. m.type = "D" /\ m.ref \in Ids
  BY MessageFacts DEF OnDelete
<1>2. Book \in Seq(Orders) /\ Unique(Book) /\ Book = books[Symbol]
  BY TrackedAssumption DEF BookInv, Book
<1>3. CASE At(Book, m.ref) = {}
  BY <1>1, <1>3, RouteIs, UnknownChanges DEF OnDelete
<1>4. CASE At(Book, m.ref) # {}
  <2>1. PICK k \in 1..Len(Book) : Book[k].id = m.ref
    BY <1>2, <1>4, AtIs
  <2>2. k \in DOMAIN Book
    BY <1>2, AtIs
  <2>3. At(Book, m.ref) = {k} /\ (CHOOSE j \in At(Book, m.ref) : TRUE) = k
    <3>1. At(Book, Book[k].id) = {k} /\ (CHOOSE j \in At(Book, Book[k].id) : TRUE) = k
      BY <1>2, <2>2, PlaceIs
    <3> QED BY <2>1, <3>1
  <2>4. owner[m.ref] = Symbol /\ ~Unrouted(m.ref)
    BY <1>1, <1>4, RouteIs
  <2>5. PICK new : new = RemoveAt(Book, k)
    OBVIOUS
  <2>6. /\ books' = [books EXCEPT ![Symbol] = Without(books[Symbol], m.ref)]
        /\ owner' = Forgotten(owner, m.ref)
    BY <2>4 DEF OnDelete, BookInv
  <2>7. books' = [books EXCEPT ![Symbol] = new]
    BY <1>2, <2>3, <2>5, <2>6 DEF Without
  <2>8. /\ new \in Seq(Orders) /\ Unique(new) /\ ToSet(new) = ToSet(Book) \ {Book[k]}
        /\ Book[k] \in ToSet(Book)
        /\ Forgotten(owner, m.ref) \in [Ids -> {NoOwner, Symbol}]
        /\ \A i \in Ids : Forgotten(owner, m.ref)[i] = Symbol <=> At(new, i) # {}
    BY <2>1, <2>5, GoneOne
  <2>9. BookInv' /\ Book' = new
    BY <2>6, <2>7, <2>8, NewBook
  <2> QED BY <1>1, <2>1, <2>8, <2>9 DEF BookChange
<1> QED BY <1>3, <1>4

\* A replace.
LEMMA ReplaceChanges ==
  ASSUME BookInv, NEW m \in Messages, OnReplace(m)
  PROVE  BookInv' /\ BookChange(m)
<1>1. m.type = "U" /\ m.ref \in Ids /\ m.newRef \in Ids /\ m.price \in Prices /\ m.qty \in Nat
  BY MessageFacts DEF OnReplace
<1>2. Book \in Seq(Orders) /\ Unique(Book) /\ Book = books[Symbol] /\ NoOwner # Symbol
  BY TrackedAssumption, NoOwnerAssumption DEF BookInv, Book
<1>3. CASE At(Book, m.ref) = {}
  BY <1>1, <1>3, RouteIs, UnknownChanges DEF OnReplace
<1>4. CASE At(Book, m.ref) # {}
  <2>1. Found(m.ref) = At(Book, m.ref) /\ owner[m.ref] = Symbol
    BY <1>1, <1>4, RouteIs
  <2>2. PICK k \in At(Book, m.ref) :
          LET rest == RemoveAt(Book, k)
              gone == Forgotten(owner, m.ref)
          IN IF Acceptable(rest, m.newRef, m.qty)
             THEN /\ books' = [books EXCEPT ![Symbol] =
                       Append(rest, Resting(m.newRef, Book[k].side, m.price, m.qty))]
                  /\ owner' = Noted(gone, m.newRef, Symbol)
             ELSE books' = [books EXCEPT ![Symbol] = rest] /\ owner' = gone
    BY <1>2, <1>4, <2>1 DEF OnReplace
  <2>3. k \in 1..Len(Book) /\ Book[k].id = m.ref
    BY <1>2, AtIs
  <2>4. PICK rest : rest = RemoveAt(Book, k)
    OBVIOUS
  <2>5. PICK gone : gone = Forgotten(owner, m.ref)
    OBVIOUS
  <2> DEFINE p == Book[k]
  <2>6. /\ rest \in Seq(Orders) /\ Unique(rest) /\ ToSet(rest) = ToSet(Book) \ {p}
        /\ p \in ToSet(Book) /\ p.id = m.ref /\ p.side \in Sides
        /\ gone \in [Ids -> {NoOwner, Symbol}]
        /\ \A i \in Ids : gone[i] = Symbol <=> At(rest, i) # {}
    BY <2>3, <2>4, <2>5, GoneOne DEF Orders
  <2> HIDE DEF p
  <2>7. CASE ~Acceptable(rest, m.newRef, m.qty)
    <3>1. books' = [books EXCEPT ![Symbol] = rest] /\ owner' = gone
      BY <2>2, <2>4, <2>5, <2>7
    <3>2. BookInv' /\ Book' = rest
      BY <2>6, <3>1, NewBook
    <3> QED BY <1>1, <2>6, <3>2 DEF BookChange
  <2>8. CASE Acceptable(rest, m.newRef, m.qty)
    <3>1. PICK o : o = Resting(m.newRef, p.side, m.price, m.qty)
      OBVIOUS
    <3>2. o \in Orders /\ o.id = m.newRef /\ At(rest, o.id) = {}
      BY <1>1, <2>6, <2>8, <3>1 DEF Acceptable, Resting, Orders
    <3>3. PICK new : new = Append(rest, o)
      OBVIOUS
    <3>4. new \in Seq(Orders) /\ Unique(new) /\ ToSet(new) = ToSet(rest) \cup {o}
      BY <2>6, <3>2, <3>3, AddOne
    <3>5. books' = [books EXCEPT ![Symbol] = new] /\ owner' = Noted(gone, o.id, Symbol)
      BY <2>2, <2>4, <2>5, <2>8, <3>1, <3>2, <3>3 DEF p
    <3>6. gone[o.id] = NoOwner
      BY <1>1, <1>2, <2>6, <3>2
    <3>7. owner' = [gone EXCEPT ![o.id] = Symbol]
      BY <3>5, <3>6 DEF Noted
    <3>8. ASSUME NEW i \in Ids PROVE owner'[i] = Symbol <=> At(new, i) # {}
      <4>0. /\ At(new, i) # {} <=> \E x \in ToSet(new) : x.id = i
            /\ At(rest, i) # {} <=> \E x \in ToSet(rest) : x.id = i
        BY <2>6, <3>4, AtIs
      <4>1. At(new, i) # {} <=> At(rest, i) # {} \/ i = o.id
        BY <3>4, <4>0
      <4> QED BY <2>6, <3>7, <4>1
    <3>9. owner' \in [Ids -> {NoOwner, Symbol}]
      BY <2>6, <3>7
    <3>a. BookInv' /\ Book' = new
      BY <3>4, <3>5, <3>8, <3>9, NewBook
    <3>b. \A x \in ToSet(Book) \ {p} : x.id # o.id
      BY <2>6, <3>2, AtIs
    <3>c. ToSet(Book') = (ToSet(Book) \ {p}) \cup {o}
      BY <2>6, <3>4, <3>a
    <3> QED BY <1>1, <2>6, <3>2, <3>a, <3>b, <3>c DEF BookChange
  <2> QED BY <2>7, <2>8
<1> QED BY <1>3, <1>4

\* Any message.
LEMMA BookStep ==
  ASSUME BookInv, NEW m \in Messages, Apply(m)
  PROVE  BookInv' /\ BookChange(m)
  BY AddChanges, ReduceChanges, DeleteChanges, ReplaceChanges DEF Apply

\* What a message means for one reference: its order stays as it is, or it
\* enters, or it is the one that is hit, and leaves, shrinks or is replaced
\* under the same reference.
LEMMA RefStep ==
  ASSUME BookInv, NEW m \in Messages, Apply(m), NEW i \in Ids, NEW side, NEW price,
         NEW x, x = AtLevel(Book, side, price)[i], NEW y, y = AtLevel(Book', side, price)[i]
  PROVE  \/ /\ y = x /\ i \notin Entered(m) /\ (i = m.ref => ~Valid(m))
            /\ At(Book', i) # {} <=> At(Book, i) # {}
         \/ /\ At(Book, i) = {} /\ x = 0 /\ At(Book', i) # {} /\ i \in Entered(m)
            /\ i = m.ref => ~Valid(m)
         \/ /\ i = m.ref /\ Valid(m) /\ Hit(m) \in Orders
            /\ x = IF Hit(m).side = side /\ Hit(m).price = price THEN Hit(m).qty ELSE 0
            /\ \/ At(Book', i) = {} /\ y = 0 /\ Leaving(m) >= Hit(m).qty
               \/ /\ At(Book', i) # {} /\ i \notin Entered(m)
                  /\ m.type \in {"E", "X"} /\ m.qty < Hit(m).qty
                  /\ y = IF Hit(m).side = side /\ Hit(m).price = price
                         THEN Hit(m).qty - m.qty ELSE 0
               \/ At(Book', i) # {} /\ i \in Entered(m) /\ m.type = "U"
<1>1. /\ Book \in Seq(Orders) /\ Unique(Book)
      /\ Book' \in Seq(Orders) /\ Unique(Book')
      /\ BookChange(m)
  BY BookStep, TrackedAssumption DEF BookInv, Book
<1>2. /\ At(Book, i) # {} <=> \E o \in ToSet(Book) : o.id = i
      /\ At(Book', i) # {} <=> \E o \in ToSet(Book') : o.id = i
  BY <1>1, AtIs
<1>3. /\ At(Book, i) = {} => x = 0
      /\ \A o \in ToSet(Book) : o.id = i => x = IF o.side = side /\ o.price = price THEN o.qty ELSE 0
      /\ At(Book', i) = {} => y = 0
      /\ \A o \in ToSet(Book') : o.id = i => y = IF o.side = side /\ o.price = price THEN o.qty ELSE 0
  BY <1>1, AtLevelIs
<1>4. /\ m.type \in {"A", "U", "E", "X", "D"} /\ m.ref \in Ids
      /\ Found(m.ref) = At(Book, m.ref)
      /\ i \in Entered(m) <=> /\ At(Book', i) # {}
                              /\ At(Book, i) = {} \/ (m.type = "U" /\ m.ref = i)
  BY MessageFacts, RouteIs DEF Entered
<1>5. ASSUME {o \in ToSet(Book') : o.id = i} = {o \in ToSet(Book) : o.id = i}
      PROVE  y = x /\ (At(Book', i) # {} <=> At(Book, i) # {})
  <2>1. At(Book', i) # {} <=> At(Book, i) # {}
    BY <1>2, <1>5
  <2>2. CASE At(Book, i) = {}
    BY <1>3, <2>1, <2>2
  <2>3. CASE At(Book, i) # {}
    <3>1. PICK o \in ToSet(Book) : o.id = i
      BY <1>2, <2>3
    <3>2. o \in ToSet(Book')
      BY <1>5, <3>1
    <3>3. x = IF o.side = side /\ o.price = price THEN o.qty ELSE 0
      BY <1>3, <3>1
    <3>4. y = IF o.side = side /\ o.price = price THEN o.qty ELSE 0
      BY <1>3, <3>1, <3>2
    <3> QED BY <2>1, <3>3, <3>4
  <2> QED BY <2>1, <2>2, <2>3
<1>a. CASE Book' = Book /\ (m.type = "A" \/ At(Book, m.ref) = {})
  <2>1. ~Valid(m)
    BY <1>4, <1>a DEF Valid
  <2>2. i \notin Entered(m)
    BY <1>4, <1>a
  <2> QED BY <1>5, <1>a, <2>1, <2>2
<1>b. ASSUME m.type = "A", NEW o \in Orders, o.id = m.ref, At(Book, m.ref) = {},
             ToSet(Book') = ToSet(Book) \cup {o}
      PROVE  \/ /\ y = x /\ i \notin Entered(m) /\ ~Valid(m)
                /\ At(Book', i) # {} <=> At(Book, i) # {}
             \/ /\ At(Book, i) = {} /\ x = 0 /\ At(Book', i) # {} /\ i \in Entered(m) /\ ~Valid(m)
  <2>1. ~Valid(m)
    BY <1>b DEF Valid
  <2>2. CASE i = m.ref
    <3>1. At(Book, i) = {} /\ At(Book', i) # {}
      BY <1>2, <1>b, <2>2
    <3> QED BY <1>3, <1>4, <2>1, <3>1
  <2>3. CASE i # m.ref
    <3>1. {q \in ToSet(Book') : q.id = i} = {q \in ToSet(Book) : q.id = i}
      BY <1>b, <2>3
    <3>2. y = x /\ (At(Book', i) # {} <=> At(Book, i) # {})
      BY <1>5, <3>1
    <3> QED BY <1>4, <1>b, <2>1, <3>2
  <2> QED BY <2>2, <2>3
<1>c. ASSUME NEW p \in ToSet(Book), p.id = m.ref, m.type # "A"
      PROVE  /\ Valid(m) /\ Hit(m) = p /\ p \in Orders
             /\ \A q \in ToSet(Book) : q.id = m.ref => q = p
             /\ i = m.ref => /\ At(Book, i) # {}
                             /\ x = IF p.side = side /\ p.price = price THEN p.qty ELSE 0
  BY <1>1, <1>2, <1>3, <1>c, HitIs, OneOrder
<1>d. ASSUME NEW p \in ToSet(Book), p.id = m.ref, m.type # "A", i # m.ref,
             {o \in ToSet(Book') : o.id = i} = {o \in ToSet(Book) : o.id = i}
      PROVE  /\ y = x /\ i \notin Entered(m) /\ (i = m.ref => ~Valid(m))
             /\ At(Book', i) # {} <=> At(Book, i) # {}
  BY <1>4, <1>5, <1>d
<1>e. ASSUME NEW p \in ToSet(Book), p.id = m.ref, m.type \in {"E", "X", "D", "U"},
             m.type \in {"E", "X"} => m.qty >= p.qty, ToSet(Book') = ToSet(Book) \ {p}
      PROVE  \/ /\ y = x /\ i \notin Entered(m) /\ (i = m.ref => ~Valid(m))
                /\ At(Book', i) # {} <=> At(Book, i) # {}
             \/ /\ i = m.ref /\ Valid(m) /\ Hit(m) \in Orders
                /\ x = IF Hit(m).side = side /\ Hit(m).price = price THEN Hit(m).qty ELSE 0
                /\ At(Book', i) = {} /\ y = 0 /\ Leaving(m) >= Hit(m).qty
  <2>1. /\ Valid(m) /\ Hit(m) = p /\ p \in Orders
        /\ \A q \in ToSet(Book) : q.id = m.ref => q = p
        /\ i = m.ref => x = IF p.side = side /\ p.price = price THEN p.qty ELSE 0
    BY <1>c, <1>e
  <2>2. CASE i = m.ref
    <3>1. At(Book', i) = {}
      BY <1>2, <1>e, <2>1, <2>2
    <3>2. Leaving(m) >= p.qty
      BY <1>e, <2>1 DEF Leaving, Orders
    <3> QED BY <1>3, <2>1, <2>2, <3>1, <3>2
  <2>3. CASE i # m.ref
    <3>1. {o \in ToSet(Book') : o.id = i} = {o \in ToSet(Book) : o.id = i}
      BY <1>e, <2>3
    <3> QED BY <1>d, <1>e, <2>3, <3>1
  <2> QED BY <2>2, <2>3
<1>f. ASSUME NEW p \in ToSet(Book), p.id = m.ref, m.type \in {"E", "X"}, m.qty < p.qty,
             ToSet(Book') = (ToSet(Book) \ {p}) \cup {[p EXCEPT !.qty = p.qty - m.qty]}
      PROVE  \/ /\ y = x /\ i \notin Entered(m) /\ (i = m.ref => ~Valid(m))
                /\ At(Book', i) # {} <=> At(Book, i) # {}
             \/ /\ i = m.ref /\ Valid(m) /\ Hit(m) \in Orders
                /\ x = IF Hit(m).side = side /\ Hit(m).price = price THEN Hit(m).qty ELSE 0
                /\ At(Book', i) # {} /\ i \notin Entered(m) /\ m.qty < Hit(m).qty
                /\ y = IF Hit(m).side = side /\ Hit(m).price = price
                       THEN Hit(m).qty - m.qty ELSE 0
  <2>1. /\ Valid(m) /\ Hit(m) = p /\ p \in Orders
        /\ i = m.ref => /\ At(Book, i) # {}
                        /\ x = IF p.side = side /\ p.price = price THEN p.qty ELSE 0
    BY <1>c, <1>f
  <2>2. PICK o : o = [p EXCEPT !.qty = p.qty - m.qty]
    OBVIOUS
  <2>3. o.id = p.id /\ o.side = p.side /\ o.price = p.price /\ o.qty = p.qty - m.qty
    BY <2>1, <2>2 DEF Orders
  <2>4. ToSet(Book') = (ToSet(Book) \ {p}) \cup {o}
    BY <1>f, <2>2
  <2>5. CASE i = m.ref
    <3>1. At(Book', i) # {} /\ y = IF o.side = side /\ o.price = price THEN o.qty ELSE 0
      BY <1>2, <1>3, <1>f, <2>3, <2>4, <2>5
    <3>2. i \notin Entered(m)
      BY <1>4, <1>f, <2>1, <2>5
    <3> QED BY <1>f, <2>1, <2>3, <2>5, <3>1, <3>2
  <2>6. CASE i # m.ref
    <3>1. {q \in ToSet(Book') : q.id = i} = {q \in ToSet(Book) : q.id = i}
      BY <1>f, <2>3, <2>4, <2>6
    <3> QED BY <1>d, <1>f, <2>6, <3>1
  <2> QED BY <2>5, <2>6
<1>g. ASSUME NEW p \in ToSet(Book), p.id = m.ref, m.type = "U",
             NEW o \in Orders, \A q \in ToSet(Book) \ {p} : q.id # o.id,
             ToSet(Book') = (ToSet(Book) \ {p}) \cup {o}
      PROVE  \/ /\ y = x /\ i \notin Entered(m) /\ (i = m.ref => ~Valid(m))
                /\ At(Book', i) # {} <=> At(Book, i) # {}
             \/ /\ At(Book, i) = {} /\ x = 0 /\ At(Book', i) # {} /\ i \in Entered(m)
                /\ i = m.ref => ~Valid(m)
             \/ /\ i = m.ref /\ Valid(m) /\ Hit(m) \in Orders
                /\ x = IF Hit(m).side = side /\ Hit(m).price = price THEN Hit(m).qty ELSE 0
                /\ \/ At(Book', i) = {} /\ y = 0 /\ Leaving(m) >= Hit(m).qty
                   \/ At(Book', i) # {} /\ i \in Entered(m)
  <2>1. /\ Valid(m) /\ Hit(m) = p /\ p \in Orders
        /\ \A q \in ToSet(Book) : q.id = m.ref => q = p
        /\ i = m.ref => x = IF p.side = side /\ p.price = price THEN p.qty ELSE 0
    BY <1>c, <1>g
  <2>2. CASE i = m.ref /\ o.id = m.ref
    <3>1. At(Book', i) # {}
      BY <1>2, <1>g, <2>2
    <3> QED BY <1>4, <1>g, <2>1, <2>2, <3>1
  <2>3. CASE i = m.ref /\ o.id # m.ref
    <3>1. At(Book', i) = {}
      BY <1>2, <1>g, <2>1, <2>3
    <3>2. Leaving(m) >= p.qty
      BY <1>g, <2>1 DEF Leaving, Orders
    <3> QED BY <1>3, <2>1, <2>3, <3>1, <3>2
  <2>4. CASE i # m.ref /\ o.id = i
    <3>1. At(Book', i) # {} /\ At(Book, i) = {}
      BY <1>2, <1>g, <2>4
    <3> QED BY <1>3, <1>4, <2>4, <3>1
  <2>5. CASE i # m.ref /\ o.id # i
    <3>1. {q \in ToSet(Book') : q.id = i} = {q \in ToSet(Book) : q.id = i}
      BY <1>g, <2>5
    <3> QED BY <1>d, <1>g, <2>5, <3>1
  <2> QED BY <2>2, <2>3, <2>4, <2>5
<1>h. CASE \E p \in ToSet(Book) :
             /\ p.id = m.ref
             /\ \/ /\ m.type \in {"E", "X", "D"} /\ (m.type # "D" => m.qty >= p.qty)
                   /\ ToSet(Book') = ToSet(Book) \ {p}
                \/ m.type = "U" /\ ToSet(Book') = ToSet(Book) \ {p}
  <2>1. PICK p \in ToSet(Book) : /\ p.id = m.ref /\ m.type \in {"E", "X", "D", "U"}
                                 /\ m.type \in {"E", "X"} => m.qty >= p.qty
                                 /\ ToSet(Book') = ToSet(Book) \ {p}
    BY <1>h
  <2> QED BY <1>e, <2>1
<1>i. CASE \E p \in ToSet(Book) :
             /\ p.id = m.ref /\ m.type \in {"E", "X"} /\ m.qty < p.qty
             /\ ToSet(Book') = (ToSet(Book) \ {p}) \cup {[p EXCEPT !.qty = p.qty - m.qty]}
  <2>1. PICK p \in ToSet(Book) :
          /\ p.id = m.ref /\ m.type \in {"E", "X"} /\ m.qty < p.qty
          /\ ToSet(Book') = (ToSet(Book) \ {p}) \cup {[p EXCEPT !.qty = p.qty - m.qty]}
    BY <1>i
  <2> QED BY <1>f, <2>1
<1>j. CASE \E p \in ToSet(Book) :
             /\ p.id = m.ref /\ m.type = "U"
             /\ \E o \in Orders : /\ \A q \in ToSet(Book) \ {p} : q.id # o.id
                                  /\ ToSet(Book') = (ToSet(Book) \ {p}) \cup {o}
  <2>1. PICK p \in ToSet(Book), o \in Orders :
          /\ p.id = m.ref /\ m.type = "U" /\ \A q \in ToSet(Book) \ {p} : q.id # o.id
          /\ ToSet(Book') = (ToSet(Book) \ {p}) \cup {o}
    BY <1>j
  <2> QED BY <1>g, <2>1
<1>k. CASE /\ m.type = "A"
           /\ \E o \in Orders : /\ o.id = m.ref /\ At(Book, m.ref) = {}
                                /\ ToSet(Book') = ToSet(Book) \cup {o}
  <2>1. PICK o \in Orders : o.id = m.ref /\ At(Book, m.ref) = {} /\ ToSet(Book') = ToSet(Book) \cup {o}
    BY <1>k
  <2> QED BY <1>b, <1>k, <2>1
<1> QED BY <1>1, <1>a, <1>h, <1>i, <1>j, <1>k, Zenon DEF BookChange

-----------------------------------------------------------------------------
(* The quotes.                                                             *)

\* What a fill model takes, and from where.
LEMMA LeavingIs ==
  ASSUME BookInv, NEW m \in Messages, Valid(m)
  PROVE  Hit(m) \in ToSet(Book) /\ Hit(m).id = m.ref /\ Hit(m) \in Orders /\ Leaving(m) \in Nat \ {0}
<1>1. Book \in Seq(Orders) /\ Unique(Book)
  BY TrackedAssumption DEF BookInv, Book
<1>2. m.type # "A" /\ m.ref \in Ids /\ At(Book, m.ref) # {}
  BY MessageFacts, RouteIs DEF Valid
<1>3. PICK p \in ToSet(Book) : p.id = m.ref
  BY <1>1, <1>2, AtIs
<1>4. Hit(m) = p /\ p \in Orders
  BY <1>2, <1>3, HitIs
<1>5. Leaving(m) \in Nat \ {0}
  BY <1>2, <1>4, MessageFacts DEF Leaving, Orders
<1> QED BY <1>3, <1>4, <1>5

\* The smaller of two numbers.
LEMMA Min2Is ==
  ASSUME NEW a \in Nat, NEW b \in Nat
  PROVE  /\ Min2(a, b) \in Nat /\ Min2(a, b) <= b /\ (a >= b => Min2(a, b) = b)
         /\ (a < b => Min2(a, b) = a) /\ b - Min2(a, b) \in Nat
         /\ (a # 0 /\ b # 0 => Min2(a, b) # 0)
  BY DEF Min2

\* What is ahead of a quote, read off the book.
LEMMA ExactIs ==
  ASSUME QueueExact, NEW side \in Sides, quotes[side].active, NEW i \in Ids
  PROVE  quotes[side].ahead[i] =
           IF i \in behind[side] THEN 0 ELSE AtLevel(Book, side, quotes[side].price)[i]
  BY DEF QueueExact

\* A message leaves a quote alone, or fills some of it, or takes shares out of
\* the queue in front of it.
LEMMA MovedIs ==
  ASSUME BookInv, QuoteInv, NEW m \in Messages, NEW side \in Sides,
         NEW q, q = quotes[side], NEW r, r = Moved(m)[side]
  PROVE  /\ q \in QuoteTypes /\ r \in QuoteTypes /\ DOMAIN Moved(m) = Sides
         /\ r.price = q.price /\ (r.active => q.active) /\ r.remaining <= q.remaining
         /\ \/ r = q /\ ~(queueModel /\ Valid(m) /\ lastMid # NoMid)
            \/ /\ r.ahead = q.ahead /\ Reached(m) /\ Valid(m) /\ m.type = "E"
               /\ Hit(m).side = side => q.ahead = Nobody /\ q.price = Hit(m).price
            \/ /\ r = OnSharesRemoved(q, m.ref, Leaving(m)) /\ Valid(m) /\ ~Reached(m)
<1>1. q \in QuoteTypes /\ DOMAIN quotes = Sides /\ m.ref \in Ids
  BY MessageFacts DEF QuoteInv
<1>2. CASE ~(queueModel /\ Valid(m) /\ lastMid # NoMid)
  BY <1>1, <1>2 DEF Moved, QuoteTypes
<1>3. CASE queueModel /\ Valid(m) /\ lastMid # NoMid /\ Reached(m)
  <2>1. PICK s : s = Hit(m).side
    OBVIOUS
  <2>2. s \in Sides /\ Leaving(m) \in Nat /\ quotes[s] \in QuoteTypes
    BY <1>3, <2>1, LeavingIs DEF Orders, QuoteInv
  <2>3. PICK left : left = quotes[s].remaining - Min2(Leaving(m), quotes[s].remaining)
    OBVIOUS
  <2>4. left \in Nat /\ left <= quotes[s].remaining
    <3>1. PICK a : a = Leaving(m)
      OBVIOUS
    <3>2. PICK b : b = quotes[s].remaining
      OBVIOUS
    <3>3. a \in Nat /\ b \in Nat /\ left = b - Min2(a, b)
      BY <2>2, <2>3, <3>1, <3>2 DEF QuoteTypes
    <3>4. Min2(a, b) \in Nat /\ b - Min2(a, b) \in Nat
      BY <3>3, Min2Is
    <3> QED BY <3>2, <3>3, <3>4
  <2>5. Moved(m) = [quotes EXCEPT ![s].remaining = left, ![s].active = left > 0]
    BY <1>3, <2>1, <2>3 DEF Moved, TakeFill
  <2>6. quotes[s].active /\ quotes[s].ahead = Nobody /\ quotes[s].price = Hit(m).price /\ m.type = "E"
    BY <1>3, <2>1 DEF Reached, AtFront
  <2>7. /\ r.price = q.price /\ (r.active => q.active) /\ r.remaining <= q.remaining
        /\ r \in QuoteTypes /\ r.ahead = q.ahead
    <3>1. CASE side = s
      <4>1. r = [q EXCEPT !.remaining = left, !.active = left > 0]
        BY <1>1, <2>5, <3>1 DEF QuoteInv
      <4>2. q.active
        BY <2>6, <3>1
      <4>3. left <= q.remaining
        BY <2>4, <3>1
      <4>4. PICK live \in BOOLEAN : live = (left > 0)
        <5>1. (left > 0) \in BOOLEAN
          BY <2>4
        <5> QED BY <5>1, Zenon
      <4>5. r = [q EXCEPT !.remaining = left, !.active = live]
        BY <4>1, <4>4
      <4>6. /\ r = [active |-> live, price |-> q.price, remaining |-> left, ahead |-> q.ahead]
            /\ q.price \in Int /\ q.ahead \in [Ids -> Nat]
        BY <1>1, <4>5 DEF QuoteTypes
      <4>7. r \in QuoteTypes
        BY <2>4, <4>4, <4>6 DEF QuoteTypes
      <4> QED BY <4>2, <4>3, <4>6, <4>7
    <3>2. CASE side # s
      BY <1>1, <2>5, <3>2 DEF QuoteInv, QuoteTypes
    <3> QED BY <3>1, <3>2
  <2> QED BY <1>1, <1>3, <2>1, <2>5, <2>6, <2>7
<1>4. CASE queueModel /\ Valid(m) /\ lastMid # NoMid /\ ~Reached(m)
  <2>1. Moved(m) = [s \in Sides |-> OnSharesRemoved(quotes[s], m.ref, Leaving(m))]
    BY <1>4 DEF Moved
  <2>2. r = OnSharesRemoved(q, m.ref, Leaving(m))
    BY <2>1
  <2>3. Leaving(m) \in Nat /\ q.ahead[m.ref] \in Nat
    BY <1>1, <1>4, LeavingIs DEF QuoteTypes
  <2>4. q.ahead[m.ref] - Min2(Leaving(m), q.ahead[m.ref]) \in Nat
    BY <2>3, Min2Is
  <2>5. r \in QuoteTypes /\ r.price = q.price /\ r.active = q.active /\ r.remaining = q.remaining
    BY <1>1, <2>2, <2>4 DEF OnSharesRemoved, QuoteTypes
  <2> QED BY <1>1, <1>4, <2>1, <2>2, <2>5 DEF QuoteTypes
<1> QED BY <1>2, <1>3, <1>4

\* The estimate follows the book, whatever happens to a reference.
LEMMA StillExact ==
  ASSUME BookInv, QuoteInv, NEW m \in Messages, Apply(m), NEW side \in Sides,
         Moved(m)[side].active, NEW i \in Ids
  PROVE  Moved(m)[side].ahead[i] =
           IF i \in behind[side] \cup Entered(m) /\ At(Book', i) # {} THEN 0
           ELSE AtLevel(Book', side, quotes[side].price)[i]
<1>1. PICK q : q = quotes[side]
  OBVIOUS
<1>2. PICK r : r = Moved(m)[side]
  OBVIOUS
<1>3. /\ q \in QuoteTypes /\ r \in QuoteTypes /\ r.price = q.price /\ (r.active => q.active)
      /\ \/ r = q /\ ~(queueModel /\ Valid(m) /\ lastMid # NoMid)
         \/ /\ r.ahead = q.ahead /\ Reached(m) /\ Valid(m) /\ m.type = "E"
            /\ Hit(m).side = side => q.ahead = Nobody /\ q.price = Hit(m).price
         \/ r = OnSharesRemoved(q, m.ref, Leaving(m)) /\ Valid(m) /\ ~Reached(m)
  BY <1>1, <1>2, MovedIs
<1>4. q.active /\ queueModel /\ lastMid # NoMid
  BY <1>1, <1>2, <1>3 DEF QuoteInv
<1>5. PICK x : x = AtLevel(Book, side, q.price)[i]
  OBVIOUS
<1>6. PICK y : y = AtLevel(Book', side, q.price)[i]
  OBVIOUS
<1>7. q.ahead[i] = IF i \in behind[side] THEN 0 ELSE x
  BY <1>1, <1>4, <1>5, ExactIs DEF QuoteInv
<1>8. /\ x \in Nat /\ y \in Nat
      /\ At(Book, i) = {} => x = 0
      /\ At(Book', i) = {} => y = 0
  <2>1. Book \in Seq(Orders) /\ Unique(Book) /\ Book' \in Seq(Orders) /\ Unique(Book')
    BY BookStep, TrackedAssumption DEF BookInv, Book
  <2> QED BY <1>5, <1>6, <2>1, AtLevelIs
<1> DEFINE Want == IF i \in behind[side] \cup Entered(m) /\ At(Book', i) # {} THEN 0 ELSE y
<1>9. SUFFICES r.ahead[i] = Want
  BY <1>1, <1>2, <1>6
<1>a. CASE \/ /\ y = x /\ i \notin Entered(m) /\ (i = m.ref => ~Valid(m))
              /\ At(Book', i) # {} <=> At(Book, i) # {}
           \/ /\ At(Book, i) = {} /\ x = 0 /\ At(Book', i) # {} /\ i \in Entered(m)
              /\ i = m.ref => ~Valid(m)
  <2>1. r.ahead[i] = q.ahead[i]
    BY <1>3, <1>a DEF OnSharesRemoved, QuoteTypes
  <2> QED BY <1>7, <1>8, <1>a, <2>1
<1>b. CASE /\ i = m.ref /\ Valid(m) /\ Hit(m) \in Orders
           /\ x = IF Hit(m).side = side /\ Hit(m).price = q.price THEN Hit(m).qty ELSE 0
           /\ \/ At(Book', i) = {} /\ y = 0 /\ Leaving(m) >= Hit(m).qty
              \/ /\ At(Book', i) # {} /\ i \notin Entered(m)
                 /\ m.type \in {"E", "X"} /\ m.qty < Hit(m).qty
                 /\ y = IF Hit(m).side = side /\ Hit(m).price = q.price
                        THEN Hit(m).qty - m.qty ELSE 0
              \/ At(Book', i) # {} /\ i \in Entered(m) /\ m.type = "U"
  <2> DEFINE p == Hit(m)
  <2>1. p.qty \in Nat \ {0} /\ Leaving(m) \in Nat \ {0} /\ q.ahead[i] \in Nat
    BY <1>3, <1>b, LeavingIs DEF Orders, QuoteTypes
  <2>2. CASE r.ahead = q.ahead /\ m.type = "E" /\ (p.side = side => q.ahead = Nobody /\ q.price = p.price)
    <3>1. q.ahead[i] = 0
      BY <1>7, <1>b, <2>2 DEF Nobody
    <3>2. Want = 0
      BY <1>7, <1>b, <2>1, <2>2, <3>1
    <3> QED BY <2>2, <3>1, <3>2
  <2>3. CASE r = OnSharesRemoved(q, m.ref, Leaving(m))
    <3>1. r.ahead[i] = q.ahead[i] - Min2(Leaving(m), q.ahead[i])
      BY <1>3, <1>b, <2>3 DEF OnSharesRemoved, QuoteTypes
    <3>2. CASE q.ahead[i] = 0
      <4>1. r.ahead[i] = 0
        BY <2>1, <3>1, <3>2, Min2Is
      <4> QED BY <1>7, <1>8, <1>b, <2>1, <3>2, <4>1
    <3>3. CASE q.ahead[i] # 0
      <4>1. i \notin behind[side] /\ q.ahead[i] = p.qty /\ x = p.qty
        BY <1>7, <1>b, <3>3
      <4>2. CASE /\ Leaving(m) >= p.qty
                 /\ \/ At(Book', i) = {} /\ y = 0
                    \/ At(Book', i) # {} /\ i \in Entered(m)
        <5>1. PICK a, b : a = Leaving(m) /\ b = q.ahead[i]
          OBVIOUS
        <5>2. a \in Nat /\ b \in Nat /\ a >= b
          BY <2>1, <4>1, <4>2, <5>1
        <5>3. Min2(a, b) = b /\ r.ahead[i] = b - Min2(a, b)
          BY <3>1, <5>1, <5>2, Min2Is
        <5>4. r.ahead[i] = 0
          BY <5>2, <5>3
        <5> QED BY <1>8, <4>2, <5>4
      <4>3. CASE /\ At(Book', i) # {} /\ i \notin Entered(m) /\ m.type \in {"E", "X"} /\ m.qty < p.qty
                 /\ y = p.qty - m.qty
        <5>1. Leaving(m) = m.qty
          BY <4>3 DEF Leaving
        <5>2. r.ahead[i] = p.qty - m.qty
          BY <2>1, <3>1, <4>1, <4>3, <5>1, Min2Is
        <5> QED BY <4>1, <4>3, <5>2
      <4>4. m.type = "U" => Leaving(m) = p.qty
        BY DEF Leaving
      <4>5. p.side = side /\ p.price = q.price
        BY <1>b, <2>1, <3>3, <4>1
      <4>6. m.type = "U" => Leaving(m) >= p.qty
        BY <2>1, <4>4
      <4>7. CASE At(Book', i) = {} /\ y = 0 /\ Leaving(m) >= p.qty
        BY <4>2, <4>7, Zenon
      <4>8. CASE At(Book', i) # {} /\ i \in Entered(m) /\ m.type = "U"
        BY <4>2, <4>6, <4>8
      <4>9. CASE /\ At(Book', i) # {} /\ i \notin Entered(m) /\ m.type \in {"E", "X"} /\ m.qty < p.qty
                 /\ y = IF p.side = side /\ p.price = q.price THEN p.qty - m.qty ELSE 0
        BY <4>3, <4>5, <4>9
      <4> QED BY <1>b, <4>7, <4>8, <4>9
    <3> QED BY <3>2, <3>3
  <2> QED BY <1>3, <1>4, <1>b, <2>2, <2>3
<1> QED BY <1>5, <1>6, <1>a, <1>b, RefStep

-----------------------------------------------------------------------------
(* The mid, and where a side is wanted.                                    *)

\* A sequence of orders has a bound on its prices: the least prefix without one
\* would be an order longer than a prefix that has one.
LEMMA PricesBounded ==
  ASSUME NEW orders \in Seq(Orders)
  PROVE  \E b \in Nat : \A k \in DOMAIN orders : orders[k].price <= b
<1>1. /\ DOMAIN orders = 1..Len(orders) /\ Len(orders) \in Nat
      /\ \A k \in 1..Len(orders) : orders[k].price \in Nat
  BY AtIs, SandboxAssumption DEF Orders
<1>2. PICK bounds : bounds = [n \in Nat |->
                              {b \in Nat : \A k \in 1..Len(orders) : k <= n => orders[k].price <= b}]
  OBVIOUS
<1> DEFINE T == {n \in Nat : bounds[n] = {}}
<1>3. CASE bounds[Len(orders)] # {}
  <2>1. PICK b \in Nat : \A k \in 1..Len(orders) : k <= Len(orders) => orders[k].price <= b
    BY <1>1, <1>2, <1>3
  <2>2. \A k \in 1..Len(orders) : k <= Len(orders)
    BY <1>1
  <2>3. \A k \in 1..Len(orders) : orders[k].price <= b
    BY <2>1, <2>2
  <2> QED BY <1>1, <2>3
<1>4. CASE bounds[Len(orders)] = {}
  <2>1. PICK n \in T : \A x \in T : n <= x
    BY <1>1, <1>4, Least
  <2>2. n \in Nat /\ bounds[n] = {} /\ 0 \in bounds[0]
    BY <1>1, <1>2, <2>1
  <2>3. n - 1 \in Nat
    BY <2>2
  <2>4. n - 1 \notin T
    BY <2>1, <2>2
  <2>5. PICK b \in Nat : \A k \in 1..Len(orders) : k <= n - 1 => orders[k].price <= b
    BY <1>2, <2>3, <2>4
  <2>6. CASE n \in 1..Len(orders)
    <3>1. PICK p \in Nat : p = orders[n].price
      BY <1>1, <2>6
    <3>2. ASSUME NEW k \in 1..Len(orders), k <= n PROVE orders[k].price <= b + p
      <4>1. PICK x \in Nat : x = orders[k].price
        BY <1>1
      <4>2. CASE k = n
        BY <3>1, <4>1, <4>2
      <4>3. CASE k # n
        <5>1. x <= b
          BY <1>1, <2>2, <2>5, <3>2, <4>1, <4>3
        <5> QED BY <4>1, <5>1
      <4> QED BY <4>2, <4>3
    <3>3. b + p \in bounds[n]
      BY <1>2, <2>2, <3>2
    <3> QED BY <2>2, <3>3
  <2>7. CASE n \notin 1..Len(orders)
    <3>1. ASSUME NEW k \in 1..Len(orders), k <= n PROVE orders[k].price <= b
      <4>1. k <= n - 1
        BY <1>1, <2>2, <2>7, <3>1
      <4> QED BY <2>5, <4>1
    <3>2. b \in bounds[n]
      BY <1>2, <2>2, <3>1
    <3> QED BY <2>2, <3>2
  <2> QED BY <2>6, <2>7
<1> QED BY <1>3, <1>4

\* The best prices of the two sides are numbers, and so is the mid.
LEMMA MidIs ==
  ASSUME NEW orders \in Seq(Orders), TwoSided(orders)
  PROVE  Mid(orders) \in Nat
<1>1. ASSUME NEW side \in Sides
      PROVE  /\ PricesOf(orders, side) \subseteq Nat /\ PricesOf(orders, side) # {}
             /\ \E b \in Nat : \A x \in PricesOf(orders, side) : x <= b
  <2>1. \A k \in DOMAIN orders : orders[k].price \in Nat
    BY AtIs, SandboxAssumption DEF Orders
  <2> QED BY <2>1, PricesBounded DEF PricesOf, TwoSided
<1>2. PICK A \in SUBSET Nat : A = PricesOf(orders, "Ask")
  BY <1>1 DEF Sides
<1>3. PICK B \in SUBSET Nat : B = PricesOf(orders, "Bid")
  BY <1>1 DEF Sides
<1>4. A # {} /\ B # {} /\ \E b \in Nat : \A x \in B : x <= b
  BY <1>1, <1>2, <1>3 DEF Sides
<1>5. Min(A) \in Nat
  <2>1. \E x \in A : \A y \in A : x <= y
    BY <1>4, Least
  <2> QED BY <2>1 DEF Min
<1>6. Max(B) \in Nat
  <2> DEFINE over == {b \in Nat : \A x \in B : x <= b}
  <2>1. PICK b \in over : \A c \in over : b <= c
    BY <1>4, Least
  <2>2. b \in B
    <3> SUFFICES ASSUME b \notin B PROVE FALSE
      OBVIOUS
    <3>1. \A x \in B : x \in Nat /\ x <= b /\ x # b
      BY <2>1
    <3>2. PICK x \in B : x \in Nat /\ x <= b /\ x # b
      BY <1>4, <3>1
    <3>3. b - 1 \in Nat /\ \A y \in B : y <= b - 1
      BY <2>1, <3>1, <3>2
    <3>4. b - 1 \in over
      BY <3>3
    <3> QED BY <2>1, <3>4
  <2>3. \E x \in B : \A y \in B : x >= y
    BY <2>1, <2>2
  <2> QED BY <2>3 DEF Max
<1>7. (Max(B) + Min(A)) \div 2 \in Nat
  BY <1>5, <1>6
<1> QED BY <1>2, <1>3, <1>7 DEF Mid

\* A quote's price is a number.
LEMMA WantedIs ==
  ASSUME NEW side, NEW mid \in Int, NEW held \in Int
  PROVE  Wanted(side, mid, held) \in Int
<1>1. Tick \in Nat \ {0} /\ HalfSpread \in Nat /\ SkewPer100 \in Nat
  BY SandboxAssumption
<1>2. PICK a \in Int : a = held * SkewPer100
  BY <1>1
<1>3. Quotient(a, 100) \in Int
  BY DEF Quotient
<1>4. PICK k \in Int : k = Skew(held)
  BY <1>2, <1>3 DEF Skew
<1>5. \A p \in Int : p % Tick \in Int
  BY <1>1
<1>6. \A p \in Int : snap_bid(p) \in Int /\ snap_ask(p) \in Int
  BY <1>1, <1>5 DEF snap_bid, snap_ask
<1>7. mid - HalfSpread - k \in Int /\ mid + HalfSpread - k \in Int
  BY <1>1
<1> QED BY <1>4, <1>6, <1>7 DEF Wanted

-----------------------------------------------------------------------------
(* The step.                                                               *)

\* A print's shares that are ours: of the quote that is reached, or of one that
\* was wanted at the last mid.
LEMMA FilledIs ==
  ASSUME BookInv, QuoteInv, position \in Int, NEW m \in Messages, Filled(m) # 0
  PROVE  \E side \in Sides, take \in Nat \ {0} :
           /\ Hit(m).side = side /\ Filled(m) = Bought(side, take) /\ m.type = "E" /\ Valid(m)
           /\ \/ /\ Reached(m) /\ take <= quotes[side].remaining
                 /\ take = Min2(Leaving(m), quotes[side].remaining)
              \/ ~Reached(m) /\ ~queueModel /\ Wants(side, position) /\ take <= QuoteSize
<1>1. CASE Reached(m)
  <2>1. PICK side : side = Hit(m).side
    OBVIOUS
  <2>2. m.type = "E" /\ Valid(m)
    BY <1>1 DEF Reached
  <2>3. side \in Sides /\ Leaving(m) \in Nat /\ quotes[side] \in QuoteTypes
    BY <2>1, <2>2, LeavingIs DEF Orders, QuoteInv
  <2>4. PICK a, b : a = Leaving(m) /\ b = quotes[side].remaining
    OBVIOUS
  <2>5. a \in Nat /\ b \in Nat
    BY <2>3, <2>4 DEF QuoteTypes
  <2>6. Min2(a, b) \in Nat /\ Min2(a, b) <= b
    BY <2>5, Min2Is
  <2>7. Filled(m) = Bought(side, Min2(a, b))
    BY <1>1, <2>1, <2>4 DEF Filled
  <2>8. Min2(a, b) # 0
    BY <2>7 DEF Bought
  <2> QED BY <1>1, <2>1, <2>2, <2>3, <2>4, <2>6, <2>7, <2>8
<1>2. CASE ~Reached(m) /\ Through(m)
  <2>1. PICK side : side = Hit(m).side
    OBVIOUS
  <2>2. m.type = "E" /\ Valid(m) /\ ~queueModel /\ Wants(side, position)
    BY <1>2, <2>1 DEF Through
  <2>3. side \in Sides /\ m.qty \in Nat \ {0} /\ QuoteSize \in Nat \ {0}
    BY <2>1, <2>2, LeavingIs, MessageFacts, SandboxAssumption DEF Orders
  <2>4. PICK a \in Nat \ {0} : a = m.qty
    BY <2>3
  <2>5. Min2(a, QuoteSize) \in Nat /\ Min2(a, QuoteSize) <= QuoteSize /\ Min2(a, QuoteSize) # 0
    BY <2>3, Min2Is
  <2>6. Filled(m) = Bought(side, Min2(a, QuoteSize))
    BY <1>2, <2>1, <2>4 DEF Filled
  <2> QED BY <1>2, <2>1, <2>2, <2>3, <2>5, <2>6
<1>3. ~Reached(m) /\ ~Through(m) => Filled(m) = 0
  BY DEF Filled
<1> QED BY <1>1, <1>2, <1>3

\* The position a message leaves, and what may still be filled of the quotes.
LEMMA PositionStep ==
  ASSUME Inv, NEW m \in Messages, NEW held, held = position + Filled(m),
         NEW limit, limit = MaxPosition + QuoteSize - 1
  PROVE  /\ held \in -limit..limit
         /\ Moved(m)["Bid"].active => held + Moved(m)["Bid"].remaining <= limit
         /\ Moved(m)["Ask"].active => held - Moved(m)["Ask"].remaining >= -limit
<1>1. limit \in Nat /\ MaxPosition \in Nat \ {0} /\ QuoteSize \in Nat \ {0}
  BY SandboxAssumption
<1>2. /\ position \in -limit..limit /\ position \in Int
      /\ quotes["Bid"].active => position + quotes["Bid"].remaining <= limit
      /\ quotes["Ask"].active => position - quotes["Ask"].remaining >= -limit
  BY <1>1 DEF Inv, PositionInv, PositionBounded
<1>3. ASSUME NEW side \in Sides
      PROVE  /\ Moved(m)[side].active => quotes[side].active
             /\ Moved(m)[side].remaining <= quotes[side].remaining
             /\ Moved(m)[side].remaining \in Nat /\ quotes[side].remaining \in Nat
  BY MovedIs DEF Inv, QuoteTypes
<1>4. CASE Filled(m) = 0
  <2>1. held = position
    BY <1>2, <1>4
  <2> QED BY <1>1, <1>2, <1>3, <2>1 DEF Sides
<1>5. CASE Filled(m) # 0
  <2>1. PICK side \in Sides, take \in Nat \ {0} :
           /\ Hit(m).side = side /\ Filled(m) = Bought(side, take) /\ m.type = "E" /\ Valid(m)
           /\ \/ /\ Reached(m) /\ take <= quotes[side].remaining
                 /\ take = Min2(Leaving(m), quotes[side].remaining)
              \/ ~Reached(m) /\ ~queueModel /\ Wants(side, position) /\ take <= QuoteSize
    BY <1>2, <1>5, FilledIs DEF Inv
  <2>2. held = IF side = "Bid" THEN position + take ELSE position - take
    BY <1>2, <2>1 DEF Bought
  <2>3. CASE Reached(m) /\ take <= quotes[side].remaining /\ take = Min2(Leaving(m), quotes[side].remaining)
    <3>1. quotes[side].active
      BY <2>1, <2>3 DEF Reached, AtFront
    <3>2. Moved(m)[side].remaining = quotes[side].remaining - take
      <4>1. PICK left : left = quotes[side].remaining - take
        OBVIOUS
      <4>2. Moved(m) = [quotes EXCEPT ![side].remaining = left, ![side].active = left > 0]
        BY <2>1, <2>3, <4>1 DEF Moved, TakeFill, Reached
      <4> QED BY <4>1, <4>2 DEF Inv, QuoteInv, QuoteTypes
    <3>3. CASE side = "Bid"
      BY <1>1, <1>2, <1>3, <2>1, <2>2, <2>3, <3>1, <3>2, <3>3 DEF Sides
    <3>4. CASE side = "Ask"
      BY <1>1, <1>2, <1>3, <2>1, <2>2, <2>3, <3>1, <3>2, <3>4 DEF Sides
    <3> QED BY <3>3, <3>4 DEF Sides
  <2>4. CASE ~queueModel /\ Wants(side, position) /\ take <= QuoteSize
    <3>1. ~Moved(m)["Bid"].active /\ ~Moved(m)["Ask"].active
      BY <1>3, <2>4 DEF Inv, QuoteInv, Sides
    <3>2. held \in -limit..limit
      BY <1>1, <1>2, <2>2, <2>4 DEF Wants
    <3> QED BY <3>1, <3>2
  <2> QED BY <2>1, <2>3, <2>4
<1> QED BY <1>4, <1>5

\* The initial states.
LEMMA InitInv == SandboxInit => Inv
<1> SUFFICES ASSUME SandboxInit PROVE Inv
  OBVIOUS
<1>1. Symbol \in Symbols /\ NoOwner # Symbol
  BY TrackedAssumption, NoOwnerAssumption
<1>2. BookInv
  BY <1>1 DEF SandboxInit, Init, BookInv, Unique, Book, At
<1>3. QuoteInv
  <2>1. quotes = [side \in Sides |-> Quote(FALSE, 0, 0, Nobody)] /\ Quote(FALSE, 0, 0, Nobody) \in QuoteTypes
    BY DEF SandboxInit, Quote, QuoteTypes, Nobody
  <2>2. \A side \in Sides : ~quotes[side].active
    BY <2>1 DEF Quote
  <2> QED BY <2>1, <2>2 DEF SandboxInit, QuoteInv, QueueExact
<1>4. PositionInv
  BY SandboxAssumption DEF SandboxInit, PositionInv, PositionBounded, Quote, Sides
<1> QED BY <1>2, <1>3, <1>4 DEF Inv

\* A message.
LEMMA HandleInv ==
  ASSUME Inv, NEW m \in Messages, Handle(m)
  PROVE  Inv'
<1>1. BookInv /\ QuoteInv /\ Apply(m) /\ BookInv' /\ Book' \in Seq(Orders) /\ Unique(Book')
  BY BookStep, TrackedAssumption DEF Inv, Handle, BookInv, Book
<1>2. PICK mid : mid = IF TwoSided(Book') THEN Mid(Book') ELSE lastMid
  OBVIOUS
<1>3. PICK new : new = Requoted(Moved(m), Book', mid, position')
  OBVIOUS
<1>4. /\ lastMid' = mid /\ queueModel' = queueModel /\ position' = position + Filled(m)
      /\ quotes' = [side \in Sides |->
                      IF side \in new THEN Placed(side, mid, position', Book') ELSE Moved(m)[side]]
      /\ behind' = [side \in Sides |->
                      IF side \in new THEN {}
                      ELSE {i \in behind[side] \cup Entered(m) : At(Book', i) # {}}]
  BY <1>2, <1>3 DEF Handle, Refresh
<1>5. mid \in Nat \cup {NoMid} /\ (lastMid # NoMid => mid # NoMid) /\ NoMid \notin Nat
  BY <1>1, <1>2, MidIs DEF QuoteInv, NoMid
<1>6. PICK limit : limit = MaxPosition + QuoteSize - 1
  OBVIOUS
<1>7. /\ position' \in -limit..limit /\ position' \in Int /\ limit \in Nat
      /\ Moved(m)["Bid"].active => position' + Moved(m)["Bid"].remaining <= limit
      /\ Moved(m)["Ask"].active => position' - Moved(m)["Ask"].remaining >= -limit
  BY <1>4, <1>6, PositionStep, SandboxAssumption
<1>8. ASSUME NEW side \in Sides, side \in new
      PROVE  /\ queueModel /\ mid # NoMid /\ Wants(side, position')
             /\ quotes'[side] = Quote(TRUE, Wanted(side, mid, position'), QuoteSize,
                                      AtLevel(Book', side, Wanted(side, mid, position')))
             /\ behind'[side] = {}
             /\ quotes'[side] \in QuoteTypes
  <2>1. queueModel /\ TwoSided(Book') /\ Wants(side, position')
    BY <1>3, <1>8 DEF Requoted, Requotes
  <2>2. mid \in Nat /\ mid # NoMid
    BY <1>1, <1>2, <1>5, <2>1, MidIs
  <2>3. PICK price : price = Wanted(side, mid, position')
    OBVIOUS
  <2>4. price \in Int /\ AtLevel(Book', side, price) \in [Ids -> Nat] /\ QuoteSize \in Nat
    BY <1>1, <1>7, <2>2, <2>3, WantedIs, AtLevelIs, SandboxAssumption
  <2>5. quotes'[side] = Quote(TRUE, price, QuoteSize, AtLevel(Book', side, price))
    BY <1>4, <1>8, <2>3 DEF Placed
  <2>6. quotes'[side] \in QuoteTypes
    BY <2>4, <2>5 DEF Quote, QuoteTypes
  <2>7. behind'[side] = {}
    BY <1>4, <1>8
  <2> QED BY <2>1, <2>2, <2>3, <2>5, <2>6, <2>7
<1>9. ASSUME NEW side \in Sides, side \notin new
      PROVE  /\ quotes'[side] = Moved(m)[side] /\ quotes'[side] \in QuoteTypes
             /\ behind'[side] = {i \in behind[side] \cup Entered(m) : At(Book', i) # {}}
             /\ quotes'[side].price = quotes[side].price
             /\ quotes'[side].active => quotes[side].active
  BY <1>1, <1>4, <1>9, MovedIs
<1>a. QueueExact'
  <2> SUFFICES ASSUME NEW side \in Sides, quotes'[side].active
               PROVE  quotes'[side].ahead =
                        [i \in Ids |-> IF i \in behind'[side] THEN 0
                                       ELSE AtLevel(Book', side, quotes'[side].price)[i]]
    BY DEF QueueExact
  <2>1. CASE side \in new
    <3>1. PICK price : price = Wanted(side, mid, position')
      OBVIOUS
    <3>2. /\ quotes'[side].ahead = AtLevel(Book', side, price)
          /\ quotes'[side].price = price /\ behind'[side] = {}
      <4>1. quotes'[side] = Quote(TRUE, price, QuoteSize, AtLevel(Book', side, price))
        BY <1>8, <2>1, <3>1, Zenon
      <4>2. behind'[side] = {}
        BY <1>8, <2>1
      <4> QED BY <4>1, <4>2 DEF Quote
    <3>3. AtLevel(Book', side, price) \in [Ids -> Nat]
      BY <1>1, AtLevelIs
    <3> QED BY <3>2, <3>3
  <2>2. CASE side \notin new
    <3>1. quotes'[side].ahead \in [Ids -> Nat]
      BY <1>9, <2>2 DEF QuoteTypes
    <3>2. ASSUME NEW i \in Ids
          PROVE  quotes'[side].ahead[i] = IF i \in behind'[side] THEN 0
                                          ELSE AtLevel(Book', side, quotes'[side].price)[i]
      <4>1. Moved(m)[side].active
        BY <1>9, <2>2
      <4>2. Moved(m)[side].ahead[i] =
              IF i \in behind[side] \cup Entered(m) /\ At(Book', i) # {} THEN 0
              ELSE AtLevel(Book', side, quotes[side].price)[i]
        BY <1>1, <4>1, StillExact
      <4>3. i \in behind'[side] <=> i \in behind[side] \cup Entered(m) /\ At(Book', i) # {}
        BY <1>9, <2>2
      <4> QED BY <1>9, <2>2, <4>2, <4>3
    <3> QED BY <3>1, <3>2
  <2> QED BY <2>1, <2>2
<1>b. QuoteInv'
  <2>1. quotes' \in [Sides -> QuoteTypes]
    BY <1>4, <1>8, <1>9
  <2>2. ASSUME NEW side \in Sides, quotes'[side].active PROVE queueModel' /\ lastMid' # NoMid
    BY <1>1, <1>4, <1>5, <1>8, <1>9, <2>2 DEF QuoteInv
  <2> QED BY <1>1, <1>4, <1>5, <1>a, <2>1, <2>2 DEF QuoteInv
<1>c. PositionInv'
  <2>1. "Bid" \in new => position' < MaxPosition /\ quotes'["Bid"].remaining = QuoteSize
    BY <1>8 DEF Wants, Sides, Quote
  <2>2. "Ask" \in new => position' > -MaxPosition /\ quotes'["Ask"].remaining = QuoteSize
    BY <1>8 DEF Wants, Sides, Quote
  <2>3. /\ "Bid" \notin new => quotes'["Bid"] = Moved(m)["Bid"]
        /\ "Ask" \notin new => quotes'["Ask"] = Moved(m)["Ask"]
    BY <1>9 DEF Sides
  <2>4. MaxPosition \in Nat /\ QuoteSize \in Nat
    BY SandboxAssumption
  <2>5. quotes'["Bid"].active => position' + quotes'["Bid"].remaining <= limit
    BY <1>6, <1>7, <2>1, <2>3, <2>4
  <2>6. quotes'["Ask"].active => position' - quotes'["Ask"].remaining >= -limit
    BY <1>6, <1>7, <2>2, <2>3, <2>4
  <2> QED BY <1>6, <1>7, <2>5, <2>6 DEF PositionInv, PositionBounded
<1> QED BY <1>1, <1>b, <1>c DEF Inv

\* The invariant of every behaviour.
THEOREM Invariance == SandboxSpec => []Inv
<1>1. Inv /\ [SandboxNext]_sandbox => Inv'
  <2>1. ASSUME Inv, SandboxNext PROVE Inv'
    BY <2>1, HandleInv DEF SandboxNext
  <2>2. ASSUME Inv, UNCHANGED sandbox PROVE Inv'
    <3>1. BookInv'
      BY <2>2 DEF Inv, BookInv, Unique, Book, At, sandbox, vars
    <3>2. Book' = Book /\ quotes' = quotes /\ behind' = behind
      BY <2>2 DEF sandbox, vars, Book
    <3>3. QueueExact'
      BY <2>2, <3>2 DEF Inv, QuoteInv, QueueExact, AtLevel, At
    <3>4. QuoteInv'
      BY <2>2, <3>3 DEF Inv, QuoteInv, sandbox
    <3>5. PositionInv'
      BY <2>2 DEF Inv, PositionInv, PositionBounded, sandbox
    <3> QED BY <3>1, <3>4, <3>5 DEF Inv
  <2> QED BY <2>1, <2>2
<1> QED BY <1>1, InitInv, PTL DEF SandboxSpec

\* OpenAddressMap of multi_book.hpp is right at every moment: it routes a
\* reference to a book exactly when the order rests there.
THEOREM OwnersAlwaysAgree == SandboxSpec => []OwnersAgree
<1>1. Inv => OwnersAgree
  <2> SUFFICES ASSUME Inv, NEW i \in Ids, NEW s \in Symbols
               PROVE  owner[i] = s <=> At(books[s], i) # {}
    BY DEF OwnersAgree
  <2>1. CASE s = Symbol
    BY <2>1 DEF Inv, BookInv, Book
  <2>2. CASE s # Symbol
    <3>1. books[s] = <<>> /\ owner[i] \in {NoOwner, Symbol}
      BY <2>2 DEF Inv, BookInv
    <3>2. At(books[s], i) = {} /\ NoOwner # s
      BY <3>1, NoOwnerAssumption DEF At
    <3> QED BY <2>2, <3>1, <3>2
  <2> QED BY <2>1, <2>2
<1> QED BY <1>1, Invariance, PTL

\* queue_position.hpp: the orders counted ahead of a quote are those that are.
THEOREM QueueAlwaysExact == SandboxSpec => []QueueExact
<1>1. Inv => QueueExact
  BY DEF Inv, QuoteInv
<1> QED BY <1>1, Invariance, PTL

\* market_maker.hpp: the position stays within the limit, but for the rest of a
\* quote that was placed below it.
THEOREM PositionStaysBounded == SandboxSpec => []PositionBounded
<1>1. Inv => PositionBounded
  BY DEF Inv, PositionInv
<1> QED BY <1>1, Invariance, PTL

\* A fill of the queue model comes after every order that was there before.
LEMMA FillAfterAll ==
  ASSUME Inv, NEW m \in Messages, queueModel, Filled(m) # 0
  PROVE  LET side == IF position + Filled(m) > position THEN "Bid" ELSE "Ask"
         IN /\ quotes[side].active
            /\ \A k \in DOMAIN Book :
                 Book[k].side = side /\ Book[k].price = quotes[side].price =>
                   Book[k].id \in behind[side]
<1>1. BookInv /\ QuoteInv /\ position \in Int
  BY DEF Inv, PositionInv, PositionBounded
<1>2. PICK s \in Sides, take \in Nat \ {0} :
         Hit(m).side = s /\ Filled(m) = Bought(s, take) /\ Reached(m)
  BY <1>1, FilledIs
<1>3. s = IF position + Filled(m) > position THEN "Bid" ELSE "Ask"
  BY <1>1, <1>2 DEF Bought, Sides
<1>4. quotes[s].active /\ quotes[s].ahead = Nobody
  BY <1>2 DEF Reached, AtFront
<1>5. ASSUME NEW k \in DOMAIN Book, Book[k].side = s, Book[k].price = quotes[s].price
      PROVE  Book[k].id \in behind[s]
  <2>1. Book \in Seq(Orders) /\ Unique(Book)
    BY <1>1, TrackedAssumption DEF BookInv, Book
  <2>2. PICK o \in Orders : o = Book[k] /\ o \in ToSet(Book)
    BY <2>1, AtIs DEF ToSet
  <2>3. AtLevel(Book, s, quotes[s].price)[o.id] = o.qty
    BY <1>5, <2>1, <2>2, AtLevelIs
  <2>4. o.id \in Ids /\ o.qty # 0
    BY DEF Orders
  <2>5. quotes[s].ahead[o.id] = 0
    BY <1>4, <2>4 DEF Nobody
  <2>6. quotes[s].ahead[o.id] = IF o.id \in behind[s] THEN 0
                                ELSE AtLevel(Book, s, quotes[s].price)[o.id]
    BY <1>1, <1>4, <2>4, ExactIs DEF QuoteInv
  <2> QED BY <2>2, <2>3, <2>4, <2>5, <2>6
<1> QED BY <1>3, <1>4, <1>5

\* mm_sandbox.cpp: with the queue model nobody who was at the level before the
\* quote is passed over.
THEOREM FillsAlwaysInTurn == SandboxSpec => FillsInTurn
<1> DEFINE Turn == queueModel /\ position' # position =>
                     LET side == IF position' > position THEN "Bid" ELSE "Ask"
                     IN /\ quotes[side].active
                        /\ \A k \in DOMAIN Book :
                             Book[k].side = side /\ Book[k].price = quotes[side].price =>
                               Book[k].id \in behind[side]
<1>1. Inv /\ [SandboxNext]_sandbox => [Turn]_sandbox
  <2> SUFFICES ASSUME Inv, SandboxNext PROVE Turn
    OBVIOUS
  <2>1. PICK m \in Messages : Handle(m)
    BY DEF SandboxNext
  <2>2. position' = position + Filled(m) /\ position \in Int
    BY <2>1 DEF Handle, Inv, PositionInv, PositionBounded
  <2>3. position' # position => Filled(m) # 0
    BY <2>2
  <2> QED BY <2>2, <2>3, FillAfterAll
<1>2. SandboxSpec => [][SandboxNext]_sandbox
  BY DEF SandboxSpec
<1> QED BY <1>1, <1>2, Invariance, PTL DEF FillsInTurn
=============================================================================
