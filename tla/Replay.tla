------------------------------- MODULE Replay -------------------------------
(***************************************************************************)
(* include/pricetime/itch_replay.hpp and multi_book.hpp: books rebuilt     *)
(* from an ITCH stream.  Every message but an add names only an order      *)
(* reference; the owner index says in which symbol's book it rests.        *)
(*                                                                         *)
(* One operator per message handler, each of them one step: the replayer   *)
(* is single-threaded.  Orders are inserted without matching, so a book is *)
(* its orders in order of arrival (OrderBookArrival relates this view to   *)
(* the ladder and the lists).                                              *)
(***************************************************************************)
EXTENDS Integers, Sequences, SequencesExt

CONSTANTS
  Ids,      \* order references
  Symbols,
  Tracked,  \* filter_: the symbols to reconstruct, or {} for all
  NoOwner

ASSUME NoOwnerAssumption == NoOwner \notin Symbols

VARIABLES
  books,     \* books_: the orders of each symbol's book, earliest first
  owner,     \* owner_: reference -> symbol, or NoOwner
  anomalies  \* which of stats_.unknown_reference and stats_.clamped are not 0

vars == <<books, owner, anomalies>>

Init ==
  /\ books = [s \in Symbols |-> <<>>]
  /\ owner = [i \in Ids |-> NoOwner]
  /\ anomalies = {}

\* find_order: where reference i is in a book's orders, if anywhere.
At(orders, i) == {k \in DOMAIN orders : orders[k].id = i}

\* insert_passive takes it.
Acceptable(orders, i, qty) == i # 0 /\ qty > 0 /\ At(orders, i) = {}

Resting(i, side, price, qty) == [id |-> i, side |-> side, price |-> price, qty |-> qty]

\* OpenAddressMap::insert leaves an entry that is already there alone.
Noted(owners, i, s) == IF owners[i] = NoOwner THEN [owners EXCEPT ![i] = s] ELSE owners

Forgotten(owners, i) == [owners EXCEPT ![i] = NoOwner]

Unknown ==
  /\ anomalies' = anomalies \cup {"unknown_reference"}
  /\ UNCHANGED <<books, owner>>

\* OpenAddressMap::find has no entry for the reference.
Unrouted(i) == owner[i] = NoOwner

OnAdd(m) ==
  /\ m.type = "A"
  /\ IF /\ Tracked = {} \/ m.symbol \in Tracked
        /\ Acceptable(books[m.symbol], m.ref, m.qty)
     THEN /\ books' = [books EXCEPT ![m.symbol] =
                         Append(@, Resting(m.ref, m.side, m.price, m.qty))]
          /\ owner' = Noted(owner, m.ref, m.symbol)
     ELSE UNCHANGED <<books, owner>>
  /\ UNCHANGED anomalies

\* What execute_resting and reduce_resting leave of a book's orders.
Reduced(orders, k, take) ==
  IF take = orders[k].qty THEN RemoveAt(orders, k) ELSE [orders EXCEPT ![k].qty = @ - take]

\* Mutant: an order that is used up stays in the index.
OnReduced_KeepsOwner(m) ==
  /\ m.type \in {"E", "X"}
  /\ \/ Unrouted(m.ref) /\ Unknown
     \/ /\ ~Unrouted(m.ref)
        /\ books' = [books EXCEPT ![owner[m.ref]] =
                       SelectSeq(@, LAMBDA o : o.id # m.ref \/ o.qty > m.qty)]
        /\ UNCHANGED <<owner, anomalies>>

\* on_executed and on_cancel: the quantity is clamped to what rests, and the
\* index forgets an order the book no longer has.
OnReduced(m) ==
  /\ m.type \in {"E", "X"}
  /\ \/ Unrouted(m.ref) /\ Unknown
     \/ /\ ~Unrouted(m.ref)
        /\ LET s == owner[m.ref]
               here == At(books[s], m.ref)
               resting == IF here = {} THEN 0 ELSE books[s][CHOOSE k \in here : TRUE].qty
               take == IF m.qty < resting THEN m.qty ELSE resting
           IN /\ books' = IF here = {} THEN books
                          ELSE [books EXCEPT ![s] = Reduced(@, CHOOSE k \in here : TRUE, take)]
              /\ owner' = IF take = resting THEN Forgotten(owner, m.ref) ELSE owner
              /\ anomalies' = IF take < m.qty THEN anomalies \cup {"clamped"} ELSE anomalies

\* What cancel leaves of a book's orders.
Without(orders, i) ==
  LET here == At(orders, i)
  IN IF here = {} THEN orders ELSE RemoveAt(orders, CHOOSE k \in here : TRUE)

OnDelete(m) ==
  /\ m.type = "D"
  /\ \/ Unrouted(m.ref) /\ Unknown
     \/ /\ ~Unrouted(m.ref)
        /\ books' = [books EXCEPT ![owner[m.ref]] = Without(@, m.ref)]
        /\ owner' = Forgotten(owner, m.ref)
        /\ UNCHANGED anomalies

\* The order a reference is routed to, as a set of places in its book.
Found(i) == IF Unrouted(i) THEN {} ELSE At(books[owner[i]], i)

\* The side is read off the old order, which leaves the book before anybody
\* has looked at whether the new one is acceptable.
OnReplace(m) ==
  /\ m.type = "U"
  /\ \/ Found(m.ref) = {} /\ Unknown
     \/ /\ \E k \in Found(m.ref) :
             LET s == owner[m.ref]
                 rest == RemoveAt(books[s], k)
                 gone == Forgotten(owner, m.ref)
             IN IF Acceptable(rest, m.newRef, m.qty)
                THEN /\ books' = [books EXCEPT ![s] =
                          Append(rest, Resting(m.newRef, books[s][k].side, m.price, m.qty))]
                     /\ owner' = Noted(gone, m.newRef, s)
                ELSE books' = [books EXCEPT ![s] = rest] /\ owner' = gone
        /\ UNCHANGED anomalies

\* apply(); messages that carry no book state are not modelled.
Apply(m) == OnAdd(m) \/ OnReduced(m) \/ OnDelete(m) \/ OnReplace(m)

\* The index routes a reference to a book exactly when the order rests there.
OwnersAgree == \A i \in Ids, s \in Symbols : owner[i] = s <=> At(books[s], i) # {}
=============================================================================
