----------------------------- MODULE EngineFeed -----------------------------
(***************************************************************************)
(* include/pricetime/engine.hpp, handle() and its helpers: what the engine *)
(* answers and publishes of its book, and what a client that keeps count   *)
(* of its orders and a replayer make of it.                                *)
(*                                                                         *)
(* Composes OrderBook, driven by the requests of the wire protocol, with   *)
(* Replay, which applies the messages one by one and in order, some time   *)
(* later.  (Queues, threads and sockets are Engine's, datagrams that do    *)
(* not arrive MoldFeed's.)                                                 *)
(***************************************************************************)
EXTENDS OrderBook

CONSTANTS
  Symbol,        \* cfg_.symbol
  NoOwner, NoRequest,
  PriceModulus,  \* an ITCH price field holds prices modulo this (2^32)
  MaxBacklog     \* bound: unapplied messages when a request is handled

ASSUME PriceModulusAssumption == PriceModulus \in Nat \ {0}
ASSUME BacklogAssumption == MaxBacklog \in Nat
ASSUME NoOwnerAssumption == NoOwner # Symbol
ASSUME LimitAssumption == "limit" \in Kinds   \* all that a request can ask for

\* What handle() works on: the request, and for a reduce the shares it took.
Requests ==
  [kind : {"Enter"}, id : Ids \cup {0}, side : Sides, price : Prices, qty : 0..MaxQty]
    \cup [kind : {"Cancel"}, id : Ids]
    \cup [kind : {"Reduce"}, id : Ids, removed : 0..MaxQty]
    \cup [kind : {"Replace"}, id : Ids, newId : Ids \cup {0}, price : Prices, qty : 0..MaxQty]

ASSUME NoRequestAssumption == NoRequest \notin Requests

VARIABLES
  request,  \* the request handle() is working on
  fills,    \* execs_
  told,     \* history: shares per order, going by the responses alone
  pending,  \* messages published and not yet applied
  books, owner, anomalies   \* the replayer

Replica == INSTANCE Replay WITH Symbols <- {Symbol}, Tracked <- {}

replica == <<books, owner, anomalies>>
feedVars == <<vars, request, fills, told, pending, replica>>

FeedInit ==
  /\ Init
  /\ request = NoRequest /\ fills = <<>> /\ pending = <<>>
  /\ told = [i \in Ids |-> 0]
  /\ Replica!Init

-----------------------------------------------------------------------------
(* The responses.                                                          *)

Response(kind, i, qty) == [kind |-> kind, id |-> i, qty |-> qty]

\* respond(): what became of the request.  A refusal names the same order and
\* quantity as a success would.
Reply ==
  LET kind(success) == IF result = "Ok" THEN success ELSE "Rejected"
  IN CASE request.kind = "Enter" -> Response(kind("Accepted"), request.id, request.qty)
       [] request.kind = "Cancel" -> Response(kind("Canceled"), request.id, 0)
       [] request.kind = "Reduce" -> Response(kind("Reduced"), request.id, request.removed)
       [] request.kind = "Replace" -> Response(kind("Accepted"), request.newId, request.qty)

\* The client's count after one more response to the request (external).
Counted(count, response) ==
  LET i == response.id
  IN CASE response.kind = "Rejected" -> count
       [] response.kind = "Canceled" -> [count EXCEPT ![i] = 0]
       [] response.kind \in {"Reduced", "Executed"} -> [count EXCEPT ![i] = @ - response.qty]
       [] response.kind = "Accepted" ->
            [(IF request.kind = "Replace" THEN [count EXCEPT ![request.id] = 0] ELSE count)
               EXCEPT ![i] = response.qty]

Executed(i, e) == Response("Executed", i, e.qty)

\* Mutant: the owner of the resting order is not told.
FillCounted_OneSide(count, e) == Counted(count, Executed(e.aggressor, e))

\* One response for either side of an execution.
FillCounted(count, e) == Counted(Counted(count, Executed(e.aggressor, e)), Executed(e.resting, e))

\* The client's count when it has read all that the request is answered with:
\* the reply, then the fills.
AllCounted ==
  LET counted[n \in 0..Len(fills)] ==
        IF n = 0 THEN Counted(told, Reply) ELSE FillCounted(counted[n - 1], fills[n])
  IN counted[Len(fills)]

-----------------------------------------------------------------------------
(* The market data.                                                        *)

\* put32: the low 32 bits of the price, read back as an unsigned number.
FeedPrice(p) == p % PriceModulus

AddOrder(i, side, qty, price) ==
  [type |-> "A", ref |-> i, symbol |-> Symbol, side |-> side, qty |-> qty,
   price |-> FeedPrice(price)]
OrderExecuted(e) == [type |-> "E", ref |-> e.resting, qty |-> e.qty]
OrderCancel(i, qty) == [type |-> "X", ref |-> i, qty |-> qty]
OrderDelete(i) == [type |-> "D", ref |-> i]
OrderReplace(i, new, qty, price) ==
  [type |-> "U", ref |-> i, newRef |-> new, qty |-> qty, price |-> FeedPrice(price)]

\* The sum over execs_.
Filled ==
  LET filled[n \in 0..Len(fills)] == IF n = 0 THEN 0 ELSE filled[n - 1] + fills[n].qty
  IN filled[Len(fills)]

\* Mutant: an order is shown with the quantity it was entered with.
Displayed_AsEntered == request.qty

\* What is left of an entered order once it has traded.
Displayed == request.qty - Filled

\* What the feed says of the request itself, after its executions.
Outcome ==
  IF result # "Ok" THEN <<>>
  ELSE CASE request.kind = "Enter" ->
              IF Displayed > 0
              THEN <<AddOrder(request.id, request.side, Displayed, request.price)>>
              ELSE <<>>
         [] request.kind = "Cancel" -> <<OrderDelete(request.id)>>
         [] request.kind = "Reduce" -> <<OrderCancel(request.id, request.removed)>>
         [] request.kind = "Replace" ->
              IF Displayed > 0
              THEN <<OrderReplace(request.id, request.newId, Displayed, request.price)>>
              ELSE <<OrderDelete(request.id)>>

Executions == [k \in DOMAIN fills |-> OrderExecuted(fills[k])]

\* Mutant: the order is shown before its executions.
Published_OutcomeFirst == Outcome \o Executions

Published == Executions \o Outcome

-----------------------------------------------------------------------------
(* handle(): call the book, then answer and publish.                       *)

Receive(r) ==
  /\ request = NoRequest
  /\ Len(pending) <= MaxBacklog
  /\ request' = r
  /\ UNCHANGED <<fills, told, pending, replica>>

HandleEnter(i, side, price, qty) ==
  /\ Enter("limit", 0, i, side, price, qty)
  /\ Receive([kind |-> "Enter", id |-> i, side |-> side, price |-> price, qty |-> qty])

HandleCancel(i) ==
  /\ Cancel(i)
  /\ Receive([kind |-> "Cancel", id |-> i])

\* Mutant: the feed is told what was asked for, not what was removed.
HandleReduce_AsAsked(i, qty) ==
  /\ Consume(i, qty, "canceled")
  /\ Receive([kind |-> "Reduce", id |-> i, removed |-> qty])

HandleReduce(i, qty) ==
  /\ Consume(i, qty, "canceled")
  /\ Receive([kind |-> "Reduce", id |-> i,
              removed |-> IF Live(i) THEN Min2(qty, orders[i].qty) ELSE 0])

HandleReplace(i, new, price, qty) ==
  /\ Replace(i, new, price, qty)
  /\ Receive([kind |-> "Replace", id |-> i, newId |-> new, price |-> price, qty |-> qty])

\* The book matches; on_exec collects the executions.
Match ==
  /\ (\E p \in ValidPrices : Fill(p)) \/ Finish
  /\ fills' = IF exec' = NoExec THEN fills ELSE Append(fills, exec')
  /\ UNCHANGED <<request, told, pending, replica>>

\* The book has returned: respond() and md_push, message by message.
Publish ==
  /\ Return
  /\ told' = AllCounted
  /\ pending' = pending \o Published
  /\ request' = NoRequest /\ fills' = <<>>
  /\ UNCHANGED replica

\* The replayer takes the next message.
Apply ==
  /\ pending # <<>>
  /\ Replica!Apply(Head(pending))
  /\ pending' = Tail(pending)
  /\ UNCHANGED <<vars, request, fills, told>>

FeedNext ==
  \/ \E i \in Ids \cup {0}, side \in Sides, price \in Prices, qty \in 0..MaxQty :
       HandleEnter(i, side, price, qty)
  \/ \E i \in Ids : HandleCancel(i)
  \/ \E i \in Ids, qty \in 0..MaxQty : HandleReduce(i, qty)
  \/ \E i \in Ids, new \in Ids \cup {0}, price \in Prices, qty \in 0..MaxQty :
       HandleReplace(i, new, price, qty)
  \/ Match \/ Publish \/ Apply

FeedSpec == FeedInit /\ [][FeedNext]_feedVars

-----------------------------------------------------------------------------
(* Properties                                                              *)

\* The prices of the book fit the field of the feed: itch_writer.hpp writes the
\* low half of a 64-bit price, and what it writes of others is another price.
PricesFit == ValidPrices \subseteq 0..(PriceModulus - 1)

\* A client that keeps count of its orders by the responses alone has the shares
\* the book has, whenever a request has been answered: by whichever side of an
\* execution, replace or clamped reduce an order came by them.
ClientAgrees ==
  request = NoRequest => told = [i \in Ids |-> IF Live(i) THEN orders[i].qty ELSE 0]

\* engine.hpp, lines 44 to 47: a book rebuilt from the feed alone is the
\* engine's book, order for order, whenever the feed has been read up to the
\* end of a request: partial fills, replaces that trade on arrival and reuse
\* of an id included.  (As many orders, each of them the same, and in the same
\* order at every price.)
FeedAgrees ==
  request = NoRequest /\ pending = <<>> =>
    LET rebuilt == books[Symbol]
    IN /\ Len(rebuilt) = Cardinality(Resting)
       /\ \A i \in Resting : \E k \in DOMAIN rebuilt :
            rebuilt[k] = Replica!Resting(i, orders[i].side, orders[i].price, orders[i].qty)
       /\ \A j, k \in DOMAIN rebuilt :
            /\ j < k
            /\ rebuilt[j].side = rebuilt[k].side
            /\ rebuilt[j].price = rebuilt[k].price
            => MatchedBefore(rebuilt[j].id, rebuilt[k].id)

\* No message of the feed names an order the replica does not have, or takes
\* more from it than it has.
FeedIsClean == anomalies = {}

\* A reader never sees a crossed market, not even between the messages of one
\* request: executions come before the order that remains.
ReplicaUncrossed ==
  \A j, k \in DOMAIN books[Symbol] :
    books[Symbol][j].side = "Bid" /\ books[Symbol][k].side = "Ask" =>
      books[Symbol][j].price < books[Symbol][k].price
=============================================================================
