------------------------------- MODULE Sandbox -------------------------------
(***************************************************************************)
(* tools/mm_sandbox.cpp with include/pricetime/queue_position.hpp and      *)
(* market_maker.hpp: a market maker quotes both sides of one symbol while  *)
(* a recorded stream is replayed, and a fill model decides which prints    *)
(* would have filled it.                                                   *)
(*                                                                         *)
(* One step is one message, the whole of the handler that main() gives the *)
(* reader.  The stream is any: messages may be missing, repeated or out of *)
(* order; only a reference is one order's, and has one symbol and side.    *)
(***************************************************************************)
EXTENDS Replay, FiniteSetsExt

CONSTANTS
  Symbol,       \* cfg.symbol
  RefsOf,       \* the references of the symbol's orders on each side
  Prices,
  MaxQty,       \* bound: shares of an order
  HalfSpread, QuoteSize, MaxPosition, SkewPer100, Tick   \* MarketMakerConfig, cfg.tick

ASSUME SandboxAssumption ==
  /\ RefsOf \in [{"Bid", "Ask"} -> SUBSET Ids] /\ Prices \subseteq Nat /\ MaxQty \in Nat
  /\ {HalfSpread, QuoteSize, MaxPosition, Tick} \subseteq Nat \ {0} /\ SkewPer100 \in Nat

ASSUME TrackedAssumption == Tracked = {Symbol} /\ Symbol \in Symbols

VARIABLES
  queueModel,  \* cfg.queue_model
  lastMid,     \* last_mid
  quotes,      \* our_bid and our_ask
  position,    \* MarketMaker::position_
  behind       \* history: per side, what rests and came after the quote

sandbox == <<vars, queueModel, lastMid, quotes, position, behind>>

Sides == {"Bid", "Ask"}

Book == books[Symbol]

\* A QueuePosition; ahead is 0 for references that are not in the map.
Quote(active, price, remaining, ahead) ==
  [active |-> active, price |-> price, remaining |-> remaining, ahead |-> ahead]

Nobody == [i \in Ids |-> 0]

\* last_mid before there was one.
NoMid == -1

SandboxInit ==
  /\ Init
  /\ queueModel \in BOOLEAN
  /\ lastMid = NoMid
  /\ quotes = [side \in Sides |-> Quote(FALSE, 0, 0, Nobody)]
  /\ position = 0
  /\ behind = [side \in Sides |-> {}]

-----------------------------------------------------------------------------
(* The stream.                                                             *)

OtherRefs == Ids \ UNION {RefsOf[side] : side \in Sides}

\* An order enters with MaxQty shares and loses them a few at a time.
Adds(side) ==
  [type : {"A"}, symbol : {Symbol}, ref : RefsOf[side], side : {side}, price : Prices, qty : {MaxQty}]

Replaces(side) ==
  [type : {"U"}, ref : RefsOf[side], newRef : RefsOf[side], price : Prices, qty : {MaxQty}]

\* Orders of other symbols are entered on one side, which nothing looks at.
Messages ==
  (UNION {Adds(side) \cup Replaces(side) : side \in Sides})
    \cup [type : {"A"}, symbol : Symbols \ {Symbol}, ref : OtherRefs, side : {"Bid"},
          price : Prices, qty : {MaxQty}]
    \cup [type : {"E", "X"}, ref : Ids, qty : 1..MaxQty]
    \cup [type : {"D"}, ref : Ids]

-----------------------------------------------------------------------------
(* The strategy.                                                           *)

\* Integer division of the code: towards zero.
Quotient(a, b) == IF a < 0 THEN -((-a) \div b) ELSE a \div b

Skew(held) == Quotient(held * SkewPer100, 100)

snap_bid(p) == p - (p % Tick)

snap_ask(p) == IF p % Tick = 0 THEN p ELSE p + (Tick - (p % Tick))

\* bid_quote and ask_quote, on the instrument's grid.
Wanted(side, mid, held) ==
  IF side = "Bid" THEN snap_bid(mid - HalfSpread - Skew(held))
  ELSE snap_ask(mid + HalfSpread - Skew(held))

\* Mutant: a side is refused one fill too late.
Wants_Late(side, held) ==
  IF side = "Bid" THEN held <= MaxPosition ELSE held >= -MaxPosition

\* wants_bid and wants_ask.
Wants(side, held) ==
  IF side = "Bid" THEN held < MaxPosition ELSE held > -MaxPosition

\* on_fill.
Bought(side, qty) == IF side = "Bid" THEN qty ELSE -qty

-----------------------------------------------------------------------------
(* The fill models.                                                        *)

\* peek_event: what the message will take from which resting order, if it is
\* valid, read before the message is applied.
Valid(m) == m.type # "A" /\ Found(m.ref) # {}

Hit(m) == Book[CHOOSE k \in Found(m.ref) : TRUE]

Leaving(m) == IF m.type \in {"E", "X"} THEN m.qty ELSE Hit(m).qty

Min2(a, b) == IF a < b THEN a ELSE b

\* Mutant: any removal takes the order out of the queue.
OnSharesRemoved_Whole(q, i, qty) == [q EXCEPT !.ahead[i] = 0]

\* on_shares_removed, on a quote that is not behind i too.
OnSharesRemoved(q, i, qty) == [q EXCEPT !.ahead[i] = @ - Min2(qty, @)]

\* Mutant: a print at our price fills us whoever is ahead.
AtFront_Always(q) == q.active

AtFront(q) == q.active /\ q.ahead = Nobody

\* The queue model: a print at our price with nobody ahead is ours.
Reached(m) ==
  /\ queueModel /\ Valid(m) /\ lastMid # NoMid
  /\ m.type = "E"
  /\ AtFront(quotes[Hit(m).side]) /\ quotes[Hit(m).side].price = Hit(m).price

\* take_fill.
TakeFill(side, print) ==
  LET q == quotes[side]
      left == q.remaining - Min2(print, q.remaining)
  IN [quotes EXCEPT ![side].remaining = left, ![side].active = left > 0]

\* The quotes once the message has been applied.
Moved(m) ==
  IF ~(queueModel /\ Valid(m) /\ lastMid # NoMid) THEN quotes
  ELSE IF Reached(m) THEN TakeFill(Hit(m).side, Leaving(m))
  ELSE [side \in Sides |-> OnSharesRemoved(quotes[side], m.ref, Leaving(m))]

\* The optimistic model: every print at or through our quote.
Through(m) ==
  /\ ~queueModel /\ Valid(m) /\ lastMid # NoMid
  /\ m.type = "E"
  /\ Wants(Hit(m).side, position)
  /\ LET ours == Wanted(Hit(m).side, lastMid, position)
     IN IF Hit(m).side = "Bid" THEN ours >= Hit(m).price ELSE ours <= Hit(m).price

Filled(m) ==
  IF Reached(m) THEN Bought(Hit(m).side, Min2(Leaving(m), quotes[Hit(m).side].remaining))
  ELSE IF Through(m) THEN Bought(Hit(m).side, Min2(m.qty, QuoteSize))
  ELSE 0

-----------------------------------------------------------------------------
(* The requote.                                                            *)

PricesOf(orders, side) == {orders[k].price : k \in {j \in DOMAIN orders : orders[j].side = side}}

TwoSided(orders) == \A side \in Sides : PricesOf(orders, side) # {}

Mid(orders) == (Max(PricesOf(orders, "Bid")) + Min(PricesOf(orders, "Ask"))) \div 2

\* orders_at_level.
AtLevel(orders, side, price) ==
  [i \in Ids |->
     LET there == {k \in At(orders, i) : orders[k].side = side /\ orders[k].price = price}
     IN IF there = {} THEN 0 ELSE orders[CHOOSE k \in there : TRUE].qty]

\* A side that is wanted, and not where it is wanted.
Requotes(side, q, mid, held) ==
  Wants(side, held) /\ (~q.active \/ q.price # Wanted(side, mid, held))

Placed(side, mid, held, orders) ==
  LET price == Wanted(side, mid, held)
  IN Quote(TRUE, price, QuoteSize, AtLevel(orders, side, price))

\* The reference the message brought into the book, if it did; a replace may
\* bring back the one it took away.
Entered(m) ==
  {i \in Ids : At(Book', i) # {} /\ (At(Book, i) = {} \/ (m.type = "U" /\ m.ref = i))}

\* The sides that are requoted once the book is `orders' and the position `held'.
Requoted(moved, orders, mid, held) ==
  {side \in Sides : queueModel /\ TwoSided(orders) /\ Requotes(side, moved[side], mid, held)}

\* The rest of the handler, after apply() and the fills.  With a side of the
\* book empty it returns before it looks at the mid and the quotes.
Refresh(moved, entered, orders, mid, held) ==
  LET new == Requoted(moved, orders, mid, held)
  IN /\ lastMid' = mid
     /\ quotes' = [side \in Sides |->
                     IF side \in new THEN Placed(side, mid, held, orders) ELSE moved[side]]
     /\ behind' = [side \in Sides |->
                     IF side \in new THEN {}
                     ELSE {i \in behind[side] \cup entered : At(orders, i) # {}}]

\* The handler of main().
Handle(m) ==
  /\ Apply(m)
  /\ position' = position + Filled(m)
  /\ Refresh(Moved(m), Entered(m), Book', IF TwoSided(Book') THEN Mid(Book') ELSE lastMid, position')
  /\ UNCHANGED queueModel

SandboxNext == \E m \in Messages : Handle(m)

SandboxSpec == SandboxInit /\ [][SandboxNext]_sandbox

-----------------------------------------------------------------------------
(* Properties                                                              *)

\* queue_position.hpp, lines 24 and 25: the orders ahead of an active quote are
\* at all times those at its level that were there before it, each with the
\* shares it has left, however they left and whatever was replaced or clamped.
QueueExact ==
  \A side \in Sides :
    quotes[side].active =>
      quotes[side].ahead =
        [i \in Ids |-> IF i \in behind[side] THEN 0
                       ELSE AtLevel(Book, side, quotes[side].price)[i]]

\* In the queue model a fill comes after every order that was at the quote's
\* level before it.
FillsInTurn ==
  [][queueModel /\ position' # position =>
       LET side == IF position' > position THEN "Bid" ELSE "Ask"
       IN /\ quotes[side].active
          /\ \A k \in DOMAIN Book :
               Book[k].side = side /\ Book[k].price = quotes[side].price =>
                 Book[k].id \in behind[side]]_sandbox

\* market_maker.hpp, lines 41 and 70: no position grows beyond the limit by more
\* than a quote that was placed below it, less the share that was missing.
PositionBounded ==
  position \in -(MaxPosition + QuoteSize - 1)..(MaxPosition + QuoteSize - 1)
=============================================================================
