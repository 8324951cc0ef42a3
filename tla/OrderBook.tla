----------------------------- MODULE OrderBook -----------------------------
(***************************************************************************)
(* include/pricetime/book.hpp: the price-time-priority limit order book.   *)
(*                                                                         *)
(* One action per entry point and one per iteration of the matching loop:  *)
(* each execution is reported to the caller's on_exec while the call is    *)
(* still running.  (on_exec runs just before a spent order is unlinked; no *)
(* callback in the repository looks at the book, so the two are one step.) *)
(* Quantities are exact; the share counters are unsigned integers and wrap *)
(* at CounterModulus (2^64 in the code).                                   *)
(*                                                                         *)
(* The id map, the node pool and the intrusive list are represented by     *)
(* what they hold: orders is the map from a live id to its node, fifo the  *)
(* list of each level, total the level's running aggregate and levels the  *)
(* prices the ladder currently has a Level for.                            *)
(***************************************************************************)
EXTENDS Integers, Sequences, SequencesExt

CONSTANTS
  Ids,             \* order ids (id 0 is reserved and never one of them)
  Prices,          \* prices callers use
  ValidPrices,     \* those for which ladder_.valid_price holds
  MaxQty,          \* largest quantity callers use
  Participants,    \* participant ids; 0 is "unattributed"
  Policies,        \* self-trade policies set_self_trade_policy is called with
  Kinds,           \* order types callers use
  CounterModulus,  \* the counters count modulo this
  NoOrder, NoCall, NoExec

PolicyNames == {"None", "CancelResting", "CancelAggressor", "CancelBoth"}
KindNames == {"limit", "ioc", "fok", "market"}

ASSUME IdsAssumption == 0 \notin Ids /\ NoOrder \notin Ids
ASSUME PricesAssumption == Prices \subseteq Int /\ ValidPrices \subseteq Prices
ASSUME QtyAssumption == MaxQty \in Nat
ASSUME ParticipantsAssumption == 0 \in Participants
ASSUME PoliciesAssumption == Policies \subseteq PolicyNames
ASSUME KindsAssumption == Kinds \subseteq KindNames
ASSUME ModulusAssumption == CounterModulus \in Nat \ {0}

VARIABLES
  stp,       \* stp_
  orders,    \* orders_: id -> node, or NoOrder
  fifo,      \* the intrusive list of each level, head first
  total,     \* Level::total_qty
  levels,    \* the prices the ladder has a level for, per side
  counters,  \* counters_
  call,      \* the entry point now matching, or NoCall
  exec,      \* the Execution handed to on_exec by the last step, or NoExec
  result     \* what the last call returned, until the caller has it

book == <<orders, fifo, total, levels>>
vars == <<stp, book, counters, call, exec, result>>

Sides == {"Bid", "Ask"}
Opposite(s) == IF s = "Bid" THEN "Ask" ELSE "Bid"

Qtys == 1..MaxQty
Order == [side : Sides, price : ValidPrices, qty : Qtys, participant : Participants]
Call == [kind : KindNames, actor : Participants, id : Ids, side : Sides, price : Prices,
         qty : Qtys, left : 0..MaxQty, filled : 0..MaxQty]
Execution == [resting : Ids, aggressor : Ids, price : ValidPrices, qty : Qtys]
Counter == 0..(CounterModulus - 1)
Counters == [added : Counter, traded : Counter, canceled : Counter,
             executed : Counter, prevented : Counter]
Results == {"none", "Ok", "RejectedBadId", "RejectedBadQty", "RejectedBadPrice",
            "RejectedDuplicateId", "RejectedUnknownId", "RejectedNoLiquidity"}

ASSUME NoOrderAssumption == NoOrder \notin Order
ASSUME NoCallAssumption == NoCall \notin Call
ASSUME NoExecAssumption == NoExec \notin Execution

BookTypeOK ==
  /\ orders \in [Ids -> Order \cup {NoOrder}]
  /\ fifo \in [Sides -> [ValidPrices -> Seq(Ids)]]
  /\ total \in [Sides -> [ValidPrices -> Int]]
  /\ levels \in [Sides -> SUBSET ValidPrices]

TypeOK ==
  /\ BookTypeOK
  /\ stp \in PolicyNames
  /\ counters \in Counters
  /\ call \in Call \cup {NoCall}
  /\ exec \in Execution \cup {NoExec}
  /\ result \in Results

Init ==
  /\ stp = "None"
  /\ orders = [i \in Ids |-> NoOrder]
  /\ fifo = [s \in Sides |-> [p \in ValidPrices |-> <<>>]]
  /\ total = [s \in Sides |-> [p \in ValidPrices |-> 0]]
  /\ levels = [s \in Sides |-> {}]
  /\ counters = [added |-> 0, traded |-> 0, canceled |-> 0, executed |-> 0, prevented |-> 0]
  /\ call = NoCall
  /\ exec = NoExec
  /\ result = "none"

-----------------------------------------------------------------------------
(* The ladder: which levels there are and which is best.                   *)

Live(i) == i \in Ids /\ orders[i] # NoOrder

\* Price a ranks strictly before price b on side s.
Better(s, a, b) == IF s = "Bid" THEN a > b ELSE a < b

IsBest(s, p) == p \in levels[s] /\ \A q \in levels[s] : ~Better(s, q, p)

\* Mutant: a limit equal to the level's price does not trade.
Crosses_Strict(kind, s, limit, p) ==
  \/ kind = "market"
  \/ IF s = "Bid" THEN limit > p ELSE limit < p

\* An aggressor on side s with this limit trades with a level at p.
Crosses(kind, s, limit, p) ==
  \/ kind = "market"
  \/ IF s = "Bid" THEN limit >= p ELSE limit <= p

-----------------------------------------------------------------------------
(* Changing a level.                                                       *)

Count(field, n) == [counters EXCEPT ![field] = (@ + n) % CounterModulus]

Position(s, x) == CHOOSE k \in 1..Len(s) : s[k] = x

\* Mutant: the ladder is not told that a level has run empty.
Unlink_KeepsLevel(i) ==
  LET o == orders[i]
      q == fifo[o.side][o.price]
  IN /\ orders' = [orders EXCEPT ![i] = NoOrder]
     /\ fifo' = [fifo EXCEPT ![o.side][o.price] = RemoveAt(q, Position(q, i))]
     /\ total' = [total EXCEPT ![o.side][o.price] = @ - o.qty]
     /\ UNCHANGED levels

\* Level::remove, IdMap::erase, OrderPool::release, and on_level_empty when
\* that was the level's last order.
Unlink(i) ==
  LET o == orders[i]
      rest == RemoveAt(fifo[o.side][o.price], Position(fifo[o.side][o.price], i))
  IN /\ orders' = [orders EXCEPT ![i] = NoOrder]
     /\ fifo' = [fifo EXCEPT ![o.side][o.price] = rest]
     /\ total' = [total EXCEPT ![o.side][o.price] = @ - o.qty]
     /\ levels' = IF rest = <<>> THEN [levels EXCEPT ![o.side] = @ \ {o.price}] ELSE levels

\* Mutant: the level's aggregate is forgotten.
Shrink_ForgetsTotal(i, n) ==
  /\ orders' = [orders EXCEPT ![i].qty = @ - n]
  /\ UNCHANGED <<fifo, total, levels>>

\* Level::reduce: the order keeps its place in the queue.
Shrink(i, n) ==
  LET o == orders[i]
  IN /\ orders' = [orders EXCEPT ![i].qty = @ - n]
     /\ total' = [total EXCEPT ![o.side][o.price] = @ - n]
     /\ UNCHANGED <<fifo, levels>>

\* Mutant: the newest order goes first.
Rest_AtFront(i, side, price, qty, actor) ==
  /\ orders' = [orders EXCEPT ![i] =
                  [side |-> side, price |-> price, qty |-> qty, participant |-> actor]]
  /\ fifo' = [fifo EXCEPT ![side][price] = <<i>> \o @]
  /\ total' = [total EXCEPT ![side][price] = @ + qty]
  /\ levels' = [levels EXCEPT ![side] = @ \cup {price}]

\* rest(): get_or_create, alloc, push_back, insert.
Rest(i, side, price, qty, actor) ==
  /\ orders' = [orders EXCEPT ![i] =
                  [side |-> side, price |-> price, qty |-> qty, participant |-> actor]]
  /\ fifo' = [fifo EXCEPT ![side][price] = Append(@, i)]
  /\ total' = [total EXCEPT ![side][price] = @ + qty]
  /\ levels' = [levels EXCEPT ![side] = @ \cup {price}]

-----------------------------------------------------------------------------
(* Order entry: validate, then either return at once or start matching.    *)

Idle == call = NoCall /\ result = "none"

\* Mutant: a live id is accepted again.
Validate_AllowsDuplicates(kind, i, price, qty) ==
  IF i = 0 THEN "RejectedBadId"
  ELSE IF qty = 0 THEN "RejectedBadQty"
  ELSE IF kind # "market" /\ price \notin ValidPrices THEN "RejectedBadPrice"
  ELSE "Ok"

\* validate(); a market order has no price to check.
Validate(kind, i, price, qty) ==
  IF i = 0 THEN "RejectedBadId"
  ELSE IF qty = 0 THEN "RejectedBadQty"
  ELSE IF kind # "market" /\ price \notin ValidPrices THEN "RejectedBadPrice"
  ELSE IF Live(i) THEN "RejectedDuplicateId"
  ELSE "Ok"

StpOn(actor) == actor # 0 /\ stp # "None"
KillsResting == stp # "CancelAggressor"
\* Mutant: CancelAggressor is forgotten.
KillsAggressor_CancelBothOnly == stp = "CancelBoth"

KillsAggressor == stp # "CancelResting"

\* Which of two resting orders of a side for_each_level and the list walk come
\* to first: the one at the better price, or the one ahead in the queue.
MatchedBefore(i, j) ==
  LET s == orders[i].side
      p == orders[i].price
  IN \/ Better(s, p, orders[j].price)
     \/ p = orders[j].price /\ Position(fifo[s][p], i) < Position(fifo[s][p], j)

CrossingOrders(side, price) ==
  {i \in Ids : Live(i) /\ orders[i].side = Opposite(side)
                 /\ Crosses("fok", side, price, orders[i].price)}

\* Own orders are skipped or, when they kill the aggressor, end the walk.
ReachedOrders(actor, side, price) ==
  LET crossing == CrossingOrders(side, price)
      own == {i \in crossing : orders[i].participant = actor}
  IN {i \in crossing \ own : KillsAggressor => \A j \in own : MatchedBefore(i, j)}

\* Mutant: own orders count as liquidity.
Available_CountsOwn(actor, side, price) ==
  MapThenSumSet(LAMBDA p : total[Opposite(side)][p],
                {p \in levels[Opposite(side)] : Crosses("fok", side, price, p)})

\* available(): without self-trade prevention the level aggregates are enough.
Available(actor, side, price) ==
  IF StpOn(actor)
  THEN MapThenSumSet(LAMBDA i : orders[i].qty, ReachedOrders(actor, side, price))
  ELSE MapThenSumSet(LAMBDA p : total[Opposite(side)][p],
                     {p \in levels[Opposite(side)] : Crosses("fok", side, price, p)})

\* What add_limit_as, add_ioc_as, add_fok_as and add_market_as return before
\* they touch the book.
Screen(kind, actor, i, side, price, qty) ==
  LET r == Validate(kind, i, price, qty)
  IN IF r = "Ok" /\ kind = "fok" /\ Available(actor, side, price) < qty
     THEN "RejectedNoLiquidity"
     ELSE r

StartMatching(kind, actor, i, side, price, qty) ==
  call' = [kind |-> kind, actor |-> actor, id |-> i, side |-> side, price |-> price,
           qty |-> qty, left |-> qty, filled |-> 0]

Reject(r) ==
  /\ result' = r
  /\ UNCHANGED <<stp, book, counters, call, exec>>

Enter(kind, actor, i, side, price, qty) ==
  /\ Idle
  /\ LET r == Screen(kind, actor, i, side, price, qty)
     IN \/ r # "Ok" /\ Reject(r)
        \/ /\ r = "Ok"
           /\ StartMatching(kind, actor, i, side, price, qty)
           /\ counters' = Count("added", qty)
           /\ UNCHANGED <<stp, book, exec, result>>

-----------------------------------------------------------------------------
(* match(): one iteration of the inner loop per action.                    *)

\* Mutant: a fill is not limited by what the resting order has left.
Min2_First(a, b) == a

Min2(a, b) == IF a < b THEN a ELSE b

CanMatch(p) ==
  /\ call # NoCall
  /\ call.left > 0
  /\ IsBest(Opposite(call.side), p)
  /\ Crosses(call.kind, call.side, call.price, p)

Front1(p) == Head(fifo[Opposite(call.side)][p])

SelfTrade(p) ==
  LET resting == Front1(p)
  IN StpOn(call.actor) /\ orders[resting].participant = call.actor

\* Fill against the head of the best level; a spent order leaves the book.
Fill(p) ==
  /\ CanMatch(p)
  /\ ~SelfTrade(p)
  /\ LET resting == Front1(p)
         fill == Min2(call.left, orders[resting].qty)
     IN /\ IF fill = orders[resting].qty THEN Unlink(resting) ELSE Shrink(resting, fill)
        /\ call' = [call EXCEPT !.left = @ - fill, !.filled = @ + fill]
        /\ counters' = Count("traded", fill)
        /\ exec' = [resting |-> resting, aggressor |-> call.id, price |-> p, qty |-> fill]
        /\ UNCHANGED <<stp, result>>

\* The head belongs to the aggressor's own participant: kill the resting
\* order, the aggressor's remainder, or both.
PreventSelfTrade(p) ==
  /\ CanMatch(p)
  /\ SelfTrade(p)
  /\ LET resting == Front1(p)
         killed == (IF KillsResting THEN orders[resting].qty ELSE 0)
                   + (IF KillsAggressor THEN call.left ELSE 0)
     IN /\ IF KillsResting THEN Unlink(resting) ELSE UNCHANGED book
        /\ call' = [call EXCEPT !.left = IF KillsAggressor THEN 0 ELSE @]
        /\ counters' = [Count("canceled", killed)
                          EXCEPT !.prevented = (@ + 1) % CounterModulus]
        /\ exec' = NoExec
        /\ UNCHANGED <<stp, result>>

\* No level left that crosses, or nothing left to fill.
MatchOver ==
  /\ call # NoCall
  /\ \/ call.left = 0
     \/ \A p \in levels[Opposite(call.side)] : ~Crosses(call.kind, call.side, call.price, p)

\* The tail of the entry point: a limit order rests what is left, every other
\* kind cancels it.
Finish ==
  /\ MatchOver
  /\ IF call.kind = "limit" /\ call.left > 0
     THEN /\ Rest(call.id, call.side, call.price, call.left, call.actor)
          /\ UNCHANGED counters
     ELSE /\ counters' = Count("canceled", call.left)
          /\ UNCHANGED book
  /\ call' = NoCall
  /\ exec' = NoExec
  /\ result' = "Ok"
  /\ UNCHANGED stp

\* The caller takes the result and may call again.
Return ==
  /\ call = NoCall
  /\ result # "none"
  /\ result' = "none"
  /\ UNCHANGED <<stp, book, counters, call, exec>>

-----------------------------------------------------------------------------
(* The other entry points.                                                 *)

SetPolicy(policy) ==
  /\ Idle
  /\ stp' = policy
  /\ UNCHANGED <<book, counters, call, exec, result>>

Cancel(i) ==
  /\ Idle
  /\ \/ ~Live(i) /\ Reject("RejectedUnknownId")
     \/ /\ Live(i)
        /\ counters' = Count("canceled", orders[i].qty)
        /\ Unlink(i)
        /\ result' = "Ok"
        /\ UNCHANGED <<stp, call, exec>>

\* Mutant: that another order has the new id is found out too late.
ValidateReplace_ForgetsDuplicate(old, new, price, qty) ==
  LET r == Validate("limit", new, price, qty)
  IN IF ~Live(old) THEN "RejectedUnknownId"
     ELSE IF r = "RejectedDuplicateId" THEN "Ok"
     ELSE r

\* The new id may be the old one, which is about to be free.
ValidateReplace(old, new, price, qty) ==
  LET r == Validate("limit", new, price, qty)
  IN IF ~Live(old) THEN "RejectedUnknownId"
     ELSE IF r = "RejectedDuplicateId" /\ new = old THEN "Ok"
     ELSE r

\* add_limit_as for the new id, with the side and the owner of the old order o.
\* It validates once more, now that the old order is gone.
EnterReplacement(o, new, price, qty) ==
  LET again == Validate("limit", new, price, qty)'
  IN IF again = "Ok"
     THEN /\ StartMatching("limit", o.participant, new, o.side, price, qty)
          /\ counters' = [Count("canceled", o.qty) EXCEPT !.added = (@ + qty) % CounterModulus]
          /\ UNCHANGED <<stp, exec, result>>
     ELSE /\ counters' = Count("canceled", o.qty)
          /\ result' = again
          /\ UNCHANGED <<stp, call, exec>>

\* The whole new order is validated before the old one is cancelled.
Replace(old, new, price, qty) ==
  /\ Idle
  /\ LET r == ValidateReplace(old, new, price, qty)
     IN \/ r # "Ok" /\ Reject(r)
        \/ r = "Ok" /\ Unlink(old) /\ EnterReplacement(orders[old], new, price, qty)

\* insert_passive: rest without matching, for an unattributed owner.
InsertPassive(i, side, price, qty) ==
  /\ Idle
  /\ LET r == Validate("limit", i, price, qty)
     IN \/ r # "Ok" /\ Reject(r)
        \/ /\ r = "Ok"
           /\ counters' = Count("added", qty)
           /\ Rest(i, side, price, qty, 0)
           /\ result' = "Ok"
           /\ UNCHANGED <<stp, call, exec>>

\* Mutant: the counter gets the shares asked for, not the shares taken.
Consume_CountsAsked(i, qty, field) ==
  /\ Idle
  /\ \/ ~Live(i) /\ Reject("RejectedUnknownId")
     \/ Live(i) /\ qty = 0 /\ Reject("RejectedBadQty")
     \/ /\ Live(i) /\ qty # 0
        /\ counters' = Count(field, qty)
        /\ LET take == Min2(qty, orders[i].qty)
           IN IF take = orders[i].qty THEN Unlink(i) ELSE Shrink(i, take)
        /\ result' = "Ok"
        /\ UNCHANGED <<stp, call, exec>>

\* consume(): the shared body of execute_resting (field "executed") and
\* reduce_resting (field "canceled"); too large a quantity is clamped.
Consume(i, qty, field) ==
  /\ Idle
  /\ \/ ~Live(i) /\ Reject("RejectedUnknownId")
     \/ Live(i) /\ qty = 0 /\ Reject("RejectedBadQty")
     \/ /\ Live(i) /\ qty # 0
        /\ LET take == Min2(qty, orders[i].qty)
           IN /\ counters' = Count(field, take)
              /\ IF take = orders[i].qty THEN Unlink(i) ELSE Shrink(i, take)
        /\ result' = "Ok"
        /\ UNCHANGED <<stp, call, exec>>

-----------------------------------------------------------------------------

MatchStep == (\E p \in ValidPrices : Fill(p) \/ PreventSelfTrade(p)) \/ Finish \/ Return

OrderEntry ==
  \/ \E kind \in Kinds, actor \in Participants, i \in Ids \cup {0},
        side \in Sides, price \in Prices, qty \in 0..MaxQty :
       Enter(kind, actor, i, side, price, qty)
  \/ \E i \in Ids : Cancel(i)
  \/ \E old \in Ids, new \in Ids \cup {0}, price \in Prices, qty \in 0..MaxQty :
       Replace(old, new, price, qty)
  \/ \E policy \in Policies : SetPolicy(policy)

Reduction ==
  \E i \in Ids, qty \in 0..MaxQty, field \in {"executed", "canceled"} : Consume(i, qty, field)

Passive ==
  \E i \in Ids \cup {0}, side \in Sides, price \in Prices, qty \in 0..MaxQty :
    InsertPassive(i, side, price, qty)

\* A matching engine's book: everything but insert_passive.
Next == OrderEntry \/ Reduction \/ MatchStep
Spec == Init /\ [][Next]_vars

\* Every entry point in any order, feed reconstruction included.
ApiNext == Next \/ Passive
ApiSpec == Init /\ [][ApiNext]_vars

-----------------------------------------------------------------------------
(* Properties                                                              *)

Resting == {i \in Ids : orders[i] # NoOrder}

\* The id map and the level lists tell the same story: a live order is in
\* exactly one list, once, the one of its own side and price, and every listed
\* id is live, whatever the matching loop or a feed removed in between.
IndexesAgree ==
  /\ \A s \in Sides, p \in ValidPrices : \A k \in DOMAIN fifo[s][p] :
       LET i == fifo[s][p][k]
       IN Live(i) /\ orders[i].side = s /\ orders[i].price = p
  /\ \A i \in Resting :
       \E k \in DOMAIN fifo[orders[i].side][orders[i].price] :
         fifo[orders[i].side][orders[i].price][k] = i
  /\ \A s \in Sides, p \in ValidPrices : \A j, k \in DOMAIN fifo[s][p] :
       fifo[s][p][j] = fifo[s][p][k] => j = k

\* The ladder has a level exactly where there is an order: no empty level is
\* left behind to stop the matching loop, no queue is out of its reach.
LevelsLive == \A s \in Sides, p \in ValidPrices : p \in levels[s] <=> fifo[s][p] # <<>>

\* Each level's running total is the sum of what rests there (fill-or-kill
\* trusts it without looking at the orders).
TotalsAgree ==
  \A s \in Sides, p \in ValidPrices :
    total[s][p] = MapThenSumSet(LAMBDA i : orders[i].qty,
                                {i \in Resting : orders[i].side = s /\ orders[i].price = p})

\* The book of a matching engine is never crossed or locked, not even while a
\* call is between two executions.
NeverCrossed == \A b \in levels["Bid"], a \in levels["Ask"] : b < a

\* What has been added and is not accounted for: neither traded (which takes
\* shares of two orders), nor cancelled or executed, nor resting, nor in the
\* hands of the call under way.
Unaccounted ==
  LET resting == MapThenSumSet(LAMBDA i : orders[i].qty, Resting)
      open == IF call = NoCall THEN 0 ELSE call.left
  IN (counters.added - 2 * counters.traded - counters.canceled - counters.executed
        - resting - open) % CounterModulus

\* Share conservation (the comment at line 84), of every step: no entry point,
\* clamp, self-trade kill or replace lets shares appear or vanish.
SharesConserved == Unaccounted = 0 /\ [][Unaccounted' = Unaccounted]_vars

\* A fill-or-kill that passed its pre-scan fills completely, under every
\* self-trade policy and with any mix of owners in front of it.
FokAllOrNothing == MatchOver /\ call.kind = "fok" => call.filled = call.qty

\* A rejected call leaves no trace in the book or the counters: a replace is
\* validated before it cancels, a fill-or-kill scans before it matches.
RejectedLeavesNoTrace ==
  [][result' \notin {"none", "Ok"} => UNCHANGED <<book, counters>>]_vars

\* Every call returns: an iteration of the matching loop uses up some of the
\* aggressor or takes an order off the book, under every self-trade policy.
MatchingEnds ==
  [][call # NoCall /\ call' # NoCall =>
       Cardinality(Resting') + call'.left < Cardinality(Resting) + call.left]_vars
=============================================================================
