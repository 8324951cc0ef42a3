--------------------------- MODULE ReferenceBook ---------------------------
(***************************************************************************)
(* tests/reference_book.hpp: the obviously correct book the repository     *)
(* tests the real one against.  One flat sequence of live orders in order  *)
(* of arrival, and every operation a search through it; no ladder, no id   *)
(* map, no per-level queue, no aggregate.  It is the abstract              *)
(* specification of order entry.                                           *)
(***************************************************************************)
EXTENDS Integers, Sequences, SequencesExt

CONSTANTS Ids, Prices, ValidPrices, MaxQty, Participants, Policies, Kinds,
          CounterModulus, NoCall, NoExec

VARIABLES live,    \* live_, in arrival order
          stp, tally, call, exec, result

vars == <<live, stp, tally, call, exec, result>>

Sides == {"Bid", "Ask"}

Init ==
  /\ live = <<>>
  /\ stp = "None"
  /\ tally = [added |-> 0, traded |-> 0, canceled |-> 0, prevented |-> 0]
  /\ call = NoCall
  /\ exec = NoExec
  /\ result = "none"

Add(t, field, n) == [t EXCEPT ![field] = (@ + n) % CounterModulus]

Find(i) == {k \in DOMAIN live : live[k].id = i}

\* Orders an aggressor can trade with: the other side, within its limit.
Crossing(kind, side, limit) ==
  {k \in DOMAIN live :
     /\ live[k].side # side
     /\ kind = "market" \/ (IF side = "Bid" THEN limit >= live[k].price
                                            ELSE limit <= live[k].price)}

\* Price-time priority, literally: better price, then earlier arrival.
Before(side, j, k) ==
  \/ IF side = "Bid" THEN live[j].price < live[k].price ELSE live[j].price > live[k].price
  \/ live[j].price = live[k].price /\ j < k

StpOn(actor) == actor # 0 /\ stp # "None"
StopsAtOwn == stp \in {"CancelAggressor", "CancelBoth"}

\* The pre-scan of add_fok_as.
Reachable(actor, side, price) ==
  LET own == {k \in Crossing("fok", side, price) : StpOn(actor) /\ live[k].participant = actor}
      reached == {k \in Crossing("fok", side, price) \ own :
                    StopsAtOwn => \A j \in own : Before(side, k, j)}
  IN MapThenSumSet(LAMBDA k : live[k].qty, reached)

Validate(kind, i, price, qty) ==
  IF i = 0 THEN "RejectedBadId"
  ELSE IF qty = 0 THEN "RejectedBadQty"
  ELSE IF kind # "market" /\ price \notin ValidPrices THEN "RejectedBadPrice"
  ELSE IF Find(i) # {} THEN "RejectedDuplicateId"
  ELSE "Ok"

Idle == call = NoCall /\ result = "none"

Reject(r) ==
  /\ result' = r
  /\ UNCHANGED <<live, stp, tally, call, exec>>

\* A call that has just begun to match (a replaced order is a limit order).
Started ==
  [kind : Kinds \cup {"limit"}, actor : Participants, id : Ids, side : Sides, price : Prices,
   qty : 1..MaxQty, left : 1..MaxQty, filled : {0}]

Start == call' \in Started /\ call'.left = call'.qty

\* A new order is accepted and begins to match.
Enter ==
  /\ Idle
  /\ Start /\ call'.kind \in Kinds
  /\ tally' = Add(tally, "added", call'.qty)
  /\ UNCHANGED <<live, stp, exec, result>>
  /\ Validate(call'.kind, call'.id, call'.price, call'.qty) = "Ok"
  /\ call'.kind = "fok" => Reachable(call'.actor, call'.side, call'.price) >= call'.qty

\* A new order is refused, by validation or for want of liquidity.
Refuse ==
  /\ Idle
  /\ result' \notin {"none", "Ok"}
  /\ Reject(result')
  /\ \E kind \in Kinds, i \in Ids \cup {0}, price \in Prices, qty \in 0..MaxQty :
       LET valid == Validate(kind, i, price, qty)
       IN \/ valid = result'
          \/ /\ valid = "Ok" /\ kind = "fok" /\ result' = "RejectedNoLiquidity"
             /\ \E actor \in Participants, side \in Sides : Reachable(actor, side, price) < qty

\* One iteration of match(), against the best counterparty k.
Trade(k) ==
  /\ call # NoCall /\ call.left > 0
  /\ LET choices == Crossing(call.kind, call.side, call.price)
     IN k \in choices /\ \A j \in choices \ {k} : Before(call.side, k, j)
  /\ LET o == live[k]
         fill == IF call.left < o.qty THEN call.left ELSE o.qty
     IN IF StpOn(call.actor) /\ o.participant = call.actor
        THEN /\ live' = IF stp = "CancelAggressor" THEN live ELSE RemoveAt(live, k)
             /\ tally' = Add(Add(tally, "prevented", 1), "canceled",
                             (IF stp = "CancelAggressor" THEN 0 ELSE o.qty)
                             + (IF stp = "CancelResting" THEN 0 ELSE call.left))
             /\ call' = IF stp = "CancelResting" THEN call ELSE [call EXCEPT !.left = 0]
             /\ exec' = NoExec
        ELSE /\ live' = IF fill = o.qty THEN RemoveAt(live, k)
                                        ELSE [live EXCEPT ![k].qty = @ - fill]
             /\ tally' = Add(tally, "traded", fill)
             /\ call' = [call EXCEPT !.left = @ - fill, !.filled = @ + fill]
             /\ exec' = [resting |-> o.id, aggressor |-> call.id, price |-> o.price,
                         qty |-> fill]
  /\ UNCHANGED <<stp, result>>

Finish ==
  /\ call # NoCall
  /\ call.left = 0 \/ Crossing(call.kind, call.side, call.price) = {}
  /\ IF call.kind = "limit"
     THEN /\ live' = IF call.left = 0 THEN live
                     ELSE Append(live, [id |-> call.id, side |-> call.side,
                                        price |-> call.price, qty |-> call.left,
                                        participant |-> call.actor])
          /\ UNCHANGED tally
     ELSE /\ tally' = Add(tally, "canceled", call.left)
          /\ UNCHANGED live
  /\ call' = NoCall /\ exec' = NoExec /\ result' = "Ok"
  /\ UNCHANGED stp

Return ==
  /\ result # "none" /\ result' = "none"
  /\ UNCHANGED <<live, stp, tally, call, exec>>

SetPolicy(policy) ==
  /\ Idle
  /\ stp' = policy
  /\ UNCHANGED <<live, tally, call, exec, result>>

Cancel(i) ==
  /\ Idle
  /\ \/ Find(i) = {} /\ Reject("RejectedUnknownId")
     \/ \E k \in Find(i) :
          /\ live' = RemoveAt(live, k)
          /\ tally' = Add(tally, "canceled", live[k].qty)
          /\ result' = "Ok"
          /\ UNCHANGED <<stp, call, exec>>

\* The old order makes way only for a new one that is valid; the new id may be
\* the old one.
ValidateReplace(old, new, price, qty) ==
  LET valid == Validate("limit", new, price, qty)
  IN IF Find(old) = {} THEN "RejectedUnknownId"
     ELSE IF valid = "RejectedDuplicateId" /\ new = old THEN "Ok"
     ELSE valid

Replace(old) ==
  /\ Idle
  /\ Start
  /\ \E k \in Find(old) :
       /\ call'.kind = "limit"
       /\ call'.actor = live[k].participant /\ call'.side = live[k].side
       /\ live' = RemoveAt(live, k)
       /\ tally' = Add(Add(tally, "canceled", live[k].qty), "added", call'.qty)
  /\ ValidateReplace(old, call'.id, call'.price, call'.qty) = "Ok"
  /\ UNCHANGED <<stp, exec, result>>

RefuseReplace(old) ==
  /\ Idle
  /\ result' \notin {"none", "Ok"}
  /\ Reject(result')
  /\ \E new \in Ids \cup {0}, price \in Prices, qty \in 0..MaxQty :
       ValidateReplace(old, new, price, qty) = result'

Next ==
  \/ Enter \/ Refuse
  \/ \E k \in DOMAIN live : Trade(k)
  \/ Finish
  \/ Return
  \/ \E i \in Ids : Cancel(i)
  \/ \E old \in Ids : Replace(old) \/ RefuseReplace(old)
  \/ \E policy \in Policies : SetPolicy(policy)

Spec == Init /\ [][Next]_vars
=============================================================================
