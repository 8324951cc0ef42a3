---------------------------- MODULE EngineProofs ----------------------------
(***************************************************************************)
(* For any number of requests and executions, any size of the queues, the  *)
(* batch and the pieces, with and without market data and SIGPIPE: the     *)
(* engine's stages hand over what they are given in order, account for all *)
(* of it when they exit, and throw away one message each at the most.      *)
(***************************************************************************)
EXTENDS Engine, SequenceFacts

-----------------------------------------------------------------------------
(* The inductive invariant.                                                *)

\* What stands in front of a stage's own program counter.
LocalInv ==
  /\ recvPc \in {"accept", "assign"} => conn = "none"
  /\ recvPc \in {"accept", "assign", "loop", "recv"} => Len(rbuf) < Pieces
  /\ matchPc = "push" => work # <<>>
  /\ matchPc \in {"poll", "recheck", "exited"} => work = <<>>
  /\ sendPc \in {"fill", "send"} => sbuf # <<>>
  /\ sendPc \in {"poll", "recheck", "drain", "exited"} => sbuf = <<>>
  /\ sendPc = "drain" => Broken

\* The sockets are only taken down by stop(), which has raised its flag by then.
StopInv ==
  /\ stopPc \in {"flagged", "unlistened", "joining", "stopped"} => stopping
  /\ listener = "down" => stopping
  /\ conn = "down" => stopping

\* What the client sent and the engine has not taken in yet is in recv_loop's
\* buffer and on the wire, piece by piece and in order, each request either
\* whole or garbled, unless a reset took the end of it.
Pending == rbuf \o toServer

\* The bytes begin with request a + 1 and end with, or before the end of, b.
Carries(bytes, a, b) ==
  \A j \in 0..(b - a - 1) : \E r \in {a + 1 + j, Garbled} :
    \A p \in 1..Pieces :
      Pieces * j + p <= Len(bytes) => bytes[Pieces * j + p] = <<r, p>>

StreamInv ==
  /\ requests <= sent
  /\ client # "closed" => Len(Pending) = Pieces * (sent - requests)
  /\ Len(Pending) <= Pieces * (sent - requests)
  /\ Carries(Pending, requests, sent)

\* recv_loop ends for one of four reasons, and stays right about it.
IntakeInv ==
  recvPc = "exited" =>
    \/ client = "finished" /\ requests = sent
    \/ stopping \/ client = "closed"
    \/ SubSeq(rbuf, 1, Pieces) = Bytes(Garbled)

\* The requests match_loop has popped.
Taken == requests - Len(qIn)

\* Requests queue up one by one; those popped were handled or are lost.
RequestInv ==
  /\ Len(qIn) <= requests
  /\ \A k \in 1..Len(qIn) : qIn[k] = Taken + k
  /\ 1..Taken = {m.req : m \in ToSet(made) \cup {x \in lost : x.to = "match"}}

\* Every message is on its way to where it is addressed, and none is invented.
DestInv ==
  /\ \A m \in ToSet(wire) \cup ToSet(sbuf) \cup ToSet(qOut) : m.to = "client"
  /\ \A m \in ToSet(feed) \cup ToSet(qMd) : m.to = "feed"
  /\ \A m \in ToSet(made) : m.to \in {"client", "feed"}
  /\ \A q \in {wire, sbuf, qOut, feed, qMd, work} : ToSet(q) \subseteq ToSet(made)

\* What was produced for somebody who is still there is somewhere.
FlowInv ==
  /\ ~Broken => To("client", made) \subseteq
                  ToSet(wire) \cup ToSet(sbuf) \cup ToSet(qOut) \cup ToSet(work) \cup lost
  /\ MdEnabled => To("feed", made) \subseteq ToSet(feed) \cup ToSet(qMd) \cup ToSet(work) \cup lost

\* A stage ends after the one before it, with nothing in its queue.
ExitInv ==
  /\ matchPc = "exited" => recvPc = "exited" /\ qIn = <<>>
  /\ sendPc = "exited" => matchPc = "exited" /\ qOut = <<>>
  /\ mdPc = "exited" => matchPc = "exited" /\ qMd = <<>>

Ended == {"exited", "killed"}

\* Once a stage has seen the one before it done, its first try_pop misses
\* nothing: if it fails the queue is empty and stays so.
SyncInv ==
  /\ "match" \in synced => recvPc \in Ended /\ (matchPc = "recheck" => qIn = <<>>)
  /\ "send" \in synced => matchPc \in Ended /\ (sendPc = "recheck" => qOut = <<>>)
  /\ "md" \in synced => matchPc \in Ended /\ (mdPc = "recheck" => qMd = <<>>)
  /\ \A m \in lost : \/ m.to = "match" /\ "match" \in synced
                     \/ m.to = "client" /\ "send" \in synced
                     \/ m.to = "feed" /\ "md" \in synced

\* Of the messages for a destination, all of A come before all of B.
Follows(dest, A, B) == \A a \in A, b \in B : a.to = dest /\ b.to = dest => Before(a, b)

\* The pieces of the pipeline are ordered in themselves and after one another.
OrderInv ==
  /\ Ascending("client", wire) /\ Ascending("client", sbuf) /\ Ascending("client", qOut)
  /\ Ascending("client", work) /\ Ascending("feed", work)
  /\ Ascending("feed", feed) /\ Ascending("feed", qMd)
  /\ Follows("client", ToSet(wire), ToSet(sbuf) \cup ToSet(qOut) \cup ToSet(work))
  /\ Follows("client", ToSet(sbuf), ToSet(qOut) \cup ToSet(work))
  /\ Follows("client", ToSet(qOut), ToSet(work))
  /\ Follows("feed", ToSet(feed), ToSet(qMd) \cup ToSet(work))
  /\ Follows("feed", ToSet(qMd), ToSet(work))

Inv ==
  /\ TypeOK /\ LocalInv /\ StopInv /\ StreamInv /\ IntakeInv /\ RequestInv
  /\ DestInv /\ FlowInv /\ ExitInv /\ SyncInv /\ OrderInv /\ AtMostOneLost

-----------------------------------------------------------------------------
(* Order.                                                                  *)

\* Taking the first element away keeps the order, and it was before the rest.
LEMMA AscendingTail ==
  ASSUME NEW S, NEW s \in Seq(S), s # <<>>, NEW d, Ascending(d, s)
  PROVE  Ascending(d, Tail(s)) /\ Follows(d, {Head(s)}, ToSet(Tail(s)))
<1>1. /\ Tail(s) \in Seq(S) /\ Len(s) \in Nat \ {0} /\ Len(Tail(s)) = Len(s) - 1 /\ Head(s) = s[1]
      /\ \A k \in 1..(Len(s) - 1) : Tail(s)[k] = s[k + 1]
  BY TailFacts
<1>2. DOMAIN s = 1..Len(s) /\ DOMAIN Tail(s) = 1..(Len(s) - 1)
  BY <1>1, LenProperties
<1>3. \A j, k \in 1..Len(s) : j < k /\ s[j].to = d /\ s[k].to = d => Before(s[j], s[k])
  BY <1>2 DEF Ascending
<1>4. Ascending(d, Tail(s))
  <2> SUFFICES ASSUME NEW j \in 1..(Len(s) - 1), NEW k \in 1..(Len(s) - 1), j < k,
                      Tail(s)[j].to = d, Tail(s)[k].to = d
               PROVE  Before(Tail(s)[j], Tail(s)[k])
    BY <1>2 DEF Ascending
  <2>1. /\ j + 1 \in 1..Len(s) /\ k + 1 \in 1..Len(s) /\ j + 1 < k + 1
        /\ Tail(s)[j] = s[j + 1] /\ Tail(s)[k] = s[k + 1]
    BY <1>1
  <2> QED BY <1>3, <2>1
<1>5. Follows(d, {Head(s)}, ToSet(Tail(s)))
  <2> SUFFICES ASSUME NEW k \in 1..(Len(s) - 1), s[1].to = d, Tail(s)[k].to = d
               PROVE  Before(s[1], Tail(s)[k])
    BY <1>1, <1>2 DEF Follows, ToSet
  <2>1. 1 \in 1..Len(s) /\ k + 1 \in 1..Len(s) /\ 1 < k + 1 /\ Tail(s)[k] = s[k + 1]
    BY <1>1
  <2> QED BY <1>3, <2>1
<1> QED BY <1>4, <1>5

\* What comes after everything there is may be appended.
LEMMA AscendingAppend ==
  ASSUME NEW S, NEW s \in Seq(S), NEW e \in S, NEW d, Ascending(d, s), Follows(d, ToSet(s), {e})
  PROVE  Ascending(d, Append(s, e))
<1>1. /\ Append(s, e) \in Seq(S) /\ Len(s) \in Nat /\ Len(Append(s, e)) = Len(s) + 1
      /\ \A k \in 1..Len(s) : Append(s, e)[k] = s[k]
      /\ Append(s, e)[Len(s) + 1] = e
  BY AppendFacts
<1>2. DOMAIN s = 1..Len(s) /\ DOMAIN Append(s, e) = 1..(Len(s) + 1)
  BY <1>1, LenProperties
<1>3. \A j, k \in 1..Len(s) : j < k /\ s[j].to = d /\ s[k].to = d => Before(s[j], s[k])
  BY <1>2 DEF Ascending
<1>4. \A j \in 1..Len(s) : s[j].to = d /\ e.to = d => Before(s[j], e)
  BY <1>2 DEF Follows, ToSet
<1> SUFFICES ASSUME NEW j \in 1..(Len(s) + 1), NEW k \in 1..(Len(s) + 1), j < k,
                    Append(s, e)[j].to = d, Append(s, e)[k].to = d
             PROVE  Before(Append(s, e)[j], Append(s, e)[k])
  BY <1>2 DEF Ascending
<1>5. j \in 1..Len(s) /\ Append(s, e)[j] = s[j]
  BY <1>1
<1>6. CASE k = Len(s) + 1
  BY <1>1, <1>4, <1>5, <1>6
<1>7. CASE k # Len(s) + 1
  <2>1. k \in 1..Len(s) /\ Append(s, e)[k] = s[k]
    BY <1>1, <1>7
  <2> QED BY <1>3, <1>5, <2>1
<1> QED BY <1>6, <1>7

\* Two ordered sequences, one after the other.
LEMMA AscendingConcat ==
  ASSUME NEW S, NEW s \in Seq(S), NEW t \in Seq(S), NEW d,
         Ascending(d, s), Ascending(d, t), Follows(d, ToSet(s), ToSet(t))
  PROVE  Ascending(d, s \o t)
<1>1. /\ s \o t \in Seq(S) /\ Len(s) \in Nat /\ Len(t) \in Nat
      /\ \A k \in 1..Len(s) : (s \o t)[k] = s[k]
      /\ \A k \in 1..Len(t) : (s \o t)[Len(s) + k] = t[k]
      /\ DOMAIN s = 1..Len(s) /\ DOMAIN t = 1..Len(t)
      /\ DOMAIN (s \o t) = 1..(Len(s) + Len(t))
  BY ConcatFacts
<1>2. \A j, k \in 1..Len(s) : j < k /\ s[j].to = d /\ s[k].to = d => Before(s[j], s[k])
  BY <1>1 DEF Ascending
<1>3. \A j, k \in 1..Len(t) : j < k /\ t[j].to = d /\ t[k].to = d => Before(t[j], t[k])
  BY <1>1 DEF Ascending
<1>4. \A j \in 1..Len(s), k \in 1..Len(t) : s[j].to = d /\ t[k].to = d => Before(s[j], t[k])
  BY <1>1 DEF Follows, ToSet
<1> DEFINE c == s \o t
<1> SUFFICES ASSUME NEW j \in 1..(Len(s) + Len(t)), NEW k \in 1..(Len(s) + Len(t)), j < k,
                    c[j].to = d, c[k].to = d
             PROVE  Before(c[j], c[k])
  BY <1>1 DEF Ascending
<1>5. CASE k <= Len(s)
  <2>1. j \in 1..Len(s) /\ k \in 1..Len(s) /\ c[j] = s[j] /\ c[k] = s[k]
    BY <1>1, <1>5
  <2> QED BY <1>2, <2>1
<1>6. CASE j <= Len(s) /\ k > Len(s)
  <2>1. j \in 1..Len(s) /\ c[j] = s[j]
    BY <1>1, <1>6
  <2>2. k - Len(s) \in 1..Len(t) /\ c[Len(s) + (k - Len(s))] = t[k - Len(s)]
    BY <1>1, <1>6
  <2>3. c[k] = t[k - Len(s)]
    BY <1>1, <2>2
  <2> QED BY <1>4, <2>1, <2>2, <2>3
<1>7. CASE j > Len(s)
  <2> DEFINE i == j - Len(s)
             l == k - Len(s)
  <2>1. i \in 1..Len(t) /\ l \in 1..Len(t) /\ i < l
    BY <1>1, <1>7
  <2>2. c[Len(s) + i] = t[i] /\ c[Len(s) + l] = t[l] /\ Len(s) + i = j /\ Len(s) + l = k
    BY <1>1, <2>1
  <2>3. c[j] = t[i] /\ c[k] = t[l]
    BY <2>2
  <2> HIDE DEF i, l
  <2> QED BY <1>3, <2>1, <2>3
<1> QED BY <1>1, <1>5, <1>6, <1>7

\* Before is an order of messages.
LEMMA BeforeTransitive ==
  ASSUME NEW a \in Messages, NEW b \in Messages, NEW c \in Messages, Before(a, b), Before(b, c)
  PROVE  Before(a, c)
  BY DEF Before, Messages

\* The constants, one by one.
LEMMA Sizes ==
  /\ MaxRequests \in Nat /\ MaxFills \in Nat
  /\ Pieces \in Nat \ {0} /\ QueueCapacity \in Nat \ {0}
  /\ SendBatch \in Nat \ {0} /\ SocketRoom \in Nat \ {0}
  BY BoundsAssumption, CapacityAssumption

\* The k-th message of the executions: for whom, and its number.
LEMMA FillFacts ==
  ASSUME NEW r \in 1..MaxRequests, NEW k \in 1..(3 * MaxFills)
  PROVE  LET m == FillOutput(r, k) IN
         /\ m \in Messages /\ m.req = r /\ m.to \in {"client", "feed"}
         /\ m.n \in 1..(2 * MaxFills)
         /\ m.to = "client" => k % 3 \in {1, 2} /\ m.n = 2 * ((k + 2) \div 3) - (2 - (k % 3))
         /\ m.to = "feed" => k % 3 = 0 /\ m.n = (k + 2) \div 3
<1> DEFINE fill == (k + 2) \div 3
<1>1. /\ k % 3 \in {0, 1, 2} /\ fill \in 1..MaxFills /\ MaxFills \in Nat
      /\ 3 * fill >= k /\ k > 3 * fill - 3
  BY Sizes
<1> HIDE DEF fill
<1>2. CASE k % 3 = 1
  <2>1. FillOutput(r, k) = Message("client", r, 2 * fill - 1)
    BY <1>2 DEF FillOutput, fill
  <2> QED BY <1>1, <1>2, <2>1 DEF Message, Messages, fill
<1>3. CASE k % 3 = 2
  <2>1. FillOutput(r, k) = Message("client", r, 2 * fill)
    BY <1>3 DEF FillOutput, fill
  <2> QED BY <1>1, <1>3, <2>1 DEF Message, Messages, fill
<1>4. CASE k % 3 = 0
  <2>1. FillOutput(r, k) = Message("feed", r, fill)
    BY <1>4 DEF FillOutput, fill
  <2> QED BY <1>1, <1>4, <2>1 DEF Message, Messages, fill
<1> QED BY <1>1, <1>2, <1>3, <1>4

\* What handle() produces for a request: messages of that request, the reply
\* among them, in order.
LEMMA OutputsFacts ==
  ASSUME NEW r \in 1..MaxRequests, NEW outs \in Outcomes(r)
  PROVE  /\ outs \in Seq(Messages) /\ outs # <<>>
         /\ \A m \in ToSet(outs) : m.req = r /\ m.to \in {"client", "feed"}
         /\ Ascending("client", outs) /\ Ascending("feed", outs)
<1>1. PICK fills \in 0..MaxFills, shown \in BOOLEAN : outs = Outputs(r, fills, shown)
  BY DEF Outcomes
<1> DEFINE reply == Message("client", r, 0)
           first == <<reply>>
           last == Message("feed", r, fills + 1)
           middle == [k \in 1..(3 * fills) |-> FillOutput(r, k)]
           rest == IF shown THEN <<last>> ELSE <<>>
<1>2. /\ reply \in Messages /\ reply.req = r /\ reply.to = "client" /\ reply.n = 0
      /\ last \in Messages /\ last.req = r /\ last.to = "feed" /\ last.n = fills + 1
  BY Sizes DEF Message, Messages
<1>3. \A k \in 1..(3 * fills) : k \in 1..(3 * MaxFills) /\ (k + 2) \div 3 <= fills
  BY Sizes
<1>4. middle \in Seq(Messages) /\ DOMAIN middle = 1..(3 * fills)
  <2>1. \A k \in 1..(3 * fills) : FillOutput(r, k) \in Messages
    BY <1>3, FillFacts
  <2>2. 3 * fills \in Nat
    BY Sizes
  <2> QED BY <2>1, <2>2
<1>5. ASSUME NEW d \in {"client", "feed"} PROVE Ascending(d, middle)
  <2> SUFFICES ASSUME NEW j \in 1..(3 * fills), NEW k \in 1..(3 * fills), j < k,
                      FillOutput(r, j).to = d, FillOutput(r, k).to = d
               PROVE  Before(FillOutput(r, j), FillOutput(r, k))
    BY <1>4 DEF Ascending
  <2>1. j \in 1..(3 * MaxFills) /\ k \in 1..(3 * MaxFills)
    BY <1>3
  <2>2. FillOutput(r, j).req = r /\ FillOutput(r, k).req = r
    BY <2>1, FillFacts
  <2>3. FillOutput(r, j).n < FillOutput(r, k).n
    <3>1. CASE d = "client"
      <4>1. /\ j % 3 \in {1, 2} /\ FillOutput(r, j).n = 2 * ((j + 2) \div 3) - (2 - (j % 3))
            /\ k % 3 \in {1, 2} /\ FillOutput(r, k).n = 2 * ((k + 2) \div 3) - (2 - (k % 3))
        BY <2>1, <3>1, FillFacts
      <4> QED BY <4>1
    <3>2. CASE d = "feed"
      <4>1. /\ j % 3 = 0 /\ FillOutput(r, j).n = (j + 2) \div 3
            /\ k % 3 = 0 /\ FillOutput(r, k).n = (k + 2) \div 3
        BY <2>1, <3>2, FillFacts
      <4> QED BY <4>1
    <3> QED BY <3>1, <3>2
  <2> QED BY <2>2, <2>3 DEF Before
<1>6. /\ \A m \in ToSet(middle) : m.req = r /\ m.to \in {"client", "feed"} /\ m.n > 0
      /\ \A m \in ToSet(middle) : m.to = "feed" => m.n < fills + 1
  <2>1. ASSUME NEW k \in 1..(3 * fills)
        PROVE  LET m == FillOutput(r, k) IN
               /\ m.req = r /\ m.to \in {"client", "feed"} /\ m.n > 0
               /\ m.to = "feed" => m.n < fills + 1
    BY <1>3, FillFacts, Sizes
  <2> QED BY <1>4, <2>1 DEF ToSet
<1> HIDE DEF reply, last, middle
<1>7. /\ first \in Seq(Messages) /\ ToSet(first) = {reply}
      /\ \A d \in {"client", "feed"} : Ascending(d, first)
  BY <1>2 DEF ToSet, Ascending
<1> HIDE DEF first
<1>8. /\ rest \in Seq(Messages) /\ ToSet(rest) \subseteq {last}
      /\ \A d \in {"client", "feed"} : Ascending(d, rest)
  <2>1. CASE shown
    BY <1>2, <2>1 DEF ToSet, Ascending
  <2>2. CASE ~shown
    BY <2>2, EmptySeq DEF ToSet, Ascending
  <2> QED BY <2>1, <2>2
<1>9. \A d \in {"client", "feed"} : Follows(d, ToSet(first), ToSet(middle))
  BY <1>2, <1>6, <1>7 DEF Follows, Before
<1>a. first \o middle \in Seq(Messages) /\ ToSet(first \o middle) = {reply} \cup ToSet(middle)
  <2>1. first \o middle \in Seq(Messages) /\ ToSet(first \o middle) = ToSet(first) \cup ToSet(middle)
    BY <1>4, <1>7, ConcatFacts
  <2> QED BY <1>7, <2>1
<1>b. \A d \in {"client", "feed"} : Ascending(d, first \o middle)
  BY <1>4, <1>5, <1>7, <1>9, AscendingConcat
<1>c. \A d \in {"client", "feed"} : Follows(d, ToSet(first \o middle), ToSet(rest))
  BY <1>2, <1>6, <1>8, <1>a DEF Follows, Before
<1>d. outs = (first \o middle) \o rest
  BY <1>1 DEF Outputs, reply, first, middle, last
<1> HIDE DEF rest
<1>e. /\ outs \in Seq(Messages) /\ ToSet(outs) = {reply} \cup ToSet(middle) \cup ToSet(rest)
      /\ \A d \in {"client", "feed"} : Ascending(d, outs)
  <2> DEFINE two == first \o middle
  <2> HIDE DEF two
  <2>1. two \in Seq(Messages) /\ ToSet(two) = {reply} \cup ToSet(middle) /\ outs = two \o rest
    BY <1>a, <1>d DEF two
  <2>2. two \o rest \in Seq(Messages) /\ ToSet(two \o rest) = ToSet(two) \cup ToSet(rest)
    BY <1>8, <2>1, ConcatFacts
  <2>3. \A d \in {"client", "feed"} : Ascending(d, two \o rest)
    BY <1>8, <1>b, <1>c, <2>1, AscendingConcat DEF two
  <2> QED BY <2>1, <2>2, <2>3
<1>f. outs # <<>>
  BY <1>e, ToSetType
<1> QED BY <1>2, <1>6, <1>8, <1>e, <1>f

-----------------------------------------------------------------------------
(* Types.                                                                  *)

\* What the steps are, one by one.
LEMMA Steps ==
  ASSUME [Next]_vars
  PROVE  \/ Connect \/ SendRequest \/ ReadResponse \/ FinishSending \/ Disconnect
         \/ StopFlag \/ InterruptListener \/ InterruptConn \/ Join
         \/ Accept \/ AssignConn \/ CheckStopping \/ ReceiveEnds
         \/ (\E n \in 1..(Pieces * MaxRequests) : Receive(n))
         \/ BatchDone \/ PushRequest \/ Desync
         \/ Handle \/ Push \/ NoRequest \/ RecheckRequests
         \/ PopResponse \/ Coalesce \/ BatchReady \/ Transmit \/ TransmitFails
         \/ KilledBySigPipe \/ Drain \/ NoResponse \/ RecheckResponses
         \/ Publish \/ NoMarketData \/ RecheckMarketData
         \/ UNCHANGED vars
  BY DEF Next, ClientStep, StopStep, RecvStep, MatchStep, SendStep, MdStep, Over

\* The types of the sequences, written out.
SeqTypes ==
  /\ toServer \in AllBytes /\ rbuf \in AllBytes
  /\ qIn \in Seq(1..MaxRequests) /\ Len(qIn) <= QueueCapacity
  /\ work \in Seq(Messages) /\ made \in Seq(Messages)
  /\ qOut \in Seq(Messages) /\ Len(qOut) <= QueueCapacity
  /\ qMd \in Seq(Messages) /\ Len(qMd) <= QueueCapacity
  /\ sbuf \in Seq(Messages) /\ Len(sbuf) <= SendBatch
  /\ wire \in Seq(Messages) /\ feed \in Seq(Messages)

\* The counters, and what is only history.
CountTypes ==
  /\ sent \in 0..MaxRequests /\ requests \in 0..MaxRequests /\ read \in 0..Len(wire)
  /\ lost \subseteq Messages

\* The program counters and flags.
ControlTypes ==
  /\ client \in {"away", "open", "finished", "closed"}
  /\ listener \in {"up", "down"} /\ conn \in {"none", "up", "down"}
  /\ stopping \in BOOLEAN
  /\ stopPc \in {"running", "flagged", "unlistened", "joining", "stopped", "killed"}
  /\ recvPc \in {"accept", "assign", "loop", "recv", "decode", "exited", "killed"}
  /\ matchPc \in {"poll", "recheck", "push", "exited", "killed"}
  /\ sendPc \in {"poll", "recheck", "fill", "send", "drain", "exited", "killed"}
  /\ mdPc \in {"poll", "recheck", "exited", "killed"}
  /\ synced \subseteq {"match", "send", "md"}

\* TypeOK is these three.
LEMMA TypeParts == TypeOK <=> SeqTypes /\ CountTypes /\ ControlTypes
  BY DEF TypeOK, SeqTypes, CountTypes, ControlTypes

-----------------------------------------------------------------------------
(* The bytes of the requests.                                              *)

Byte == (0..MaxRequests) \X (1..Pieces)

\* A request's bytes.
LEMMA BytesFacts ==
  ASSUME NEW r \in 0..MaxRequests
  PROVE  /\ Bytes(r) \in Seq(Byte) /\ Len(Bytes(r)) = Pieces /\ Pieces \in Nat \ {0}
         /\ \A p \in 1..Pieces : Bytes(r)[p] = <<r, p>>
<1>1. Pieces \in Nat \ {0}
  BY Sizes
<1>2. \A p \in 1..Pieces : <<r, p>> \in Byte
  BY DEF Byte
<1>3. Bytes(r) = [p \in 1..Pieces |-> <<r, p>>]
  BY DEF Bytes
<1> QED BY <1>1, <1>2, <1>3

\* The p-th byte of the j-th of d requests is one of their bytes.
LEMMA InBlock ==
  ASSUME NEW P \in Nat \ {0}, NEW j \in Nat, NEW d \in Nat, j < d, NEW p \in 1..P,
         NEW L, L = P * d
  PROVE  P * j + p \in 1..L
<1>1. P * j \in Nat /\ P * (d - (j + 1)) \in Nat
  OBVIOUS
<1>2. P * (d - (j + 1)) = L - (P * j + P)
  OBVIOUS
<1> DEFINE x == P * j
           y == P * (d - (j + 1))
<1> HIDE DEF x, y
<1>3. x \in Nat /\ y \in Nat /\ y = L - (x + P)
  BY <1>1, <1>2 DEF x, y
<1>4. L \in Int
  OBVIOUS
<1>5. x + p \in 1..L
  BY <1>3, <1>4
<1> QED BY <1>5 DEF x

\* A beginning of the bytes still begins with the same request.
LEMMA CarriesPrefix ==
  ASSUME NEW s \in Seq(Byte), NEW t \in Seq(Byte), NEW a \in Nat, NEW b \in Nat,
         Carries(s \o t, a, b)
  PROVE  Carries(s, a, b)
<1>1. /\ Len(s) \in Nat /\ Len(t) \in Nat /\ Len(s \o t) = Len(s) + Len(t)
      /\ \A k \in 1..Len(s) : (s \o t)[k] = s[k]
  BY ConcatFacts
<1> SUFFICES ASSUME NEW j \in 0..(b - a - 1)
             PROVE  \E r \in {a + 1 + j, Garbled} : \A p \in 1..Pieces :
                      Pieces * j + p <= Len(s) => s[Pieces * j + p] = <<r, p>>
  BY DEF Carries
<1>2. PICK r \in {a + 1 + j, Garbled} : \A p \in 1..Pieces :
        Pieces * j + p <= Len(s \o t) => (s \o t)[Pieces * j + p] = <<r, p>>
  BY DEF Carries
<1>3. ASSUME NEW p \in 1..Pieces, Pieces * j + p <= Len(s) PROVE s[Pieces * j + p] = <<r, p>>
  <2>1. Pieces * j \in Nat
    BY Sizes
  <2> DEFINE k == Pieces * j + p
  <2>2. k \in 1..Len(s) /\ k <= Len(s \o t)
    BY <1>1, <1>3, <2>1
  <2> QED BY <1>1, <1>2, <2>2
<1> QED BY <1>3

\* Another request, or garbage in its place, at the end of complete ones.
LEMMA CarriesAppend ==
  ASSUME NEW s \in Seq(Byte), NEW t \in Seq(Byte), NEW a \in Nat, NEW b \in Nat, a <= b,
         Carries(s, a, b), Len(s) = Pieces * (b - a), NEW r \in {b + 1, Garbled},
         Len(t) = Len(s) + Pieces, \A k \in 1..Len(s) : t[k] = s[k],
         \A p \in 1..Pieces : t[Len(s) + p] = <<r, p>>
  PROVE  Carries(t, a, b + 1)
<1>2. Pieces \in Nat \ {0} /\ Len(s) \in Nat
  BY Sizes, LenProperties
<1> SUFFICES ASSUME NEW j \in 0..(b - a)
             PROVE  \E q \in {a + 1 + j, Garbled} : \A p \in 1..Pieces :
                      Pieces * j + p <= Len(t) => t[Pieces * j + p] = <<q, p>>
  <2>1. (b + 1) - a - 1 = b - a
    OBVIOUS
  <2> QED BY <2>1 DEF Carries
<1>4. CASE j = b - a
  <2>1. ASSUME NEW p \in 1..Pieces PROVE t[Pieces * j + p] = <<r, p>>
    BY <1>2, <1>4
  <2> QED BY <1>4, <2>1
<1>5. CASE j < b - a
  <2>0. j \in 0..(b - a - 1)
    BY <1>5
  <2>1. PICK q \in {a + 1 + j, Garbled} : \A p \in 1..Pieces :
          Pieces * j + p <= Len(s) => s[Pieces * j + p] = <<q, p>>
    BY <2>0, Zenon DEF Carries
  <2>2. ASSUME NEW p \in 1..Pieces PROVE t[Pieces * j + p] = <<q, p>>
    <3> DEFINE k == Pieces * j + p
    <3>1. b - a \in Nat /\ j \in Nat
      OBVIOUS
    <3>2. k \in 1..Len(s)
      BY <1>2, <1>5, <3>1, InBlock
    <3>3. s[k] = <<q, p>>
      BY <2>1, <3>2
    <3> HIDE DEF k
    <3>4. t[k] = s[k]
      BY <3>2
    <3> QED BY <3>3, <3>4 DEF k
  <2> QED BY <2>2
<1> QED BY <1>4, <1>5

\* A place of a block, and of the one behind it.
LEMMA BlockBehind ==
  ASSUME NEW w \in Nat \ {0}, NEW p \in 1..w, NEW x \in Nat, NEW u \in Nat, NEW v \in Nat,
         u = v - w, x + p <= u
  PROVE  x + p \in 1..u /\ (x + p) + w = (x + w) + p /\ (x + w) + p <= v
  OBVIOUS

\* The first request taken away.
LEMMA CarriesDrop ==
  ASSUME NEW s \in Seq(Byte), NEW t \in Seq(Byte), NEW a \in Nat, NEW b \in Nat,
         Carries(s, a, b), Len(s) >= Pieces,
         Len(t) = Len(s) - Pieces, \A k \in 1..Len(t) : t[k] = s[k + Pieces]
  PROVE  Carries(t, a + 1, b)
<1>1. Pieces \in Nat \ {0} /\ Len(s) \in Nat /\ Len(t) \in Nat
  BY Sizes, LenProperties
<1> SUFFICES ASSUME NEW j \in 0..(b - (a + 1) - 1)
             PROVE  \E r \in {a + 1 + 1 + j, Garbled} : \A p \in 1..Pieces :
                      Pieces * j + p <= Len(t) => t[Pieces * j + p] = <<r, p>>
  BY DEF Carries
<1>2. j + 1 \in 0..(b - a - 1) /\ a + 1 + (j + 1) = a + 1 + 1 + j
  OBVIOUS
<1>3. PICK r \in {a + 1 + (j + 1), Garbled} : \A p \in 1..Pieces :
        Pieces * (j + 1) + p <= Len(s) => s[Pieces * (j + 1) + p] = <<r, p>>
  BY <1>2 DEF Carries
<1>4. ASSUME NEW p \in 1..Pieces, Pieces * j + p <= Len(t) PROVE t[Pieces * j + p] = <<r, p>>
  <2>1. PICK block \in Nat, after \in Nat :
          block = Pieces * j /\ after = Pieces * (j + 1) /\ after = block + Pieces
    BY <1>1
  <2>2. PICK k \in 1..Len(t) : k = block + p /\ k + Pieces = after + p /\ after + p <= Len(s)
    <3>1. block + p <= Len(t)
      BY <1>4, <2>1
    <3>2. block + p \in 1..Len(t) /\ (block + p) + Pieces = (block + Pieces) + p
          /\ (block + Pieces) + p <= Len(s)
      BY <1>1, <3>1, BlockBehind
    <3> QED BY <2>1, <3>2
  <2>3. s[after + p] = <<r, p>>
    BY <1>3, <2>1, <2>2
  <2>4. t[k] = s[k + Pieces]
    OBVIOUS
  <2> QED BY <2>1, <2>2, <2>3, <2>4
<1> QED BY <1>2, <1>3, <1>4

\* The bytes not taken in yet, one by one.
LEMMA PendingFacts ==
  ASSUME SeqTypes
  PROVE  /\ rbuf \in Seq(Byte) /\ toServer \in Seq(Byte) /\ Pending \in Seq(Byte)
         /\ Len(rbuf) \in Nat /\ Len(toServer) \in Nat
         /\ Len(Pending) = Len(rbuf) + Len(toServer)
         /\ \A k \in 1..Len(rbuf) : Pending[k] = rbuf[k]
         /\ \A k \in 1..Len(toServer) : Pending[Len(rbuf) + k] = toServer[k]
<1>1. rbuf \in Seq(Byte) /\ toServer \in Seq(Byte)
  BY DEF SeqTypes, AllBytes, Byte
<1> QED BY <1>1, ConcatFacts DEF Pending

\* The front of recv_loop's buffer, once it is as long as a request: the next
\* request, or garbage in its place, and decode tells which.
LEMMA FrontDecoded ==
  ASSUME SeqTypes, CountTypes, StreamInv, Len(rbuf) >= Pieces
  PROVE  /\ requests < sent
         /\ Decoded # Garbled => Decoded = requests + 1
         /\ Decoded = Garbled => SubSeq(rbuf, 1, Pieces) = Bytes(Garbled)
<1> DEFINE front == SubSeq(rbuf, 1, Pieces)
<1>1. /\ Pieces \in Nat \ {0} /\ MaxRequests \in Nat
      /\ sent \in Nat /\ requests \in Nat /\ sent <= MaxRequests
  BY Sizes DEF CountTypes
<1>2. /\ rbuf \in Seq(Byte) /\ Len(rbuf) \in Nat /\ Len(toServer) \in Nat
      /\ Len(Pending) = Len(rbuf) + Len(toServer)
      /\ \A k \in 1..Len(rbuf) : Pending[k] = rbuf[k]
  BY PendingFacts
<1>3. requests < sent
  <2>1. requests = sent => Pieces * (sent - requests) = 0
    BY <1>1
  <2>2. requests <= sent /\ Len(Pending) <= Pieces * (sent - requests)
    BY DEF StreamInv
  <2>3. Len(Pending) > 0
    BY <1>1, <1>2
  <2> QED BY <1>1, <1>2, <2>1, <2>2, <2>3
<1>4. PICK r \in {requests + 1, Garbled} : \A p \in 1..Pieces : rbuf[p] = <<r, p>>
  <2>1. 0 \in 0..(sent - requests - 1) /\ requests + 1 + 0 = requests + 1
    BY <1>1, <1>3
  <2>2. PICK r \in {requests + 1 + 0, Garbled} : \A p \in 1..Pieces :
          Pieces * 0 + p <= Len(Pending) => Pending[Pieces * 0 + p] = <<r, p>>
    BY <2>1 DEF StreamInv, Carries
  <2>3. ASSUME NEW p \in 1..Pieces PROVE rbuf[p] = <<r, p>>
    <3>1. Pieces * 0 + p = p /\ p <= Len(Pending) /\ p \in 1..Len(rbuf)
      BY <1>1, <1>2
    <3> QED BY <1>2, <2>2, <3>1
  <2> QED BY <2>1, <2>2, <2>3
<1>5. front = Bytes(r)
  <2>1. r \in 0..MaxRequests
    BY <1>1, <1>3, <1>4 DEF Garbled
  <2>2. /\ Bytes(r) \in Seq(Byte) /\ Len(Bytes(r)) = Pieces
        /\ \A p \in 1..Pieces : Bytes(r)[p] = <<r, p>>
    BY <2>1, BytesFacts
  <2>3. front \in Seq(Byte) /\ Len(front) = Pieces /\ \A p \in 1..Pieces : front[p] = rbuf[p]
    <3>1. \A k \in 1..Pieces : rbuf[k] \in Byte
      BY <1>1, <1>2, ElementOfSeq
    <3>2. 1 \in Int /\ Pieces \in Int
      BY <1>1
    <3>3. /\ front \in Seq(Byte) /\ Len(front) = (IF 1 <= Pieces THEN Pieces - 1 + 1 ELSE 0)
          /\ \A k \in 1..(Pieces - 1 + 1) : front[k] = rbuf[1 + k - 1]
      BY <3>1, <3>2, SubSeqProperties
    <3> QED BY <1>1, <3>3
  <2> QED BY <1>4, <2>2, <2>3, SeqEqual
<1>6. rbuf[1][1] = r
  BY <1>1, <1>4
<1>7. CASE r = Garbled
  <2>1. ASSUME NEW q \in 1..MaxRequests PROVE front # Bytes(q)
    <3>1. Bytes(q)[1] = <<q, 1>> /\ Bytes(r)[1] = <<Garbled, 1>>
      BY <1>1, <1>7, BytesFacts DEF Garbled
    <3>2. front = Bytes(q) => <<q, 1>> = <<Garbled, 1>>
      BY <1>5, <1>7, <3>1
    <3>3. <<q, 1>> # <<Garbled, 1>>
      BY DEF Garbled
    <3> QED BY <3>2, <3>3
  <2>2. Decoded = Garbled
    BY <2>1 DEF Decoded
  <2> QED BY <1>3, <1>5, <1>7, <2>2
<1>8. CASE r = requests + 1
  <2>1. r \in 1..MaxRequests
    BY <1>1, <1>3, <1>8
  <2>2. Decoded = r
    BY <1>5, <1>6, <2>1 DEF Decoded
  <2> QED BY <1>1, <1>3, <1>8, <2>2 DEF Garbled
<1> QED BY <1>4, <1>7, <1>8

\* The bytes on their way and in the buffer, for every step.
LEMMA NextStream ==
  ASSUME SeqTypes, CountTypes, StreamInv, [Next]_vars
  PROVE  StreamInv'
<1>1. /\ Pieces \in Nat \ {0} /\ MaxRequests \in Nat
      /\ sent \in Nat /\ requests \in Nat /\ sent <= MaxRequests /\ requests <= sent
  BY Sizes DEF CountTypes, StreamInv
<1>2. /\ rbuf \in Seq(Byte) /\ toServer \in Seq(Byte) /\ Pending \in Seq(Byte)
      /\ Len(rbuf) \in Nat /\ Len(toServer) \in Nat
      /\ Len(Pending) = Len(rbuf) + Len(toServer)
      /\ \A k \in 1..Len(rbuf) : Pending[k] = rbuf[k]
      /\ \A k \in 1..Len(toServer) : Pending[Len(rbuf) + k] = toServer[k]
  BY PendingFacts
<1>a. CASE UNCHANGED <<sent, toServer, rbuf, requests>> /\ (client = "closed" => client' = "closed")
  <2>1. Pending' = Pending
    BY <1>a DEF Pending
  <2> QED BY <1>a, <2>1 DEF StreamInv
<1>b. CASE SendRequest
  <2>1. PICK r \in {sent + 1, Garbled} : toServer' = toServer \o Bytes(r)
    BY <1>b DEF SendRequest
  <2>2. sent' = sent + 1 /\ sent < MaxRequests /\ client = "open" /\ UNCHANGED <<client, rbuf, requests>>
    BY <1>b DEF SendRequest, recvVars
  <2>3. r \in 0..MaxRequests
    BY <1>1, <2>2 DEF Garbled
  <2>4. PICK b \in Seq(Byte) : b = Bytes(r) /\ Len(b) = Pieces /\ \A p \in 1..Pieces : b[p] = <<r, p>>
    BY <2>3, BytesFacts
  <2>5. Pending' = Pending \o b
    <3>1. rbuf \in Seq(Byte) /\ toServer \in Seq(Byte) /\ b \in Seq(Byte)
      BY <1>2, <2>4
    <3>2. (rbuf \o toServer) \o b = rbuf \o (toServer \o b)
      BY <3>1, ConcatAssociative
    <3> QED BY <2>1, <2>2, <2>4, <3>2 DEF Pending
  <2>6. /\ Pending' \in Seq(Byte) /\ Len(Pending') = Len(Pending) + Pieces
        /\ \A k \in 1..Len(Pending) : Pending'[k] = Pending[k]
        /\ \A p \in 1..Pieces : Pending'[Len(Pending) + p] = <<r, p>>
    <3>0. Pending \in Seq(Byte) /\ b \in Seq(Byte)
      BY <1>2, <2>4
    <3>1. /\ Pending \o b \in Seq(Byte) /\ Len(Pending \o b) = Len(Pending) + Len(b)
          /\ \A k \in 1..Len(Pending) : (Pending \o b)[k] = Pending[k]
          /\ \A k \in 1..Len(b) : (Pending \o b)[Len(Pending) + k] = b[k]
      BY <3>0, ConcatFacts
    <3> QED BY <2>4, <2>5, <3>1
  <2>7. Len(Pending) = Pieces * (sent - requests)
    BY <2>2 DEF StreamInv
  <2>8. Carries(Pending', requests, sent + 1)
    BY <1>1, <1>2, <2>6, <2>7, CarriesAppend DEF StreamInv
  <2>9. Len(Pending') = Pieces * ((sent + 1) - requests)
    BY <1>1, <2>6, <2>7
  <2> QED BY <1>1, <2>2, <2>8, <2>9 DEF StreamInv
<1>c. CASE Disconnect
  <2>1. client' = "closed" /\ UNCHANGED <<sent, rbuf, requests>>
    BY <1>c DEF Disconnect, recvVars
  <2>2. CASE UNCHANGED toServer
    BY <1>a, <2>1, <2>2
  <2>3. CASE toServer' = <<>>
    <3>1. Pending' = rbuf
      BY <1>2, <2>1, <2>3, ConcatEmptySeq DEF Pending
    <3>2. Carries(rbuf, requests, sent)
      BY <1>1, <1>2, CarriesPrefix DEF StreamInv, Pending
    <3> QED BY <1>1, <1>2, <2>1, <3>1, <3>2 DEF StreamInv
  <2> QED BY <1>c, <2>2, <2>3 DEF Disconnect
<1>d. ASSUME NEW n \in 1..(Pieces * MaxRequests), Receive(n) PROVE StreamInv'
  <2>1. /\ n \in 1..Len(toServer)
        /\ rbuf' = rbuf \o SubSeq(toServer, 1, n)
        /\ toServer' = SubSeq(toServer, n + 1, Len(toServer))
        /\ UNCHANGED <<client, sent, requests>>
    BY <1>d DEF Receive
  <2>2. n \in 0..Len(toServer)
    BY <2>1
  <2>3. SubSeq(toServer, 1, n) \in Seq(Byte) /\ SubSeq(toServer, n + 1, Len(toServer)) \in Seq(Byte)
    BY <1>2, <2>1, SubSeqProperties, ElementOfSeq
  <2>4. SubSeq(toServer, 1, n) \o SubSeq(toServer, n + 1, Len(toServer)) = toServer
    BY <1>2, <2>1, ConcatAdjacentSubSeq, SubSeqFull
  <2>5. Pending' = Pending
    <3> DEFINE u == SubSeq(toServer, 1, n)
               v == SubSeq(toServer, n + 1, Len(toServer))
    <3>1. u \in Seq(Byte) /\ v \in Seq(Byte) /\ u \o v = toServer
      BY <2>3, <2>4
    <3>2. rbuf' = rbuf \o u /\ toServer' = v
      BY <2>1
    <3> HIDE DEF u, v
    <3>4. rbuf \in Seq(Byte) /\ u \in Seq(Byte) /\ v \in Seq(Byte)
      BY <1>2, <3>1
    <3>3. (rbuf \o u) \o v = rbuf \o (u \o v)
      BY <3>4, ConcatAssociative
    <3> QED BY <3>1, <3>2, <3>3 DEF Pending
  <2> QED BY <2>1, <2>5 DEF StreamInv
<1>e. CASE PushRequest
  <2>1. /\ rbuf' = SubSeq(rbuf, Pieces + 1, Len(rbuf)) /\ requests' = requests + 1
        /\ Len(rbuf) >= Pieces /\ UNCHANGED <<client, sent, toServer>>
    BY <1>e DEF PushRequest, clientVars
  <2>2. requests < sent
    BY <2>1, FrontDecoded
  <2>3. /\ rbuf' \in Seq(Byte) /\ Len(rbuf') = Len(rbuf) - Pieces
        /\ \A k \in 1..Len(rbuf') : rbuf'[k] = rbuf[k + Pieces]
    <3>1. \A k \in (Pieces + 1)..Len(rbuf) : rbuf[k] \in Byte
      BY <1>1, <1>2, ElementOfSeq
    <3>2. Pieces + 1 \in Int /\ Len(rbuf) \in Int
      BY <1>1, <1>2
    <3>3. LET t == SubSeq(rbuf, Pieces + 1, Len(rbuf)) IN
          /\ t \in Seq(Byte)
          /\ Len(t) = (IF Pieces + 1 <= Len(rbuf) THEN Len(rbuf) - (Pieces + 1) + 1 ELSE 0)
          /\ \A k \in 1..(Len(rbuf) - (Pieces + 1) + 1) : t[k] = rbuf[(Pieces + 1) + k - 1]
      BY <3>1, <3>2, SubSeqProperties
    <3> QED BY <1>1, <1>2, <2>1, <3>3
  <2>4. /\ Pending' \in Seq(Byte) /\ Len(Pending') = Len(Pending) - Pieces
        /\ \A k \in 1..Len(Pending') : Pending'[k] = Pending[k + Pieces]
    <3>1. /\ Pending' \in Seq(Byte) /\ Len(Pending') = Len(rbuf') + Len(toServer)
          /\ \A k \in 1..Len(rbuf') : Pending'[k] = rbuf'[k]
          /\ \A k \in 1..Len(toServer) : Pending'[Len(rbuf') + k] = toServer[k]
      BY <1>2, <2>1, <2>3, ConcatFacts DEF Pending
    <3>2. ASSUME NEW k \in 1..Len(Pending') PROVE Pending'[k] = Pending[k + Pieces]
      <4>1. CASE k <= Len(rbuf')
        BY <1>1, <1>2, <2>3, <3>1, <4>1
      <4>2. CASE k > Len(rbuf')
        <5> DEFINE i == k - Len(rbuf')
        <5>1. i \in 1..Len(toServer) /\ Len(rbuf') + i = k /\ Len(rbuf) + i = k + Pieces
          BY <1>1, <1>2, <2>3, <3>1, <4>2
        <5> QED BY <1>2, <3>1, <5>1
      <4> QED BY <1>1, <1>2, <2>3, <3>1, <4>1, <4>2
    <3> QED BY <1>1, <1>2, <2>3, <3>1, <3>2
  <2>5. Len(Pending) >= Pieces
    BY <1>1, <1>2, <2>1
  <2>6. Carries(Pending', requests + 1, sent)
    BY <1>1, <1>2, <2>4, <2>5, CarriesDrop DEF StreamInv
  <2>7. Pieces * (sent - (requests + 1)) = Pieces * (sent - requests) - Pieces
    BY <1>1
  <2> DEFINE x == Pieces * (sent - requests)
  <2>8. /\ Len(Pending') <= x - Pieces
        /\ client # "closed" => Len(Pending') = x - Pieces
    <3>1. Len(Pending) <= x /\ (client # "closed" => Len(Pending) = x) /\ x \in Int
      BY <1>1 DEF StreamInv
    <3> HIDE DEF x
    <3> QED BY <1>1, <1>2, <2>4, <3>1
  <2> QED BY <1>1, <2>1, <2>2, <2>6, <2>7, <2>8 DEF StreamInv
<1>f. CASE \/ Connect \/ ReadResponse \/ FinishSending \/ StopFlag \/ InterruptListener
           \/ InterruptConn \/ Join
  BY <1>a, <1>f DEF Connect, ReadResponse, FinishSending, StopFlag, InterruptListener,
        InterruptConn, Join, clientVars, recvVars
<1>g. CASE Accept \/ AssignConn \/ CheckStopping \/ ReceiveEnds \/ BatchDone \/ Desync
  BY <1>a, <1>g DEF Accept, AssignConn, CheckStopping, ReceiveEnds, BatchDone, Desync, clientVars
<1>h. CASE Handle \/ Push \/ NoRequest \/ RecheckRequests
  BY <1>a, <1>h DEF Handle, Push, NoRequest, RecheckRequests, upstream, clientVars, recvVars
<1>i. CASE \/ PopResponse \/ Coalesce \/ BatchReady \/ Transmit \/ TransmitFails
           \/ KilledBySigPipe \/ Drain \/ NoResponse \/ RecheckResponses
  BY <1>a, <1>i DEF PopResponse, Coalesce, BatchReady, Transmit, TransmitFails, KilledBySigPipe,
        Drain, NoResponse, RecheckResponses, upstream, clientVars, recvVars
<1>j. CASE Publish \/ NoMarketData \/ RecheckMarketData \/ UNCHANGED vars
  BY <1>a, <1>j DEF Publish, NoMarketData, RecheckMarketData, vars, upstream, clientVars, recvVars
<1> QED BY <1>b, <1>c, <1>d, <1>e, <1>f, <1>g, <1>h, <1>i, <1>j, Steps

-----------------------------------------------------------------------------
(* stop() and intake.                                                      *)

\* Nothing but stop() takes a socket down.
LEMMA NextStop ==
  ASSUME StopInv, [Next]_vars
  PROVE  StopInv'
<1> USE DEF StopInv
<1>a. CASE UNCHANGED <<stopVars, conn>>
  BY <1>a DEF stopVars
<1>b. CASE StopFlag \/ InterruptListener \/ InterruptConn \/ Join
  BY <1>b DEF StopFlag, InterruptListener, InterruptConn, Join
<1>c. CASE AssignConn
  BY <1>c DEF AssignConn, stopVars
<1>d. CASE KilledBySigPipe
  BY <1>d DEF KilledBySigPipe
<1>e. CASE Connect \/ SendRequest \/ ReadResponse \/ FinishSending \/ Disconnect
  BY <1>a, <1>e DEF Connect, SendRequest, ReadResponse, FinishSending, Disconnect
<1>f. CASE Accept \/ CheckStopping \/ ReceiveEnds \/ BatchDone \/ PushRequest \/ Desync
  BY <1>a, <1>f DEF Accept, CheckStopping, ReceiveEnds, BatchDone, PushRequest, Desync
<1>g. CASE \E n \in 1..(Pieces * MaxRequests) : Receive(n)
  BY <1>a, <1>g DEF Receive
<1>h. CASE Handle \/ Push \/ NoRequest \/ RecheckRequests
  BY <1>a, <1>h DEF Handle, Push, NoRequest, RecheckRequests, upstream
<1>i. CASE \/ PopResponse \/ Coalesce \/ BatchReady \/ Transmit \/ TransmitFails
           \/ Drain \/ NoResponse \/ RecheckResponses
  BY <1>a, <1>i DEF PopResponse, Coalesce, BatchReady, Transmit, TransmitFails,
        Drain, NoResponse, RecheckResponses, upstream
<1>j. CASE Publish \/ NoMarketData \/ RecheckMarketData \/ UNCHANGED vars
  BY <1>a, <1>j DEF Publish, NoMarketData, RecheckMarketData, vars, upstream
<1> QED BY <1>b, <1>c, <1>d, <1>e, <1>f, <1>g, <1>h, <1>i, <1>j, Steps

\* Where each stage's buffer stands at each of its program points.
LEMMA NextLocal ==
  ASSUME SeqTypes, CountTypes, LocalInv, [Next]_vars
  PROVE  LocalInv'
<1> USE DEF LocalInv, Broken
<1>0. /\ Pieces \in Nat \ {0} /\ Len(rbuf) \in Nat
      /\ work \in Seq(Messages) /\ sbuf \in Seq(Messages) /\ qOut \in Seq(Messages)
  BY Sizes, PendingFacts DEF SeqTypes
<1>a. CASE /\ UNCHANGED <<recvVars, conn, matchVars, sendVars>>
           /\ client = "closed" => client' = "closed"
  BY <1>a DEF recvVars, matchVars, sendVars
<1>b. CASE Connect \/ SendRequest \/ ReadResponse \/ FinishSending \/ Disconnect
  BY <1>a, <1>b DEF Connect, SendRequest, ReadResponse, FinishSending, Disconnect, downstream
<1>c. CASE StopFlag \/ InterruptListener \/ Join
  BY <1>a, <1>c DEF StopFlag, InterruptListener, Join, clientVars, downstream
<1>d. CASE InterruptConn
  BY <1>d DEF InterruptConn, clientVars, recvVars, downstream, matchVars, sendVars
<1>e. CASE Accept \/ AssignConn \/ CheckStopping \/ ReceiveEnds \/ BatchDone \/ Desync
  BY <1>e DEF Accept, AssignConn, CheckStopping, ReceiveEnds, BatchDone, Desync,
        clientVars, downstream, matchVars, sendVars
<1>f. CASE PushRequest
  BY <1>f DEF PushRequest, clientVars, downstream, matchVars, sendVars
<1>g. CASE \E n \in 1..(Pieces * MaxRequests) : Receive(n)
  BY <1>g DEF Receive, downstream, matchVars, sendVars
<1>h. CASE Handle
  <2>1. \A r \in 1..MaxRequests : \A outs \in Outcomes(r) : outs # <<>>
    BY OutputsFacts
  <2>2. Head(qIn) \in 1..MaxRequests
    BY <1>h, TailFacts DEF Handle, SeqTypes
  <2> QED BY <1>h, <2>1, <2>2 DEF Handle, upstream, clientVars, recvVars, sendVars
<1>i. CASE Push
  <2>1. work # <<>>
    BY <1>i DEF Push
  <2>2. Tail(work) = <<>> <=> Len(work) = 1
    BY <1>0, <2>1, TailEmpty
  <2> QED BY <1>i, <2>2 DEF Push, upstream, clientVars, recvVars, sendVars
<1>j. CASE NoRequest \/ RecheckRequests
  BY <1>j DEF NoRequest, RecheckRequests, upstream, clientVars, recvVars, sendVars
<1>k. CASE PopResponse \/ BatchReady \/ TransmitFails \/ NoResponse \/ RecheckResponses \/ Drain
  BY <1>k DEF PopResponse, BatchReady, TransmitFails, NoResponse, RecheckResponses, Drain,
        upstream, clientVars, recvVars, matchVars
<1>l. CASE Coalesce
  <2>1. Head(qOut) \in Messages
    BY <1>0, <1>l, TailFacts DEF Coalesce
  <2>2. Append(sbuf, Head(qOut)) # <<>>
    BY <1>0, <2>1, AppendFacts
  <2> QED BY <1>l, <2>2 DEF Coalesce, upstream, clientVars, recvVars, matchVars
<1>m. CASE Transmit
  <2>1. sbuf # <<>>
    BY <1>m DEF Transmit
  <2>2. Tail(sbuf) = <<>> <=> Len(sbuf) = 1
    BY <1>0, <2>1, TailEmpty
  <2> QED BY <1>m, <2>2 DEF Transmit, upstream, clientVars, recvVars, matchVars
<1>n. CASE KilledBySigPipe
  BY <1>n DEF KilledBySigPipe, clientVars
<1>o. CASE Publish \/ NoMarketData \/ RecheckMarketData \/ UNCHANGED vars
  BY <1>a, <1>o DEF Publish, NoMarketData, RecheckMarketData, vars, upstream, downstream, clientVars
<1> QED BY <1>b, <1>c, <1>d, <1>e, <1>f, <1>g, <1>h, <1>i, <1>j, <1>k, <1>l, <1>m, <1>n, <1>o, Steps

\* Why recv_loop ended.
LEMMA NextIntake ==
  ASSUME SeqTypes, CountTypes, LocalInv, StopInv, StreamInv, IntakeInv, [Next]_vars
  PROVE  IntakeInv'
<1> USE DEF IntakeInv
<1>a. CASE /\ UNCHANGED <<recvVars, stopping, sent>>
           /\ client = "closed" => client' = "closed"
           /\ client = "finished" => client' \in {"finished", "closed"}
  BY <1>a DEF recvVars
<1>b. CASE Connect \/ ReadResponse \/ FinishSending \/ Disconnect
  BY <1>a, <1>b DEF Connect, ReadResponse, FinishSending, Disconnect, stopVars
<1>c. CASE SendRequest
  BY <1>c DEF SendRequest, recvVars, stopVars
<1>d. CASE StopFlag
  BY <1>d DEF StopFlag
<1>e. CASE InterruptListener \/ InterruptConn \/ Join
  BY <1>a, <1>e DEF InterruptListener, InterruptConn, Join, clientVars
<1>f. CASE Accept \/ AssignConn \/ CheckStopping \/ BatchDone \/ PushRequest
  BY <1>f DEF Accept, AssignConn, CheckStopping, BatchDone, PushRequest, StopInv, stopVars
<1>g. CASE \E n \in 1..(Pieces * MaxRequests) : Receive(n)
  BY <1>g DEF Receive
<1>h. CASE Desync
  <2>1. Len(rbuf) >= Pieces /\ Decoded = Garbled /\ rbuf' = rbuf
    BY <1>h DEF Desync
  <2>2. SubSeq(rbuf, 1, Pieces) = Bytes(Garbled)
    BY <2>1, FrontDecoded
  <2> QED BY <2>1, <2>2
<1>i. CASE ReceiveEnds
  <2>1. \/ conn = "down"
        \/ client \in {"finished", "closed"} /\ toServer = <<>>
    BY <1>i DEF ReceiveEnds
  <2>2. UNCHANGED <<client, sent, requests, stopping>>
    BY <1>i DEF ReceiveEnds, clientVars, stopVars
  <2>3. CASE conn = "down" \/ client = "closed"
    BY <2>2, <2>3 DEF StopInv
  <2>4. CASE client = "finished" /\ toServer = <<>>
    <3>1. Len(rbuf) < Pieces /\ Pieces \in Nat \ {0}
      BY <1>i, Sizes DEF ReceiveEnds, LocalInv
    <3>2. Len(Pending) = Len(rbuf) /\ Len(rbuf) \in Nat
      BY <2>4, PendingFacts, EmptySeq
    <3>3. Len(Pending) = Pieces * (sent - requests) /\ requests <= sent
      BY <2>4 DEF StreamInv
    <3>4. sent - requests \in Nat
      BY <3>3 DEF CountTypes
    <3>5. sent - requests = 0
      <4> DEFINE d == sent - requests
      <4>1. d \in Nat /\ Len(rbuf) = Pieces * d
        BY <3>2, <3>3, <3>4
      <4> HIDE DEF d
      <4>2. CASE d # 0
        <5>1. Pieces * (d - 1) \in Nat /\ Pieces * d = Pieces * (d - 1) + Pieces
          BY <3>1, <4>1, <4>2
        <5> QED BY <3>1, <4>1, <5>1
      <4> QED BY <4>2 DEF d
    <3>6. sent = requests
      BY <3>5 DEF CountTypes
    <3> QED BY <2>2, <2>4, <3>6
  <2> QED BY <2>1, <2>3, <2>4
<1>j. CASE Handle \/ Push \/ NoRequest \/ RecheckRequests
  BY <1>a, <1>j DEF Handle, Push, NoRequest, RecheckRequests, upstream, clientVars, stopVars
<1>k. CASE \/ PopResponse \/ Coalesce \/ BatchReady \/ Transmit \/ TransmitFails
           \/ Drain \/ NoResponse \/ RecheckResponses
  BY <1>a, <1>k DEF PopResponse, Coalesce, BatchReady, Transmit, TransmitFails,
        Drain, NoResponse, RecheckResponses, upstream, clientVars, stopVars
<1>l. CASE KilledBySigPipe
  BY <1>l DEF KilledBySigPipe
<1>m. CASE Publish \/ NoMarketData \/ RecheckMarketData \/ UNCHANGED vars
  BY <1>a, <1>m DEF Publish, NoMarketData, RecheckMarketData, vars, upstream, clientVars, stopVars
<1> QED BY <1>b, <1>c, <1>d, <1>e, <1>f, <1>g, <1>h, <1>i, <1>j, <1>k, <1>l, <1>m, Steps

-----------------------------------------------------------------------------
(* The types, for every step.                                              *)

\* The sequences.
LEMMA NextSeqTypes ==
  ASSUME SeqTypes, CountTypes, StreamInv, LocalInv, [Next]_vars
  PROVE  SeqTypes'
<1> USE DEF SeqTypes
<1>0. QueueCapacity \in Nat \ {0} /\ SendBatch \in Nat \ {0} /\ MaxRequests \in Nat
  BY Sizes
<1>1. rbuf \in Seq(Byte) /\ toServer \in Seq(Byte) /\ AllBytes = Seq(Byte)
  BY PendingFacts DEF AllBytes, Byte
<1>a. CASE UNCHANGED <<toServer, rbuf, qIn, work, made, qOut, qMd, sbuf, wire, feed>>
  BY <1>a
<1>b. CASE SendRequest
  <2>1. PICK r \in {sent + 1, Garbled} : toServer' = toServer \o Bytes(r)
    BY <1>b DEF SendRequest
  <2>2. r \in 0..MaxRequests
    BY <1>0, <1>b DEF SendRequest, Garbled, CountTypes
  <2>3. Bytes(r) \in Seq(Byte)
    BY <2>2, BytesFacts
  <2>4. toServer \o Bytes(r) \in Seq(Byte)
    BY <1>1, <2>3, ConcatFacts
  <2> QED BY <1>1, <1>b, <2>1, <2>4
          DEF SendRequest, recvVars, downstream, matchVars, sendVars, mdVars
<1>c. CASE Disconnect
  <2>1. toServer' \in {toServer, <<>>}
    BY <1>c DEF Disconnect
  <2>2. toServer' \in AllBytes
    BY <1>1, <2>1, EmptySeq
  <2> QED BY <1>c, <2>2 DEF Disconnect, recvVars, downstream, matchVars, sendVars, mdVars
<1>d. CASE Connect \/ ReadResponse \/ FinishSending
  BY <1>a, <1>d DEF Connect, ReadResponse, FinishSending,
        recvVars, downstream, matchVars, sendVars, mdVars
<1>e. CASE StopFlag \/ InterruptListener \/ InterruptConn \/ Join
  BY <1>a, <1>e DEF StopFlag, InterruptListener, InterruptConn, Join,
        clientVars, recvVars, downstream, matchVars, sendVars, mdVars
<1>f. CASE Accept \/ AssignConn \/ CheckStopping \/ ReceiveEnds \/ BatchDone \/ Desync
  BY <1>a, <1>f DEF Accept, AssignConn, CheckStopping, ReceiveEnds, BatchDone, Desync,
        clientVars, recvVars, downstream, matchVars, sendVars, mdVars
<1>g. ASSUME NEW n \in 1..(Pieces * MaxRequests), Receive(n) PROVE SeqTypes'
  <2>1. n \in 1..Len(toServer) /\ Len(toServer) \in Nat
    BY <1>g, PendingFacts DEF Receive
  <2>2. SubSeq(toServer, 1, n) \in Seq(Byte) /\ SubSeq(toServer, n + 1, Len(toServer)) \in Seq(Byte)
    BY <1>1, <2>1, SubSeqProperties, ElementOfSeq
  <2>3. rbuf' \in Seq(Byte) /\ toServer' \in Seq(Byte)
    BY <1>1, <1>g, <2>2, ConcatFacts DEF Receive
  <2> QED BY <1>1, <1>g, <2>3 DEF Receive, downstream, matchVars, sendVars, mdVars
<1>h. CASE PushRequest
  <2>1. Decoded \in 1..MaxRequests
    <3>1. Len(rbuf) >= Pieces /\ Decoded # Garbled
      BY <1>h DEF PushRequest
    <3>2. requests < sent /\ Decoded = requests + 1
      BY <3>1, FrontDecoded
    <3>3. sent \in 0..MaxRequests /\ requests \in 0..MaxRequests
      BY DEF CountTypes
    <3> HIDE DEF SeqTypes
    <3> QED BY <1>0, <3>2, <3>3
  <2>2. SubSeq(rbuf, Pieces + 1, Len(rbuf)) \in Seq(Byte)
    <3>1. Pieces + 1 \in Int /\ Len(rbuf) \in Int
      BY Sizes, PendingFacts
    <3>2. \A k \in (Pieces + 1)..Len(rbuf) : rbuf[k] \in Byte
      BY <1>1, Sizes, PendingFacts, ElementOfSeq
    <3> QED BY <3>1, <3>2, SubSeqProperties
  <2>3. Append(qIn, Decoded) \in Seq(1..MaxRequests) /\ Len(Append(qIn, Decoded)) = Len(qIn) + 1
    BY <2>1, AppendFacts
  <2>4. Len(qIn) \in Nat /\ Len(qIn) < QueueCapacity
    BY <1>h, LenProperties DEF PushRequest, HasRoom
  <2>5. rbuf' \in AllBytes /\ qIn' \in Seq(1..MaxRequests) /\ Len(qIn') <= QueueCapacity
    <3>1. rbuf' = SubSeq(rbuf, Pieces + 1, Len(rbuf)) /\ qIn' = Append(qIn, Decoded)
      BY <1>h DEF PushRequest
    <3>2. Len(qIn) + 1 <= QueueCapacity
      BY <1>0, <2>4
    <3> QED BY <1>1, <2>2, <2>3, <3>1, <3>2
  <2>6. UNCHANGED <<toServer, work, made, qOut, qMd, sbuf, wire, feed>>
    BY <1>h DEF PushRequest, clientVars, downstream, matchVars, sendVars, mdVars
  <2> QED BY <2>5, <2>6
<1>i. CASE Handle
  <2>1. Head(qIn) \in 1..MaxRequests /\ Tail(qIn) \in Seq(1..MaxRequests)
        /\ Len(Tail(qIn)) = Len(qIn) - 1 /\ Len(qIn) \in Nat
    BY <1>i, TailFacts DEF Handle
  <2>2. PICK outs \in Outcomes(Head(qIn)) : work' = outs /\ made' = made \o outs
    BY <1>i DEF Handle
  <2>3. outs \in Seq(Messages)
    BY <2>1, OutputsFacts
  <2>4. made \o outs \in Seq(Messages)
    BY <2>3, ConcatFacts
  <2> QED BY <1>0, <1>i, <2>1, <2>2, <2>3, <2>4
          DEF Handle, upstream, clientVars, recvVars, sendVars, mdVars
<1>j. CASE Push
  <2>1. work # <<>>
    BY <1>j DEF Push, LocalInv
  <2>2. Head(work) \in Messages /\ Tail(work) \in Seq(Messages)
    BY <2>1, TailFacts
  <2>3. ASSUME NEW q \in Seq(Messages), Len(q) <= QueueCapacity, HasRoom(q)
        PROVE  Append(q, Head(work)) \in Seq(Messages) /\ Len(Append(q, Head(work))) <= QueueCapacity
    BY <1>0, <2>2, <2>3, AppendFacts DEF HasRoom
  <2> QED BY <1>j, <2>2, <2>3 DEF Push, upstream, clientVars, recvVars, sendVars, mdVars
<1>k. CASE NoRequest
  BY <1>a, <1>k DEF NoRequest, upstream, clientVars, recvVars, sendVars, mdVars
<1>l. CASE RecheckRequests
  <2>1. qIn # <<>> => Tail(qIn) \in Seq(1..MaxRequests) /\ Len(Tail(qIn)) <= QueueCapacity
    BY <1>0, TailFacts
  <2>2. qIn' = qIn \/ (qIn # <<>> /\ qIn' = Tail(qIn))
    BY <1>l DEF RecheckRequests
  <2>3. qIn' \in Seq(1..MaxRequests) /\ Len(qIn') <= QueueCapacity
    BY <2>1, <2>2, Zenon
  <2> QED BY <1>l, <2>3 DEF RecheckRequests, upstream, clientVars, recvVars, sendVars, mdVars
<1>m. qOut # <<>> => /\ Head(qOut) \in Messages /\ Tail(qOut) \in Seq(Messages)
                     /\ Len(Tail(qOut)) <= QueueCapacity
  BY <1>0, TailFacts
<1>n. CASE PopResponse
  <2>1. <<Head(qOut)>> \in Seq(Messages) /\ Len(<<Head(qOut)>>) <= SendBatch
    BY <1>0, <1>m, <1>n DEF PopResponse
  <2> QED BY <1>m, <1>n, <2>1 DEF PopResponse, upstream, clientVars, recvVars, matchVars, mdVars
<1>o. CASE Coalesce
  <2>1. Head(qOut) \in Messages
    BY <1>m, <1>o DEF Coalesce
  <2>2. Append(sbuf, Head(qOut)) \in Seq(Messages) /\ Len(Append(sbuf, Head(qOut))) <= SendBatch
    BY <1>0, <1>o, <2>1, AppendFacts DEF Coalesce
  <2> QED BY <1>m, <1>o, <2>2 DEF Coalesce, upstream, clientVars, recvVars, matchVars, mdVars
<1>p. CASE BatchReady \/ KilledBySigPipe \/ NoResponse
  BY <1>a, <1>p DEF BatchReady, KilledBySigPipe, NoResponse,
        upstream, clientVars, recvVars, matchVars, mdVars
<1>q. CASE Transmit
  <2>1. sbuf # <<>>
    BY <1>q DEF Transmit, LocalInv
  <2>2. Head(sbuf) \in Messages /\ Tail(sbuf) \in Seq(Messages) /\ Len(Tail(sbuf)) <= SendBatch
    BY <1>0, <2>1, TailFacts
  <2>3. Append(wire, Head(sbuf)) \in Seq(Messages)
    BY <2>2, AppendFacts
  <2>4. wire' \in {wire, Append(wire, Head(sbuf))} /\ sbuf' = Tail(sbuf)
    BY <1>q DEF Transmit
  <2>5. UNCHANGED <<toServer, rbuf, qIn, work, made, qOut, qMd, feed>>
    BY <1>q DEF Transmit, upstream, clientVars, recvVars, matchVars, mdVars
  <2>6. wire' \in Seq(Messages) /\ sbuf' \in Seq(Messages) /\ Len(sbuf') <= SendBatch
    BY <2>2, <2>3, <2>4, Zenon
  <2> QED BY <2>5, <2>6
<1>r. CASE TransmitFails
  <2>1. <<>> \in Seq(Messages) /\ Len(<<>>) <= SendBatch
    BY <1>0, EmptySeq
  <2> QED BY <1>r, <2>1 DEF TransmitFails, upstream, clientVars, recvVars, matchVars, mdVars
<1>s. CASE Drain \/ RecheckResponses
  <2>1. qOut' = qOut \/ (qOut # <<>> /\ qOut' = Tail(qOut))
    BY <1>s DEF Drain, RecheckResponses
  <2>2. qOut' \in Seq(Messages) /\ Len(qOut') <= QueueCapacity
    BY <1>m, <2>1
  <2> QED BY <1>s, <2>2 DEF Drain, RecheckResponses, upstream, clientVars, recvVars, matchVars, mdVars
<1>t. qMd # <<>> => /\ Head(qMd) \in Messages /\ Tail(qMd) \in Seq(Messages)
                    /\ Len(Tail(qMd)) <= QueueCapacity
  BY <1>0, TailFacts
<1>u. CASE Publish
  <2>1. Append(feed, Head(qMd)) \in Seq(Messages)
    BY <1>t, <1>u, AppendFacts DEF Publish
  <2> QED BY <1>t, <1>u, <2>1 DEF Publish, upstream, clientVars, recvVars, matchVars, sendVars
<1>v. CASE NoMarketData \/ UNCHANGED vars
  BY <1>a, <1>v DEF NoMarketData, vars, upstream, clientVars, recvVars, matchVars, sendVars,
        downstream, mdVars
<1>w. CASE RecheckMarketData
  <2>1. qMd' = qMd \/ (qMd # <<>> /\ qMd' = Tail(qMd))
    BY <1>w DEF RecheckMarketData
  <2>2. qMd' \in Seq(Messages) /\ Len(qMd') <= QueueCapacity
    BY <1>t, <2>1
  <2> QED BY <1>w, <2>2 DEF RecheckMarketData, upstream, clientVars, recvVars, matchVars, sendVars
<1> QED BY <1>b, <1>c, <1>d, <1>e, <1>f, <1>g, <1>h, <1>i, <1>j, <1>k, <1>l, <1>n, <1>o, <1>p,
           <1>q, <1>r, <1>s, <1>u, <1>v, <1>w, Steps

\* The counters and the lost messages.
LEMMA NextCountTypes ==
  ASSUME SeqTypes, CountTypes, StreamInv, LocalInv, [Next]_vars
  PROVE  CountTypes'
<1> USE DEF CountTypes
<1>0. MaxRequests \in Nat /\ Len(wire) \in Nat
  BY Sizes, LenProperties DEF SeqTypes
<1>a. CASE UNCHANGED <<sent, requests, read, wire, lost>>
  BY <1>a
<1>b. CASE SendRequest \/ ReadResponse
  BY <1>0, <1>b DEF SendRequest, ReadResponse, recvVars, downstream, sendVars
<1>c. CASE Connect \/ FinishSending \/ Disconnect
  BY <1>a, <1>c DEF Connect, FinishSending, Disconnect, recvVars, downstream, sendVars
<1>d. CASE StopFlag \/ InterruptListener \/ InterruptConn \/ Join
  BY <1>a, <1>d DEF StopFlag, InterruptListener, InterruptConn, Join,
        clientVars, recvVars, downstream, sendVars
<1>e. CASE Accept \/ AssignConn \/ CheckStopping \/ ReceiveEnds \/ BatchDone \/ Desync
  BY <1>a, <1>e DEF Accept, AssignConn, CheckStopping, ReceiveEnds, BatchDone, Desync,
        clientVars, downstream, sendVars
<1>f. CASE PushRequest
  <2>1. requests < sent
    BY <1>f, FrontDecoded DEF PushRequest
  <2>2. requests' = requests + 1 /\ UNCHANGED <<sent, read, wire, lost>>
    BY <1>f DEF PushRequest, clientVars, downstream, sendVars
  <2> QED BY <1>0, <2>1, <2>2
<1>g. CASE \E n \in 1..(Pieces * MaxRequests) : Receive(n)
  BY <1>a, <1>g DEF Receive, downstream, sendVars
<1>h. CASE Handle \/ Push \/ NoRequest
  BY <1>a, <1>h DEF Handle, Push, NoRequest, upstream, clientVars, recvVars, sendVars
<1>i. CASE RecheckRequests
  <2>1. qIn # <<>> => Message("match", Head(qIn), 0) \in Messages
    <3>1. qIn # <<>> => Head(qIn) \in 1..MaxRequests
      BY TailFacts DEF SeqTypes
    <3> QED BY <3>1, Sizes DEF Message, Messages
  <2>2. lost' = lost \/ (qIn # <<>> /\ lost' = lost \cup {Message("match", Head(qIn), 0)})
    BY <1>i DEF RecheckRequests
  <2>3. lost' \subseteq Messages
    BY <2>1, <2>2
  <2>4. UNCHANGED <<sent, requests, read, wire>>
    BY <1>i DEF RecheckRequests, upstream, clientVars, recvVars, sendVars
  <2> QED BY <2>3, <2>4
<1>j. CASE \/ PopResponse \/ Coalesce \/ BatchReady \/ TransmitFails
           \/ KilledBySigPipe \/ Drain \/ NoResponse
  BY <1>a, <1>j DEF PopResponse, Coalesce, BatchReady, TransmitFails, KilledBySigPipe, Drain,
        NoResponse, upstream, clientVars, recvVars
<1>k. CASE Transmit
  <2>1. sbuf # <<>>
    BY <1>k DEF Transmit, LocalInv
  <2>2. Len(wire') \in Nat /\ Len(wire) <= Len(wire')
    <3>1. Head(sbuf) \in Messages
      BY <2>1, TailFacts DEF SeqTypes
    <3>2. Len(Append(wire, Head(sbuf))) = Len(wire) + 1
      BY <3>1, AppendFacts DEF SeqTypes
    <3> QED BY <1>0, <1>k, <3>2 DEF Transmit
  <2>3. UNCHANGED <<sent, requests, read, lost>>
    BY <1>k DEF Transmit, upstream, clientVars, recvVars
  <2> QED BY <1>0, <2>2, <2>3
<1>l. CASE RecheckResponses
  <2>1. lost' = lost \/ (qOut # <<>> /\ lost' = lost \cup {Head(qOut)})
    BY <1>l DEF RecheckResponses
  <2>2. lost' \subseteq Messages
    <3>1. qOut # <<>> => Head(qOut) \in Messages
      BY TailFacts DEF SeqTypes
    <3> QED BY <2>1, <3>1
  <2>3. UNCHANGED <<sent, requests, read, wire>>
    BY <1>l DEF RecheckResponses, upstream, clientVars, recvVars
  <2> QED BY <2>2, <2>3
<1>m. CASE Publish \/ NoMarketData \/ UNCHANGED vars
  BY <1>a, <1>m DEF Publish, NoMarketData, vars, upstream, clientVars, recvVars,
        sendVars, downstream
<1>n. CASE RecheckMarketData
  <2>1. lost' = lost \/ (qMd # <<>> /\ lost' = lost \cup {Head(qMd)})
    BY <1>n DEF RecheckMarketData
  <2>2. lost' \subseteq Messages
    <3>1. qMd # <<>> => Head(qMd) \in Messages
      BY TailFacts DEF SeqTypes
    <3> QED BY <2>1, <3>1
  <2>3. UNCHANGED <<sent, requests, read, wire>>
    BY <1>n DEF RecheckMarketData, upstream, clientVars, recvVars, sendVars
  <2> QED BY <2>2, <2>3
<1> QED BY <1>b, <1>c, <1>d, <1>e, <1>f, <1>g, <1>h, <1>i, <1>j, <1>k, <1>l, <1>m, <1>n, Steps

\* The program counters and flags.
LEMMA NextControlTypes ==
  ASSUME ControlTypes, [Next]_vars
  PROVE  ControlTypes'
<1> USE DEF ControlTypes
<1>1. CASE UNCHANGED <<client, stopVars, conn, recvPc, matchPc, sendPc, mdPc, synced>>
  BY <1>1 DEF stopVars
<1>a. CASE Connect \/ SendRequest \/ ReadResponse \/ FinishSending \/ Disconnect
  <2>1. client' \in {client, "open", "finished", "closed"}
    BY <1>a DEF Connect, SendRequest, ReadResponse, FinishSending, Disconnect
  <2>2. UNCHANGED <<stopVars, conn, recvPc, matchPc, sendPc, mdPc, synced>>
    BY <1>a DEF Connect, SendRequest, ReadResponse, FinishSending, Disconnect,
          recvVars, downstream, matchVars, sendVars, mdVars
  <2> QED BY <2>1, <2>2 DEF stopVars
<1>b. CASE StopFlag \/ InterruptListener \/ InterruptConn \/ Join
  BY <1>b DEF StopFlag, InterruptListener, InterruptConn, Join,
        clientVars, recvVars, downstream, matchVars, sendVars, mdVars
<1>c. CASE Accept \/ AssignConn \/ CheckStopping \/ ReceiveEnds \/ BatchDone \/ PushRequest \/ Desync
  <2>1. /\ conn' \in {conn, "up"}
        /\ recvPc' \in {recvPc, "assign", "exited", "loop", "recv"}
    BY <1>c DEF Accept, AssignConn, CheckStopping, ReceiveEnds, BatchDone, PushRequest, Desync
  <2>2. UNCHANGED <<client, stopVars, matchPc, sendPc, mdPc, synced>>
    BY <1>c DEF Accept, AssignConn, CheckStopping, ReceiveEnds, BatchDone, PushRequest, Desync,
          clientVars, downstream, matchVars, sendVars, mdVars
  <2> QED BY <2>1, <2>2 DEF stopVars
<1>d. CASE \E n \in 1..(Pieces * MaxRequests) : Receive(n)
  BY <1>d DEF Receive, stopVars, downstream, matchVars, sendVars, mdVars
<1>e. CASE Handle \/ Push \/ NoRequest \/ RecheckRequests
  <2>1. /\ matchPc' \in {"poll", "recheck", "push", "exited"}
        /\ synced' \in {synced, synced \cup {"match"}}
    BY <1>e DEF Handle, Push, NoRequest, RecheckRequests
  <2>2. UNCHANGED <<client, stopVars, conn, recvPc, sendPc, mdPc>>
    BY <1>e DEF Handle, Push, NoRequest, RecheckRequests,
          upstream, clientVars, recvVars, sendVars, mdVars
  <2> QED BY <2>1, <2>2 DEF stopVars
<1>f. CASE PopResponse \/ Coalesce \/ BatchReady \/ Drain
  <2>1. sendPc' \in {"poll", "fill", "send", "drain"}
    BY <1>f DEF PopResponse, Coalesce, BatchReady, Drain
  <2>2. UNCHANGED <<client, stopVars, conn, recvPc, matchPc, mdPc, synced>>
    BY <1>f DEF PopResponse, Coalesce, BatchReady, Drain,
          upstream, clientVars, recvVars, matchVars, mdVars
  <2> QED BY <2>1, <2>2 DEF stopVars
<1>i. CASE Transmit \/ TransmitFails
  <2>1. sendPc' \in {"poll", "send", "drain"}
    BY <1>i DEF Transmit, TransmitFails
  <2>2. UNCHANGED <<client, stopVars, conn, recvPc, matchPc, mdPc, synced>>
    BY <1>i DEF Transmit, TransmitFails, upstream, clientVars, recvVars, matchVars, mdVars
  <2> QED BY <2>1, <2>2 DEF stopVars
<1>j. CASE KilledBySigPipe
  BY <1>j DEF KilledBySigPipe, upstream, clientVars, stopVars, recvVars, matchVars, mdVars
<1>k. CASE NoResponse \/ RecheckResponses
  <2>1. sendPc' \in {"poll", "recheck", "exited"} /\ synced' \in {synced, synced \cup {"send"}}
    BY <1>k DEF NoResponse, RecheckResponses
  <2>2. UNCHANGED <<client, stopVars, conn, recvPc, matchPc, mdPc>>
    BY <1>k DEF NoResponse, RecheckResponses, upstream, clientVars, recvVars, matchVars, mdVars
  <2> QED BY <2>1, <2>2 DEF stopVars
<1>g. CASE Publish \/ UNCHANGED vars
  BY <1>1, <1>g DEF Publish, vars, upstream, clientVars, recvVars, matchVars, sendVars,
        downstream, mdVars
<1>h. CASE NoMarketData \/ RecheckMarketData
  <2>1. mdPc' \in {"poll", "recheck", "exited"} /\ synced' \in {synced, synced \cup {"md"}}
    BY <1>h DEF NoMarketData, RecheckMarketData
  <2>2. UNCHANGED <<client, stopVars, conn, recvPc, matchPc, sendPc>>
    BY <1>h DEF NoMarketData, RecheckMarketData, upstream, clientVars, recvVars, matchVars, sendVars
  <2> QED BY <2>1, <2>2 DEF stopVars
<1> QED BY <1>a, <1>b, <1>c, <1>d, <1>e, <1>f, <1>g, <1>h, <1>i, <1>j, <1>k, Steps

-----------------------------------------------------------------------------
(* What became of the requests and the messages.                           *)

\* A connection that is broken stays so.
LEMMA BrokenStays ==
  ASSUME LocalInv, Broken, [Next]_vars
  PROVE  Broken'
<1> USE DEF Broken
<1>a. CASE UNCHANGED <<client, conn>>
  BY <1>a
<1>b. CASE Connect \/ SendRequest \/ ReadResponse \/ FinishSending \/ Disconnect
  BY <1>b DEF Connect, SendRequest, ReadResponse, FinishSending, Disconnect
<1>c. CASE StopFlag \/ InterruptListener \/ InterruptConn \/ Join
  BY <1>c DEF StopFlag, InterruptListener, InterruptConn, Join, clientVars
<1>d. CASE AssignConn
  BY <1>d DEF AssignConn, clientVars, LocalInv
<1>e. CASE Accept \/ CheckStopping \/ ReceiveEnds \/ BatchDone \/ PushRequest \/ Desync
  BY <1>a, <1>e DEF Accept, CheckStopping, ReceiveEnds, BatchDone, PushRequest, Desync, clientVars
<1>f. CASE \E n \in 1..(Pieces * MaxRequests) : Receive(n)
  BY <1>a, <1>f DEF Receive
<1>g. CASE Handle \/ Push \/ NoRequest \/ RecheckRequests
  BY <1>a, <1>g DEF Handle, Push, NoRequest, RecheckRequests, upstream, clientVars
<1>h. CASE \/ PopResponse \/ Coalesce \/ BatchReady \/ Transmit \/ TransmitFails
           \/ KilledBySigPipe \/ Drain \/ NoResponse \/ RecheckResponses
  BY <1>a, <1>h DEF PopResponse, Coalesce, BatchReady, Transmit, TransmitFails, KilledBySigPipe,
        Drain, NoResponse, RecheckResponses, upstream, clientVars
<1>i. CASE Publish \/ NoMarketData \/ RecheckMarketData \/ UNCHANGED vars
  BY <1>a, <1>i DEF Publish, NoMarketData, RecheckMarketData, vars, upstream, clientVars
<1> QED BY <1>b, <1>c, <1>d, <1>e, <1>f, <1>g, <1>h, <1>i, Steps

\* The requests for which something was produced or that were thrown away.
Accounted == {m.req : m \in ToSet(made) \cup {x \in lost : x.to = "match"}}

\* The queue of requests, and the requests popped from it.
LEMMA NextRequest ==
  ASSUME SeqTypes, CountTypes, StreamInv, RequestInv, DestInv, [Next]_vars
  PROVE  RequestInv'
<1>1. /\ qIn \in Seq(1..MaxRequests) /\ Len(qIn) \in Nat /\ requests \in Nat
      /\ Len(qIn) <= requests /\ Taken \in Nat
      /\ \A k \in 1..Len(qIn) : qIn[k] = Taken + k
      /\ 1..Taken = Accounted
  BY LenProperties DEF SeqTypes, CountTypes, RequestInv, Taken, Accounted
<1>a. CASE /\ UNCHANGED <<requests, qIn, made>>
           /\ {x \in lost' : x.to = "match"} = {x \in lost : x.to = "match"}
  BY <1>a DEF RequestInv, Taken
<1>2. ASSUME qIn # <<>>, qIn' = Tail(qIn), UNCHANGED requests,
             Accounted' = Accounted \cup {Head(qIn)}
      PROVE  RequestInv'
  <2>1. /\ Head(qIn) = qIn[1] /\ Len(qIn) > 0 /\ Len(qIn') = Len(qIn) - 1
        /\ \A k \in 1..(Len(qIn) - 1) : qIn'[k] = qIn[k + 1]
    BY <1>1, <1>2, TailFacts
  <2>2. Taken' = Taken + 1 /\ Head(qIn) = Taken + 1
    BY <1>1, <1>2, <2>1 DEF Taken
  <2>3. \A k \in 1..Len(qIn') : qIn'[k] = Taken' + k
    BY <1>1, <2>1, <2>2
  <2>4. 1..Taken' = Accounted'
    BY <1>1, <1>2, <2>2
  <2>5. Len(qIn') <= requests'
    BY <1>1, <1>2, <2>1
  <2> QED BY <2>3, <2>4, <2>5 DEF RequestInv, Accounted
<1>b. CASE PushRequest
  <2>1. Decoded = requests + 1
    BY <1>b, FrontDecoded DEF PushRequest
  <2>2. qIn' = Append(qIn, requests + 1) /\ requests' = requests + 1 /\ UNCHANGED <<made, lost>>
    BY <1>b, <2>1 DEF PushRequest, downstream, matchVars
  <2>3. sent \in 0..MaxRequests /\ requests < sent /\ MaxRequests \in Nat
    BY <1>b, FrontDecoded, Sizes DEF PushRequest, CountTypes
  <2>4. requests + 1 \in 1..MaxRequests
    BY <1>1, <2>3
  <2>5. /\ Len(qIn') = Len(qIn) + 1 /\ qIn'[Len(qIn) + 1] = requests + 1
        /\ \A k \in 1..Len(qIn) : qIn'[k] = qIn[k]
    BY <1>1, <2>2, <2>4, AppendFacts
  <2>6. Taken' = Taken /\ Taken + (Len(qIn) + 1) = requests + 1
    BY <1>1, <2>2, <2>5 DEF Taken
  <2>7. ASSUME NEW k \in 1..(Len(qIn) + 1) PROVE qIn'[k] = Taken + k
    <3>1. CASE k = Len(qIn) + 1
      BY <2>5, <2>6, <3>1
    <3>2. CASE k # Len(qIn) + 1
      BY <1>1, <2>5, <3>2
    <3> QED BY <3>1, <3>2
  <2>8. Accounted' = Accounted
    BY <2>2 DEF Accounted
  <2> QED BY <1>1, <2>2, <2>5, <2>6, <2>7, <2>8 DEF RequestInv, Accounted
<1>c. CASE Handle
  <2>1. qIn # <<>> /\ qIn' = Tail(qIn) /\ UNCHANGED <<requests, lost>>
    BY <1>c DEF Handle, upstream, recvVars
  <2>2. Head(qIn) \in 1..MaxRequests
    BY <1>1, <2>1, TailFacts
  <2>3. PICK outs \in Outcomes(Head(qIn)) : made' = made \o outs
    BY <1>c DEF Handle
  <2>4. /\ outs \in Seq(Messages) /\ outs # <<>>
        /\ \A m \in ToSet(outs) : m.req = Head(qIn) /\ m.to \in {"client", "feed"}
    BY <2>2, OutputsFacts
  <2>5. ToSet(made') = ToSet(made) \cup ToSet(outs)
    BY <2>3, <2>4, ConcatFacts DEF SeqTypes
  <2>6. Head(outs) \in ToSet(outs)
    BY <2>4, ToSetType
  <2>7. Accounted' = Accounted \cup {Head(qIn)}
    BY <2>1, <2>4, <2>5, <2>6 DEF Accounted
  <2> QED BY <1>2, <2>1, <2>7
<1>d. CASE RecheckRequests
  <2>1. CASE UNCHANGED <<qIn, lost>>
    BY <1>a, <1>d, <2>1 DEF RecheckRequests, upstream, recvVars
  <2>2. CASE qIn # <<>> /\ qIn' = Tail(qIn) /\ lost' = lost \cup {Message("match", Head(qIn), 0)}
    <3>1. /\ Message("match", Head(qIn), 0).to = "match"
          /\ Message("match", Head(qIn), 0).req = Head(qIn)
      BY DEF Message
    <3>2. UNCHANGED <<requests, made>>
      BY <1>d DEF RecheckRequests, upstream, recvVars
    <3>3. Accounted' = Accounted \cup {Head(qIn)}
      BY <2>2, <3>1, <3>2 DEF Accounted
    <3> QED BY <1>2, <2>2, <3>2, <3>3
  <2> QED BY <1>d, <2>1, <2>2 DEF RecheckRequests
<1>e. CASE RecheckResponses \/ RecheckMarketData
  <2>1. /\ qOut # <<>> => Head(qOut).to = "client"
        /\ qMd # <<>> => Head(qMd).to = "feed"
    BY ToSetType DEF DestInv, SeqTypes
  <2>2. \/ lost' = lost
        \/ qOut # <<>> /\ lost' = lost \cup {Head(qOut)}
        \/ qMd # <<>> /\ lost' = lost \cup {Head(qMd)}
    BY <1>e DEF RecheckResponses, RecheckMarketData
  <2>3. {x \in lost' : x.to = "match"} = {x \in lost : x.to = "match"}
    BY <2>1, <2>2
  <2>4. UNCHANGED <<requests, qIn, made>>
    BY <1>e DEF RecheckResponses, RecheckMarketData, upstream, recvVars, matchVars
  <2> QED BY <1>a, <2>3, <2>4
<1>f. CASE Connect \/ SendRequest \/ ReadResponse \/ FinishSending \/ Disconnect
  BY <1>a, <1>f DEF Connect, SendRequest, ReadResponse, FinishSending, Disconnect,
        recvVars, downstream, matchVars
<1>g. CASE StopFlag \/ InterruptListener \/ InterruptConn \/ Join
  BY <1>a, <1>g DEF StopFlag, InterruptListener, InterruptConn, Join,
        recvVars, downstream, matchVars
<1>h. CASE Accept \/ AssignConn \/ CheckStopping \/ ReceiveEnds \/ BatchDone \/ Desync
  BY <1>a, <1>h DEF Accept, AssignConn, CheckStopping, ReceiveEnds, BatchDone, Desync,
        downstream, matchVars
<1>i. CASE \E n \in 1..(Pieces * MaxRequests) : Receive(n)
  BY <1>a, <1>i DEF Receive, downstream, matchVars
<1>j. CASE Push \/ NoRequest
  BY <1>a, <1>j DEF Push, NoRequest, upstream, recvVars
<1>k. CASE \/ PopResponse \/ Coalesce \/ BatchReady \/ Transmit \/ TransmitFails
           \/ KilledBySigPipe \/ Drain \/ NoResponse
  BY <1>a, <1>k DEF PopResponse, Coalesce, BatchReady, Transmit, TransmitFails, KilledBySigPipe,
        Drain, NoResponse, upstream, recvVars, matchVars
<1>l. CASE Publish \/ NoMarketData \/ UNCHANGED vars
  BY <1>a, <1>l DEF Publish, NoMarketData, vars, upstream, downstream, recvVars, matchVars
<1> QED BY <1>b, <1>c, <1>d, <1>e, <1>f, <1>g, <1>h, <1>i, <1>j, <1>k, <1>l, Steps

\* Messages only move towards where they are addressed.
LEMMA NextDest ==
  ASSUME SeqTypes, LocalInv, DestInv, [Next]_vars
  PROVE  DestInv'
<1> USE DEF DestInv
<1>0. /\ work \in Seq(Messages) /\ made \in Seq(Messages) /\ qOut \in Seq(Messages)
      /\ qMd \in Seq(Messages) /\ sbuf \in Seq(Messages) /\ wire \in Seq(Messages)
      /\ feed \in Seq(Messages) /\ qIn \in Seq(1..MaxRequests)
  BY DEF SeqTypes
<1>1. ASSUME NEW q \in Seq(Messages), q # <<>>
      PROVE  Head(q) \in Messages /\ ToSet(q) = {Head(q)} \cup ToSet(Tail(q))
  BY <1>1, TailFacts
<1>a. CASE UNCHANGED <<wire, sbuf, qOut, feed, qMd, work, made>>
  BY <1>a
<1>b. CASE Handle
  <2>1. Head(qIn) \in 1..MaxRequests
    BY <1>0, <1>b, TailFacts DEF Handle
  <2>2. PICK outs \in Outcomes(Head(qIn)) : work' = outs /\ made' = made \o outs
    BY <1>b DEF Handle
  <2>3. outs \in Seq(Messages) /\ \A m \in ToSet(outs) : m.to \in {"client", "feed"}
    BY <2>1, OutputsFacts
  <2>4. ToSet(made') = ToSet(made) \cup ToSet(outs)
    BY <1>0, <2>2, <2>3, ConcatFacts
  <2>5. UNCHANGED <<wire, sbuf, qOut, feed, qMd>>
    BY <1>b DEF Handle, sendVars, mdVars
  <2> QED BY <2>2, <2>3, <2>4, <2>5
<1>c. CASE Push
  <2>1. work # <<>>
    BY <1>c DEF Push, LocalInv
  <2>2. PICK m : m = Head(work)
    OBVIOUS
  <2>3. m \in Messages /\ ToSet(work) = {m} \cup ToSet(work')
    BY <1>0, <1>1, <1>c, <2>1, <2>2 DEF Push
  <2>4. \A q \in Seq(Messages) : ToSet(Append(q, m)) = ToSet(q) \cup {m}
    BY <2>3, AppendFacts
  <2>5. UNCHANGED <<wire, sbuf, feed, made>>
    BY <1>c DEF Push, sendVars, mdVars
  <2>6. \/ m.to = "client" /\ qOut' = Append(qOut, m) /\ UNCHANGED qMd
        \/ m.to = "feed" /\ UNCHANGED qOut /\ qMd' \in {qMd, Append(qMd, m)}
    BY <1>c, <2>2 DEF Push
  <2>7. \/ m.to = "client" /\ ToSet(qOut') = ToSet(qOut) \cup {m} /\ UNCHANGED qMd
        \/ m.to = "feed" /\ UNCHANGED qOut /\ ToSet(qMd') \subseteq ToSet(qMd) \cup {m}
    BY <1>0, <2>4, <2>6
  <2> QED BY <2>3, <2>5, <2>7
<1>d. CASE PopResponse
  <2>1. ToSet(qOut) = {Head(qOut)} \cup ToSet(qOut') /\ Head(qOut) \in Messages
    BY <1>0, <1>1, <1>d DEF PopResponse
  <2>2. ToSet(sbuf') = {Head(qOut)}
    BY <1>d DEF PopResponse, ToSet
  <2>3. UNCHANGED <<wire, feed, qMd, work, made>>
    BY <1>d DEF PopResponse, matchVars, mdVars
  <2> QED BY <2>1, <2>2, <2>3
<1>e. CASE Coalesce
  <2>1. ToSet(qOut) = {Head(qOut)} \cup ToSet(qOut') /\ Head(qOut) \in Messages
    BY <1>0, <1>1, <1>e DEF Coalesce
  <2>2. ToSet(sbuf') = ToSet(sbuf) \cup {Head(qOut)}
    BY <1>0, <1>e, <2>1, AppendFacts DEF Coalesce
  <2>3. UNCHANGED <<wire, feed, qMd, work, made>>
    BY <1>e DEF Coalesce, matchVars, mdVars
  <2> QED BY <2>1, <2>2, <2>3
<1>f. CASE Transmit
  <2>1. sbuf # <<>>
    BY <1>f DEF Transmit, LocalInv
  <2>2. ToSet(sbuf) = {Head(sbuf)} \cup ToSet(sbuf') /\ Head(sbuf) \in Messages
    BY <1>0, <1>1, <1>f, <2>1 DEF Transmit
  <2>3. ToSet(Append(wire, Head(sbuf))) = ToSet(wire) \cup {Head(sbuf)}
    BY <1>0, <2>2, AppendFacts
  <2>4. wire' \in {wire, Append(wire, Head(sbuf))}
    BY <1>f DEF Transmit
  <2>5. ToSet(wire') \subseteq ToSet(wire) \cup {Head(sbuf)}
    BY <2>3, <2>4
  <2>6. UNCHANGED <<qOut, feed, qMd, work, made>>
    BY <1>f DEF Transmit, matchVars, mdVars
  <2> QED BY <2>2, <2>5, <2>6
<1>g. CASE TransmitFails
  <2>1. ToSet(sbuf') = {}
    BY <1>0, <1>g, ToSetType DEF TransmitFails
  <2>2. UNCHANGED <<wire, qOut, feed, qMd, work, made>>
    BY <1>g DEF TransmitFails, matchVars, mdVars
  <2> QED BY <2>1, <2>2
<1>h. CASE Drain \/ RecheckResponses
  <2>1. qOut' = qOut \/ (qOut # <<>> /\ qOut' = Tail(qOut))
    BY <1>h DEF Drain, RecheckResponses
  <2>2. ToSet(qOut') \subseteq ToSet(qOut)
    BY <1>0, <1>1, <2>1
  <2>3. UNCHANGED <<wire, sbuf, feed, qMd, work, made>>
    BY <1>h DEF Drain, RecheckResponses, matchVars, mdVars
  <2> QED BY <2>2, <2>3
<1>i. CASE Publish
  <2>1. ToSet(qMd) = {Head(qMd)} \cup ToSet(qMd') /\ Head(qMd) \in Messages
    BY <1>0, <1>1, <1>i DEF Publish
  <2>2. ToSet(feed') = ToSet(feed) \cup {Head(qMd)}
    BY <1>0, <1>i, <2>1, AppendFacts DEF Publish
  <2>3. UNCHANGED <<wire, sbuf, qOut, work, made>>
    BY <1>i DEF Publish, matchVars, sendVars
  <2> QED BY <2>1, <2>2, <2>3
<1>j. CASE RecheckMarketData
  <2>1. qMd' = qMd \/ (qMd # <<>> /\ qMd' = Tail(qMd))
    BY <1>j DEF RecheckMarketData
  <2>2. ToSet(qMd') \subseteq ToSet(qMd)
    BY <1>0, <1>1, <2>1
  <2>3. UNCHANGED <<wire, sbuf, qOut, feed, work, made>>
    BY <1>j DEF RecheckMarketData, matchVars, sendVars
  <2> QED BY <2>2, <2>3
<1>k. CASE Connect \/ SendRequest \/ ReadResponse \/ FinishSending \/ Disconnect
  BY <1>a, <1>k DEF Connect, SendRequest, ReadResponse, FinishSending, Disconnect,
        downstream, matchVars, sendVars, mdVars
<1>l. CASE StopFlag \/ InterruptListener \/ InterruptConn \/ Join
  BY <1>a, <1>l DEF StopFlag, InterruptListener, InterruptConn, Join,
        downstream, matchVars, sendVars, mdVars
<1>m. CASE Accept \/ AssignConn \/ CheckStopping \/ ReceiveEnds \/ BatchDone \/ PushRequest \/ Desync
  BY <1>a, <1>m DEF Accept, AssignConn, CheckStopping, ReceiveEnds, BatchDone, PushRequest, Desync,
        downstream, matchVars, sendVars, mdVars
<1>n. CASE \E n \in 1..(Pieces * MaxRequests) : Receive(n)
  BY <1>a, <1>n DEF Receive, downstream, matchVars, sendVars, mdVars
<1>o. CASE NoRequest \/ RecheckRequests
  BY <1>a, <1>o DEF NoRequest, RecheckRequests, sendVars, mdVars
<1>p. CASE BatchReady \/ KilledBySigPipe \/ NoResponse
  BY <1>a, <1>p DEF BatchReady, KilledBySigPipe, NoResponse, matchVars, mdVars
<1>q. CASE NoMarketData \/ UNCHANGED vars
  BY <1>a, <1>q DEF NoMarketData, vars, downstream, matchVars, sendVars, mdVars
<1> QED BY <1>b, <1>c, <1>d, <1>e, <1>f, <1>g, <1>h, <1>i, <1>j, <1>k, <1>l, <1>m, <1>n, <1>o,
           <1>p, <1>q, Steps

\* What was produced for a destination that is there is on its way or thrown away.
LEMMA NextFlow ==
  ASSUME SeqTypes, LocalInv, DestInv, FlowInv, [Next]_vars
  PROVE  FlowInv'
<1>0. /\ work \in Seq(Messages) /\ made \in Seq(Messages) /\ qOut \in Seq(Messages)
      /\ qMd \in Seq(Messages) /\ sbuf \in Seq(Messages) /\ wire \in Seq(Messages)
      /\ feed \in Seq(Messages) /\ qIn \in Seq(1..MaxRequests)
  BY DEF SeqTypes
<1>1. ASSUME NEW q \in Seq(Messages), q # <<>>
      PROVE  Head(q) \in Messages /\ ToSet(q) = {Head(q)} \cup ToSet(Tail(q))
  BY <1>1, TailFacts
<1>2. ~Broken' => ~Broken
  BY BrokenStays
<1> DEFINE ToClient == {m \in ToSet(made) : m.to = "client"}
           ToFeed == {m \in ToSet(made) : m.to = "feed"}
           OnWay == ToSet(wire) \cup ToSet(sbuf) \cup ToSet(qOut) \cup ToSet(work) \cup lost
           OnFeed == ToSet(feed) \cup ToSet(qMd) \cup ToSet(work) \cup lost
<1>3. /\ ~Broken => ToClient \subseteq OnWay
      /\ MdEnabled => ToFeed \subseteq OnFeed
  BY DEF FlowInv, To
<1>4. SUFFICES /\ ~Broken' => ToClient' \subseteq OnWay'
               /\ MdEnabled => ToFeed' \subseteq OnFeed'
  BY DEF FlowInv, To
<1>a. CASE UNCHANGED <<wire, sbuf, qOut, feed, qMd, work, made>> /\ lost \subseteq lost'
  BY <1>2, <1>3, <1>a
<1>b. CASE Handle
  <2>1. Head(qIn) \in 1..MaxRequests
    BY <1>0, <1>b, TailFacts DEF Handle
  <2>2. PICK outs \in Outcomes(Head(qIn)) : work' = outs /\ made' = made \o outs
    BY <1>b DEF Handle
  <2>3. outs \in Seq(Messages)
    BY <2>1, OutputsFacts
  <2>4. ToSet(made') = ToSet(made) \cup ToSet(outs)
    BY <1>0, <2>2, <2>3, ConcatFacts
  <2>5. UNCHANGED <<wire, sbuf, qOut, feed, qMd, lost>>
    BY <1>b DEF Handle, sendVars, mdVars
  <2>6. ToSet(work) = {}
    BY <1>0, <1>b, ToSetType DEF Handle, LocalInv
  <2> QED BY <1>2, <1>3, <2>2, <2>4, <2>5, <2>6
<1>c. CASE Push
  <2>1. work # <<>>
    BY <1>c DEF Push, LocalInv
  <2>2. PICK m : m = Head(work)
    OBVIOUS
  <2>3. m \in Messages /\ ToSet(work) = {m} \cup ToSet(work')
    BY <1>0, <1>1, <1>c, <2>1, <2>2 DEF Push
  <2>4. \A q \in Seq(Messages) : ToSet(Append(q, m)) = ToSet(q) \cup {m}
    BY <2>3, AppendFacts
  <2>5. UNCHANGED <<wire, sbuf, feed, made, lost>>
    BY <1>c DEF Push, sendVars, mdVars
  <2>6. \/ m.to = "client" /\ qOut' = Append(qOut, m) /\ UNCHANGED qMd
        \/ m.to = "feed" /\ UNCHANGED qOut /\ (MdEnabled => qMd' = Append(qMd, m))
    BY <1>c, <2>2 DEF Push
  <2>7. \/ m.to = "client" /\ ToSet(qOut') = ToSet(qOut) \cup {m} /\ UNCHANGED qMd
        \/ m.to = "feed" /\ UNCHANGED qOut /\ (MdEnabled => ToSet(qMd') = ToSet(qMd) \cup {m})
    BY <1>0, <2>4, <2>6
  <2> QED BY <1>2, <1>3, <2>3, <2>5, <2>7
<1>d. CASE PopResponse
  <2>1. ToSet(qOut) = {Head(qOut)} \cup ToSet(qOut') /\ Head(qOut) \in Messages
    BY <1>0, <1>1, <1>d DEF PopResponse
  <2>2. ToSet(sbuf') = {Head(qOut)} /\ ToSet(sbuf) = {}
    BY <1>0, <1>d, ToSetType DEF PopResponse, ToSet, LocalInv
  <2>3. UNCHANGED <<wire, feed, qMd, work, made, lost>>
    BY <1>d DEF PopResponse, matchVars, mdVars
  <2> QED BY <1>2, <1>3, <2>1, <2>2, <2>3
<1>e. CASE Coalesce
  <2>1. ToSet(qOut) = {Head(qOut)} \cup ToSet(qOut') /\ Head(qOut) \in Messages
    BY <1>0, <1>1, <1>e DEF Coalesce
  <2>2. ToSet(sbuf') = ToSet(sbuf) \cup {Head(qOut)}
    BY <1>0, <1>e, <2>1, AppendFacts DEF Coalesce
  <2>3. UNCHANGED <<wire, feed, qMd, work, made, lost>>
    BY <1>e DEF Coalesce, matchVars, mdVars
  <2> QED BY <1>2, <1>3, <2>1, <2>2, <2>3
<1>f. CASE Transmit
  <2>1. sbuf # <<>>
    BY <1>f DEF Transmit, LocalInv
  <2>2. ToSet(sbuf) = {Head(sbuf)} \cup ToSet(sbuf') /\ Head(sbuf) \in Messages
    BY <1>0, <1>1, <1>f, <2>1 DEF Transmit
  <2>3. ToSet(Append(wire, Head(sbuf))) = ToSet(wire) \cup {Head(sbuf)}
    BY <1>0, <2>2, AppendFacts
  <2>4. ~Broken => wire' = Append(wire, Head(sbuf))
    BY <1>f DEF Transmit, Broken
  <2>5. ~Broken => ToSet(wire') = ToSet(wire) \cup {Head(sbuf)}
    BY <2>3, <2>4
  <2>6. UNCHANGED <<qOut, feed, qMd, work, made, lost>>
    BY <1>f DEF Transmit, matchVars, mdVars
  <2> QED BY <1>2, <1>3, <2>2, <2>5, <2>6
<1>g. CASE TransmitFails \/ Drain
  <2>1. Broken
    BY <1>g DEF TransmitFails, Drain, LocalInv
  <2>2. UNCHANGED <<feed, qMd, work, made, lost>>
    BY <1>g DEF TransmitFails, Drain, matchVars, mdVars
  <2> QED BY <1>2, <1>3, <2>1, <2>2
<1>h. CASE RecheckResponses
  <2>1. \/ qOut' = qOut /\ lost' = lost
        \/ qOut # <<>> /\ qOut' = Tail(qOut) /\ lost' = lost \cup {Head(qOut)}
    BY <1>h DEF RecheckResponses
  <2>2. ToSet(qOut) \cup lost = ToSet(qOut') \cup lost' /\ lost \subseteq lost'
    BY <1>0, <1>1, <2>1
  <2>3. UNCHANGED <<wire, sbuf, feed, qMd, work, made>>
    BY <1>h DEF RecheckResponses, matchVars, mdVars
  <2> QED BY <1>2, <1>3, <2>2, <2>3
<1>i. CASE Publish
  <2>1. ToSet(qMd) = {Head(qMd)} \cup ToSet(qMd') /\ Head(qMd) \in Messages
    BY <1>0, <1>1, <1>i DEF Publish
  <2>2. ToSet(feed') = ToSet(feed) \cup {Head(qMd)}
    BY <1>0, <1>i, <2>1, AppendFacts DEF Publish
  <2>3. UNCHANGED <<wire, sbuf, qOut, work, made, lost>>
    BY <1>i DEF Publish, matchVars, sendVars
  <2> QED BY <1>2, <1>3, <2>1, <2>2, <2>3
<1>j. CASE RecheckMarketData
  <2>1. \/ qMd' = qMd /\ lost' = lost
        \/ qMd # <<>> /\ qMd' = Tail(qMd) /\ lost' = lost \cup {Head(qMd)}
    BY <1>j DEF RecheckMarketData
  <2>2. ToSet(qMd) \cup lost = ToSet(qMd') \cup lost' /\ lost \subseteq lost'
    BY <1>0, <1>1, <2>1
  <2>3. UNCHANGED <<wire, sbuf, qOut, feed, work, made>>
    BY <1>j DEF RecheckMarketData, matchVars, sendVars
  <2> QED BY <1>2, <1>3, <2>2, <2>3
<1>k. CASE Connect \/ SendRequest \/ ReadResponse \/ FinishSending \/ Disconnect
  BY <1>a, <1>k DEF Connect, SendRequest, ReadResponse, FinishSending, Disconnect,
        downstream, matchVars, sendVars, mdVars
<1>l. CASE StopFlag \/ InterruptListener \/ InterruptConn \/ Join
  BY <1>a, <1>l DEF StopFlag, InterruptListener, InterruptConn, Join,
        downstream, matchVars, sendVars, mdVars
<1>m. CASE Accept \/ AssignConn \/ CheckStopping \/ ReceiveEnds \/ BatchDone \/ PushRequest \/ Desync
  BY <1>a, <1>m DEF Accept, AssignConn, CheckStopping, ReceiveEnds, BatchDone, PushRequest, Desync,
        downstream, matchVars, sendVars, mdVars
<1>n. CASE \E n \in 1..(Pieces * MaxRequests) : Receive(n)
  BY <1>a, <1>n DEF Receive, downstream, matchVars, sendVars, mdVars
<1>o. CASE NoRequest \/ RecheckRequests
  BY <1>a, <1>o DEF NoRequest, RecheckRequests, sendVars, mdVars
<1>p. CASE BatchReady \/ KilledBySigPipe \/ NoResponse
  BY <1>a, <1>p DEF BatchReady, KilledBySigPipe, NoResponse, matchVars, mdVars
<1>q. CASE NoMarketData \/ UNCHANGED vars
  BY <1>a, <1>q DEF NoMarketData, vars, downstream, matchVars, sendVars, mdVars
<1> QED BY <1>b, <1>c, <1>d, <1>e, <1>f, <1>g, <1>h, <1>i, <1>j, <1>k, <1>l, <1>m, <1>n, <1>o,
           <1>p, <1>q, Steps

-----------------------------------------------------------------------------
(* How the stages end.                                                     *)

\* No stage ends before the one in front of it, nor with a queue to empty.
LEMMA NextExit ==
  ASSUME ExitInv, [Next]_vars
  PROVE  ExitInv'
<1> USE DEF ExitInv
<1>a. CASE UNCHANGED <<recvPc, matchPc, sendPc, mdPc, qIn, qOut, qMd>>
  BY <1>a
<1>b. CASE Connect \/ SendRequest \/ ReadResponse \/ FinishSending \/ Disconnect
  BY <1>a, <1>b DEF Connect, SendRequest, ReadResponse, FinishSending, Disconnect,
        recvVars, downstream, matchVars, sendVars, mdVars
<1>c. CASE StopFlag \/ InterruptListener \/ InterruptConn \/ Join
  BY <1>a, <1>c DEF StopFlag, InterruptListener, InterruptConn, Join,
        recvVars, downstream, matchVars, sendVars, mdVars
<1>d. CASE \/ Accept \/ AssignConn \/ CheckStopping \/ ReceiveEnds \/ BatchDone \/ Desync
           \/ PushRequest \/ \E n \in 1..(Pieces * MaxRequests) : Receive(n)
  <2>1. UNCHANGED <<matchPc, sendPc, mdPc, qOut, qMd>> /\ (recvPc = "exited" => FALSE)
    BY <1>d DEF Accept, AssignConn, CheckStopping, ReceiveEnds, BatchDone, Desync, PushRequest,
          Receive, downstream, matchVars, sendVars, mdVars
  <2> QED BY <2>1
<1>e. CASE Handle
  BY <1>e DEF Handle, upstream, recvVars, sendVars, mdVars
<1>f. CASE Push
  BY <1>f DEF Push, upstream, recvVars, sendVars, mdVars
<1>g. CASE NoRequest \/ RecheckRequests
  BY <1>g DEF NoRequest, RecheckRequests, upstream, recvVars, sendVars, mdVars
<1>h. CASE PopResponse \/ Coalesce \/ BatchReady \/ Transmit \/ TransmitFails
  BY <1>h DEF PopResponse, Coalesce, BatchReady, Transmit, TransmitFails,
        upstream, recvVars, matchVars, mdVars
<1>i. CASE KilledBySigPipe
  BY <1>i DEF KilledBySigPipe
<1>j. CASE Drain \/ NoResponse \/ RecheckResponses
  BY <1>j DEF Drain, NoResponse, RecheckResponses, upstream, recvVars, matchVars, mdVars
<1>k. CASE Publish \/ NoMarketData \/ RecheckMarketData
  BY <1>k DEF Publish, NoMarketData, RecheckMarketData, upstream, recvVars, matchVars, sendVars
<1>l. CASE UNCHANGED vars
  BY <1>a, <1>l DEF vars, upstream, recvVars, downstream, matchVars, sendVars, mdVars
<1> QED BY <1>b, <1>c, <1>d, <1>e, <1>f, <1>g, <1>h, <1>i, <1>j, <1>k, <1>l, Steps

\* A stage that knows the one before it done misses nothing any more, so it
\* throws away one message at the most.
LEMMA NextSync ==
  ASSUME SeqTypes, LocalInv, DestInv, ExitInv, SyncInv, AtMostOneLost, [Next]_vars
  PROVE  SyncInv' /\ AtMostOneLost'
<1> USE DEF SyncInv, Ended
<1>a. CASE UNCHANGED <<recvPc, matchPc, sendPc, mdPc, qIn, qOut, qMd, synced, lost>>
  BY <1>a DEF AtMostOneLost
<1>1. /\ qOut # <<>> => Head(qOut).to = "client"
      /\ qMd # <<>> => Head(qMd).to = "feed"
  BY ToSetType DEF DestInv, SeqTypes
<1>b. CASE Connect \/ SendRequest \/ ReadResponse \/ FinishSending \/ Disconnect
  BY <1>a, <1>b DEF Connect, SendRequest, ReadResponse, FinishSending, Disconnect,
        recvVars, downstream, matchVars, sendVars, mdVars
<1>c. CASE StopFlag \/ InterruptListener \/ InterruptConn \/ Join
  BY <1>a, <1>c DEF StopFlag, InterruptListener, InterruptConn, Join,
        recvVars, downstream, matchVars, sendVars, mdVars
<1>d. CASE \/ Accept \/ AssignConn \/ CheckStopping \/ ReceiveEnds \/ BatchDone \/ Desync
           \/ PushRequest \/ \E n \in 1..(Pieces * MaxRequests) : Receive(n)
  <2>1. /\ UNCHANGED <<matchPc, sendPc, mdPc, qOut, qMd, synced, lost>>
        /\ recvPc \in {"accept", "assign", "loop", "recv", "decode"}
    BY <1>d DEF Accept, AssignConn, CheckStopping, ReceiveEnds, BatchDone, Desync, PushRequest,
          Receive, downstream, matchVars, sendVars, mdVars
  <2>2. "match" \notin synced
    BY <2>1
  <2> QED BY <2>1, <2>2 DEF AtMostOneLost
<1>e. CASE Handle \/ Push \/ NoRequest
  <2>1. /\ UNCHANGED <<recvPc, sendPc, mdPc, synced, lost>>
        /\ matchPc \in {"poll", "push"}
    BY <1>e DEF Handle, Push, NoRequest, upstream, recvVars, sendVars, mdVars
  <2>2. "send" \notin synced /\ "md" \notin synced
    BY <2>1
  <2>3. "match" \in synced /\ matchPc' = "recheck" => qIn' = <<>>
    BY <1>e DEF Handle, Push, NoRequest, LooksEmpty
  <2> QED BY <2>1, <2>2, <2>3 DEF AtMostOneLost
<1>f. CASE RecheckRequests
  <2>1. "send" \notin synced /\ "md" \notin synced /\ matchPc = "recheck"
    BY <1>f DEF RecheckRequests
  <2>2. UNCHANGED <<recvPc, sendPc, mdPc, qOut, qMd>>
    BY <1>f DEF RecheckRequests, upstream, recvVars, sendVars, mdVars
  <2>3. CASE UNCHANGED lost
    <3>1. /\ matchPc' # "recheck"
          /\ synced' = synced \/ (synced' = synced \cup {"match"} /\ recvPc = "exited")
      BY <1>f DEF RecheckRequests
    <3> QED BY <2>1, <2>2, <2>3, <3>1 DEF AtMostOneLost
  <2>4. CASE /\ recvPc = "exited" /\ qIn # <<>> /\ matchPc' = "poll"
             /\ synced' = synced \cup {"match"}
             /\ lost' = lost \cup {Message("match", Head(qIn), 0)}
    <3>1. "match" \notin synced
      BY <2>1, <2>4
    <3>2. lost = {}
      BY <2>1, <3>1
    <3>3. Message("match", Head(qIn), 0).to = "match"
      BY DEF Message
    <3> QED BY <2>1, <2>2, <2>4, <3>2, <3>3 DEF AtMostOneLost
  <2> QED BY <1>f, <2>3, <2>4 DEF RecheckRequests
<1>g. CASE \/ PopResponse \/ Coalesce \/ BatchReady \/ Transmit \/ TransmitFails
           \/ Drain \/ NoResponse
  <2>1. UNCHANGED <<recvPc, matchPc, mdPc, qIn, qMd, synced, lost>>
    BY <1>g DEF PopResponse, Coalesce, BatchReady, Transmit, TransmitFails,
          Drain, NoResponse, upstream, recvVars, matchVars, mdVars
  <2>2. "send" \in synced /\ sendPc' = "recheck" => qOut' = <<>>
    BY <1>g DEF PopResponse, Coalesce, BatchReady, Transmit, TransmitFails, Drain, NoResponse,
          LooksEmpty
  <2> QED BY <2>1, <2>2 DEF AtMostOneLost
<1>h. CASE KilledBySigPipe
  BY <1>h DEF KilledBySigPipe, AtMostOneLost
<1>i. CASE RecheckResponses
  <2>1. UNCHANGED <<recvPc, matchPc, mdPc, qIn, qMd>> /\ sendPc = "recheck"
    BY <1>i DEF RecheckResponses, upstream, recvVars, matchVars, mdVars
  <2>2. CASE UNCHANGED lost
    <3>1. /\ sendPc' # "recheck"
          /\ synced' = synced \/ (synced' = synced \cup {"send"} /\ matchPc = "exited")
      BY <1>i DEF RecheckResponses
    <3> QED BY <2>1, <2>2, <3>1 DEF AtMostOneLost
  <2>3. CASE /\ matchPc = "exited" /\ qOut # <<>> /\ sendPc' = "poll"
             /\ synced' = synced \cup {"send"} /\ lost' = lost \cup {Head(qOut)}
    <3>1. "send" \notin synced
      BY <2>1, <2>3
    <3>2. \A m \in lost : m.to # "client"
      BY <3>1
    <3>3. AtMostOneLost'
      BY <1>1, <2>3, <3>2 DEF AtMostOneLost
    <3> QED BY <1>1, <2>1, <2>3, <3>3
  <2> QED BY <1>i, <2>2, <2>3 DEF RecheckResponses
<1>j. CASE Publish \/ NoMarketData
  <2>1. UNCHANGED <<recvPc, matchPc, sendPc, qIn, qOut, synced, lost>>
    BY <1>j DEF Publish, NoMarketData, upstream, recvVars, matchVars, sendVars
  <2>2. "md" \in synced /\ mdPc' = "recheck" => qMd' = <<>>
    BY <1>j DEF Publish, NoMarketData, LooksEmpty
  <2> QED BY <2>1, <2>2 DEF AtMostOneLost
<1>k. CASE RecheckMarketData
  <2>1. UNCHANGED <<recvPc, matchPc, sendPc, qIn, qOut>> /\ mdPc = "recheck"
    BY <1>k DEF RecheckMarketData, upstream, recvVars, matchVars, sendVars
  <2>2. CASE UNCHANGED lost
    <3>1. /\ mdPc' # "recheck"
          /\ synced' = synced \/ (synced' = synced \cup {"md"} /\ matchPc = "exited")
      BY <1>k DEF RecheckMarketData
    <3> QED BY <2>1, <2>2, <3>1 DEF AtMostOneLost
  <2>3. CASE /\ matchPc = "exited" /\ qMd # <<>> /\ mdPc' = "poll"
             /\ synced' = synced \cup {"md"} /\ lost' = lost \cup {Head(qMd)}
    <3>1. "md" \notin synced
      BY <2>1, <2>3
    <3>2. \A m \in lost : m.to # "feed"
      BY <3>1
    <3>3. AtMostOneLost'
      BY <1>1, <2>3, <3>2 DEF AtMostOneLost
    <3> QED BY <1>1, <2>1, <2>3, <3>3
  <2> QED BY <1>k, <2>2, <2>3 DEF RecheckMarketData
<1>l. CASE UNCHANGED vars
  BY <1>a, <1>l DEF vars, upstream, recvVars, downstream, matchVars, sendVars, mdVars
<1> QED BY <1>b, <1>c, <1>d, <1>e, <1>f, <1>g, <1>h, <1>i, <1>j, <1>k, <1>l, Steps

-----------------------------------------------------------------------------
(* The order of the messages.                                              *)

\* The head of a queue goes to the end of the next one, and the order stays.
LEMMA HandOver ==
  ASSUME NEW d, NEW s \in Seq(Messages), NEW q \in Seq(Messages), q # <<>>,
         Ascending(d, s), Ascending(d, q), Follows(d, ToSet(s), ToSet(q))
  PROVE  LET m == Head(q) IN
         /\ m \in Messages /\ m \in ToSet(q) /\ Tail(q) \in Seq(Messages)
         /\ ToSet(Append(s, m)) = ToSet(s) \cup {m} /\ ToSet(Tail(q)) \subseteq ToSet(q)
         /\ Ascending(d, Append(s, m)) /\ Ascending(d, Tail(q))
         /\ Follows(d, ToSet(Append(s, m)), ToSet(Tail(q)))
<1> DEFINE m == Head(q)
<1>1. m \in Messages /\ Tail(q) \in Seq(Messages) /\ ToSet(q) = {m} \cup ToSet(Tail(q))
  BY TailFacts
<1>2. Ascending(d, Tail(q)) /\ Follows(d, {m}, ToSet(Tail(q)))
  BY AscendingTail
<1>3. ToSet(Append(s, m)) = ToSet(s) \cup {m}
  BY <1>1, AppendFacts
<1>4. Follows(d, ToSet(s), {m}) /\ Follows(d, ToSet(s), ToSet(Tail(q)))
  BY <1>1 DEF Follows
<1>5. Ascending(d, Append(s, m))
  BY <1>1, <1>4, AscendingAppend
<1>6. Follows(d, ToSet(Append(s, m)), ToSet(Tail(q)))
  BY <1>2, <1>3, <1>4 DEF Follows
<1> QED BY <1>1, <1>2, <1>3, <1>5, <1>6

\* What a queue holds after its head is gone comes where the queue came.
LEMMA TakeHead ==
  ASSUME NEW d, NEW q \in Seq(Messages), q # <<>>, Ascending(d, q)
  PROVE  Ascending(d, Tail(q)) /\ ToSet(Tail(q)) \subseteq ToSet(q) /\ Head(q) \in ToSet(q)
<1>1. ToSet(q) = {Head(q)} \cup ToSet(Tail(q))
  BY TailFacts
<1> QED BY <1>1, AscendingTail

\* The order, for every step.
LEMMA NextOrder ==
  ASSUME SeqTypes, CountTypes, LocalInv, RequestInv, DestInv, OrderInv, [Next]_vars
  PROVE  OrderInv'
<1>0. /\ work \in Seq(Messages) /\ made \in Seq(Messages) /\ qOut \in Seq(Messages)
      /\ qMd \in Seq(Messages) /\ sbuf \in Seq(Messages) /\ wire \in Seq(Messages)
      /\ feed \in Seq(Messages) /\ qIn \in Seq(1..MaxRequests)
  BY DEF SeqTypes
<1>1. /\ Ascending("client", wire) /\ Ascending("client", sbuf) /\ Ascending("client", qOut)
      /\ Ascending("client", work) /\ Ascending("feed", work)
      /\ Ascending("feed", feed) /\ Ascending("feed", qMd)
  BY DEF OrderInv
<1>2. /\ Follows("client", ToSet(wire), ToSet(sbuf) \cup ToSet(qOut) \cup ToSet(work))
      /\ Follows("client", ToSet(sbuf), ToSet(qOut) \cup ToSet(work))
      /\ Follows("client", ToSet(qOut), ToSet(work))
      /\ Follows("feed", ToSet(feed), ToSet(qMd) \cup ToSet(work))
      /\ Follows("feed", ToSet(qMd), ToSet(work))
  BY DEF OrderInv
<1>3. ToSet(<<>>) = {} /\ \A d : Ascending(d, <<>>)
  BY <1>0, ToSetType DEF Ascending
<1>a. CASE UNCHANGED <<wire, sbuf, qOut, feed, qMd, work>>
  BY <1>a DEF OrderInv
<1>b. CASE Handle
  <2>1. Head(qIn) \in 1..MaxRequests /\ Head(qIn) = qIn[1] /\ Len(qIn) \in Nat \ {0}
    BY <1>0, <1>b, TailFacts DEF Handle
  <2>2. PICK outs \in Outcomes(Head(qIn)) : work' = outs
    BY <1>b DEF Handle
  <2>3. /\ \A m \in ToSet(outs) : m.req = Head(qIn)
        /\ Ascending("client", outs) /\ Ascending("feed", outs)
    BY <2>1, OutputsFacts
  <2>4. Head(qIn) = Taken + 1 /\ Taken \in Nat
    BY <2>1 DEF RequestInv, Taken, CountTypes
  <2>5. ASSUME NEW m \in ToSet(made) PROVE m.req \in Int /\ m.req < Head(qIn)
    <3>1. m.req \in 1..Taken
      BY DEF RequestInv
    <3> QED BY <2>4, <3>1
  <2>6. ASSUME NEW d, NEW A, A \subseteq ToSet(made) PROVE Follows(d, A, ToSet(outs))
    BY <2>3, <2>5, <2>6 DEF Follows, Before
  <2>7. /\ ToSet(wire) \subseteq ToSet(made) /\ ToSet(sbuf) \subseteq ToSet(made)
        /\ ToSet(qOut) \subseteq ToSet(made) /\ ToSet(feed) \subseteq ToSet(made)
        /\ ToSet(qMd) \subseteq ToSet(made)
    BY DEF DestInv
  <2>8. UNCHANGED <<wire, sbuf, qOut, feed, qMd>>
    BY <1>b DEF Handle, sendVars, mdVars
  <2>9. /\ Follows("client", ToSet(wire), ToSet(outs)) /\ Follows("client", ToSet(sbuf), ToSet(outs))
        /\ Follows("client", ToSet(qOut), ToSet(outs)) /\ Follows("feed", ToSet(feed), ToSet(outs))
        /\ Follows("feed", ToSet(qMd), ToSet(outs))
    BY <2>6, <2>7
  <2>a. /\ Follows("client", ToSet(wire), ToSet(sbuf) \cup ToSet(qOut) \cup ToSet(outs))
        /\ Follows("client", ToSet(sbuf), ToSet(qOut) \cup ToSet(outs))
        /\ Follows("feed", ToSet(feed), ToSet(qMd) \cup ToSet(outs))
    BY <1>2, <2>9 DEF Follows
  <2> QED BY <1>1, <2>2, <2>3, <2>8, <2>9, <2>a DEF OrderInv
<1>c. CASE Push
  <2>1. work # <<>> /\ work' = Tail(work) /\ UNCHANGED <<wire, sbuf, feed>>
    BY <1>c DEF Push, LocalInv, sendVars, mdVars
  <2>2. PICK m : m = Head(work)
    OBVIOUS
  <2>3. /\ Ascending("client", work') /\ Ascending("feed", work')
        /\ ToSet(work') \subseteq ToSet(work) /\ m \in ToSet(work)
    BY <1>0, <1>1, <2>1, <2>2, TakeHead
  <2>4. /\ ToSet(Append(qOut, m)) = ToSet(qOut) \cup {m}
        /\ Ascending("client", Append(qOut, m))
        /\ Follows("client", ToSet(Append(qOut, m)), ToSet(work'))
    BY <1>0, <1>1, <1>2, <2>1, <2>2, HandOver
  <2>5. /\ ToSet(Append(qMd, m)) = ToSet(qMd) \cup {m}
        /\ Ascending("feed", Append(qMd, m))
        /\ Follows("feed", ToSet(Append(qMd, m)), ToSet(work'))
    BY <1>0, <1>1, <1>2, <2>1, <2>2, HandOver
  <2>6. qOut' \in {qOut, Append(qOut, m)} /\ qMd' \in {qMd, Append(qMd, m)}
    BY <1>c, <2>2 DEF Push
  <2>7. /\ Ascending("client", qOut') /\ Ascending("feed", qMd')
        /\ ToSet(qOut') \subseteq ToSet(qOut) \cup {m} /\ ToSet(qMd') \subseteq ToSet(qMd) \cup {m}
    BY <1>1, <2>4, <2>5, <2>6
  <2>8. Follows("client", ToSet(qOut'), ToSet(work')) /\ Follows("feed", ToSet(qMd'), ToSet(work'))
    BY <1>2, <2>3, <2>4, <2>5, <2>6 DEF Follows
  <2>9. /\ Follows("client", ToSet(wire), ToSet(sbuf) \cup ToSet(qOut') \cup ToSet(work'))
        /\ Follows("client", ToSet(sbuf), ToSet(qOut') \cup ToSet(work'))
        /\ Follows("feed", ToSet(feed), ToSet(qMd') \cup ToSet(work'))
    BY <1>2, <2>3, <2>7 DEF Follows
  <2> QED BY <1>1, <2>1, <2>3, <2>7, <2>8, <2>9 DEF OrderInv
<1>d. CASE PopResponse
  <2>1. /\ qOut # <<>> /\ qOut' = Tail(qOut) /\ sbuf' = <<Head(qOut)>>
        /\ UNCHANGED <<wire, feed, qMd, work>>
    BY <1>d DEF PopResponse, matchVars, mdVars
  <2>2. /\ Ascending("client", qOut') /\ Follows("client", {Head(qOut)}, ToSet(qOut'))
        /\ ToSet(qOut') \subseteq ToSet(qOut) /\ Head(qOut) \in ToSet(qOut)
    BY <1>0, <1>1, <2>1, TakeHead, AscendingTail
  <2>3. ToSet(sbuf') = {Head(qOut)} /\ Ascending("client", sbuf')
    BY <2>1 DEF ToSet, Ascending
  <2>4. /\ Follows("client", ToSet(wire), ToSet(sbuf') \cup ToSet(qOut') \cup ToSet(work))
        /\ Follows("client", ToSet(sbuf'), ToSet(qOut') \cup ToSet(work))
        /\ Follows("client", ToSet(qOut'), ToSet(work))
    BY <1>2, <2>2, <2>3 DEF Follows
  <2> QED BY <1>1, <1>2, <2>1, <2>2, <2>3, <2>4 DEF OrderInv
<1>e. CASE Coalesce
  <2>1. /\ qOut # <<>> /\ qOut' = Tail(qOut) /\ sbuf' = Append(sbuf, Head(qOut))
        /\ UNCHANGED <<wire, feed, qMd, work>>
    BY <1>e DEF Coalesce, matchVars, mdVars
  <2>2. Follows("client", ToSet(sbuf), ToSet(qOut))
    BY <1>2 DEF Follows
  <2>3. /\ Head(qOut) \in ToSet(qOut) /\ ToSet(qOut') \subseteq ToSet(qOut)
        /\ ToSet(sbuf') = ToSet(sbuf) \cup {Head(qOut)}
        /\ Ascending("client", sbuf') /\ Ascending("client", qOut')
        /\ Follows("client", ToSet(sbuf'), ToSet(qOut'))
    BY <1>0, <1>1, <2>1, <2>2, HandOver
  <2>4. /\ Follows("client", ToSet(wire), ToSet(sbuf') \cup ToSet(qOut') \cup ToSet(work))
        /\ Follows("client", ToSet(sbuf'), ToSet(qOut') \cup ToSet(work))
        /\ Follows("client", ToSet(qOut'), ToSet(work))
    BY <1>2, <2>3 DEF Follows
  <2> QED BY <1>1, <1>2, <2>1, <2>3, <2>4 DEF OrderInv
<1>f. CASE Transmit
  <2>1. /\ sbuf # <<>> /\ sbuf' = Tail(sbuf) /\ wire' \in {wire, Append(wire, Head(sbuf))}
        /\ UNCHANGED <<qOut, feed, qMd, work>>
    BY <1>f DEF Transmit, LocalInv, matchVars, mdVars
  <2>2. PICK m : m = Head(sbuf)
    OBVIOUS
  <2>3. Follows("client", ToSet(wire), ToSet(sbuf))
    BY <1>2 DEF Follows
  <2>4. /\ m \in ToSet(sbuf) /\ ToSet(sbuf') \subseteq ToSet(sbuf)
        /\ ToSet(Append(wire, m)) = ToSet(wire) \cup {m}
        /\ Ascending("client", Append(wire, m)) /\ Ascending("client", sbuf')
        /\ Follows("client", ToSet(Append(wire, m)), ToSet(sbuf'))
    BY <1>0, <1>1, <2>1, <2>2, <2>3, HandOver
  <2>5. /\ Ascending("client", wire') /\ ToSet(wire') \subseteq ToSet(wire) \cup {m}
        /\ Follows("client", ToSet(wire'), ToSet(sbuf'))
    BY <1>1, <2>1, <2>2, <2>3, <2>4 DEF Follows
  <2>6. /\ Follows("client", ToSet(wire'), ToSet(sbuf') \cup ToSet(qOut) \cup ToSet(work))
        /\ Follows("client", ToSet(sbuf'), ToSet(qOut) \cup ToSet(work))
    BY <1>2, <2>4, <2>5 DEF Follows
  <2> QED BY <1>1, <1>2, <2>1, <2>4, <2>5, <2>6 DEF OrderInv
<1>g. CASE TransmitFails
  <2>1. sbuf' = <<>> /\ UNCHANGED <<wire, qOut, feed, qMd, work>>
    BY <1>g DEF TransmitFails, matchVars, mdVars
  <2>2. ToSet(sbuf') = {} /\ Ascending("client", sbuf')
    BY <1>3, <2>1
  <2>3. /\ Follows("client", ToSet(wire), ToSet(sbuf') \cup ToSet(qOut) \cup ToSet(work))
        /\ Follows("client", ToSet(sbuf'), ToSet(qOut) \cup ToSet(work))
    BY <1>2, <2>2 DEF Follows
  <2> QED BY <1>1, <1>2, <2>1, <2>2, <2>3 DEF OrderInv
<1>h. CASE Drain \/ RecheckResponses
  <2>1. /\ qOut' = qOut \/ (qOut # <<>> /\ qOut' = Tail(qOut))
        /\ UNCHANGED <<wire, sbuf, feed, qMd, work>>
    BY <1>h DEF Drain, RecheckResponses, matchVars, mdVars
  <2>2. ToSet(qOut') \subseteq ToSet(qOut) /\ Ascending("client", qOut')
    BY <1>0, <1>1, <2>1, TakeHead
  <2>3. /\ Follows("client", ToSet(wire), ToSet(sbuf) \cup ToSet(qOut') \cup ToSet(work))
        /\ Follows("client", ToSet(sbuf), ToSet(qOut') \cup ToSet(work))
        /\ Follows("client", ToSet(qOut'), ToSet(work))
    BY <1>2, <2>2 DEF Follows
  <2> QED BY <1>1, <1>2, <2>1, <2>2, <2>3 DEF OrderInv
<1>i. CASE Publish
  <2>1. /\ qMd # <<>> /\ qMd' = Tail(qMd) /\ feed' = Append(feed, Head(qMd))
        /\ UNCHANGED <<wire, sbuf, qOut, work>>
    BY <1>i DEF Publish, matchVars, sendVars
  <2>2. Follows("feed", ToSet(feed), ToSet(qMd))
    BY <1>2 DEF Follows
  <2>3. /\ Head(qMd) \in ToSet(qMd) /\ ToSet(qMd') \subseteq ToSet(qMd)
        /\ ToSet(feed') = ToSet(feed) \cup {Head(qMd)}
        /\ Ascending("feed", feed') /\ Ascending("feed", qMd')
        /\ Follows("feed", ToSet(feed'), ToSet(qMd'))
    BY <1>0, <1>1, <2>1, <2>2, HandOver
  <2>4. /\ Follows("feed", ToSet(feed'), ToSet(qMd') \cup ToSet(work))
        /\ Follows("feed", ToSet(qMd'), ToSet(work))
    BY <1>2, <2>3 DEF Follows
  <2> QED BY <1>1, <1>2, <2>1, <2>3, <2>4 DEF OrderInv
<1>j. CASE RecheckMarketData
  <2>1. /\ qMd' = qMd \/ (qMd # <<>> /\ qMd' = Tail(qMd))
        /\ UNCHANGED <<wire, sbuf, qOut, feed, work>>
    BY <1>j DEF RecheckMarketData, matchVars, sendVars
  <2>2. ToSet(qMd') \subseteq ToSet(qMd) /\ Ascending("feed", qMd')
    BY <1>0, <1>1, <2>1, TakeHead
  <2>3. /\ Follows("feed", ToSet(feed), ToSet(qMd') \cup ToSet(work))
        /\ Follows("feed", ToSet(qMd'), ToSet(work))
    BY <1>2, <2>2 DEF Follows
  <2> QED BY <1>1, <1>2, <2>1, <2>2, <2>3 DEF OrderInv
<1>k. CASE Connect \/ SendRequest \/ ReadResponse \/ FinishSending \/ Disconnect
  BY <1>a, <1>k DEF Connect, SendRequest, ReadResponse, FinishSending, Disconnect,
        downstream, matchVars, sendVars, mdVars
<1>l. CASE StopFlag \/ InterruptListener \/ InterruptConn \/ Join
  BY <1>a, <1>l DEF StopFlag, InterruptListener, InterruptConn, Join,
        downstream, matchVars, sendVars, mdVars
<1>m. CASE Accept \/ AssignConn \/ CheckStopping \/ ReceiveEnds \/ BatchDone \/ PushRequest \/ Desync
  BY <1>a, <1>m DEF Accept, AssignConn, CheckStopping, ReceiveEnds, BatchDone, PushRequest, Desync,
        downstream, matchVars, sendVars, mdVars
<1>n. CASE \E n \in 1..(Pieces * MaxRequests) : Receive(n)
  BY <1>a, <1>n DEF Receive, downstream, matchVars, sendVars, mdVars
<1>o. CASE NoRequest \/ RecheckRequests
  BY <1>a, <1>o DEF NoRequest, RecheckRequests, sendVars, mdVars
<1>p. CASE BatchReady \/ KilledBySigPipe \/ NoResponse
  BY <1>a, <1>p DEF BatchReady, KilledBySigPipe, NoResponse, matchVars, mdVars
<1>q. CASE NoMarketData \/ UNCHANGED vars
  BY <1>a, <1>q DEF NoMarketData, vars, downstream, matchVars, sendVars, mdVars
<1> QED BY <1>b, <1>c, <1>d, <1>e, <1>f, <1>g, <1>h, <1>i, <1>j, <1>k, <1>l, <1>m, <1>n, <1>o,
           <1>p, <1>q, Steps

-----------------------------------------------------------------------------
(* The theorems.                                                           *)

\* A stage starts with nothing in its hands, and nothing has been produced.
LEMMA InitInv == Init => Inv
<1> SUFFICES ASSUME Init PROVE Inv
  OBVIOUS
<1>0. /\ MaxRequests \in Nat /\ Pieces \in Nat \ {0} /\ QueueCapacity \in Nat \ {0}
      /\ SendBatch \in Nat \ {0}
  BY Sizes
<1>1. /\ \A S : <<>> \in Seq(S)
      /\ Len(<<>>) = 0 /\ ToSet(<<>>) = {}
  BY EmptySeq DEF ToSet
<1>2. SeqTypes
  BY <1>0, <1>1 DEF Init, SeqTypes, AllBytes
<1>3. CountTypes
  BY <1>0, <1>1 DEF Init, CountTypes
<1>4. ControlTypes
  BY DEF Init, ControlTypes
<1>5. LocalInv /\ StopInv /\ IntakeInv /\ ExitInv /\ AtMostOneLost
  BY <1>0, <1>1 DEF Init, LocalInv, StopInv, IntakeInv, ExitInv, AtMostOneLost
<1>6. StreamInv
  <2>1. Pending = <<>> /\ sent = 0 /\ requests = 0
    BY <1>1, ConcatEmptySeq DEF Init, Pending
  <2>2. Pieces * (sent - requests) = 0 /\ 0..(sent - requests - 1) = {}
    BY <1>0, <2>1
  <2> QED BY <1>1, <2>1, <2>2 DEF StreamInv, Carries
<1>7. RequestInv
  BY <1>1 DEF Init, RequestInv, Taken
<1>8. DestInv /\ FlowInv
  BY <1>1 DEF Init, DestInv, FlowInv, To
<1>9. SyncInv
  BY DEF Init, SyncInv
<1>a. OrderInv
  <2>1. \A d : Ascending(d, <<>>)
    BY <1>1, LenProperties DEF Ascending
  <2>2. \A d : Follows(d, {}, {})
    BY DEF Follows
  <2>3. /\ wire = <<>> /\ sbuf = <<>> /\ qOut = <<>> /\ work = <<>> /\ feed = <<>> /\ qMd = <<>>
        /\ {} \cup {} = {}
    BY DEF Init
  <2>4. /\ ToSet(wire) = {} /\ ToSet(sbuf) = {} /\ ToSet(qOut) = {} /\ ToSet(work) = {}
        /\ ToSet(feed) = {} /\ ToSet(qMd) = {}
    BY <1>1, <2>3
  <2> QED BY <2>1, <2>2, <2>3, <2>4 DEF OrderInv
<1> QED BY <1>2, <1>3, <1>4, <1>5, <1>6, <1>7, <1>8, <1>9, <1>a, TypeParts DEF Inv

\* Every step keeps every part of the invariant.
LEMMA NextInv == Inv /\ [Next]_vars => Inv'
<1> SUFFICES ASSUME Inv, [Next]_vars PROVE Inv'
  OBVIOUS
<1>1. /\ SeqTypes /\ CountTypes /\ ControlTypes /\ LocalInv /\ StopInv /\ StreamInv
      /\ IntakeInv /\ RequestInv /\ DestInv /\ FlowInv /\ ExitInv /\ SyncInv /\ OrderInv
      /\ AtMostOneLost
  BY TypeParts DEF Inv
<1>2. SeqTypes' /\ CountTypes' /\ ControlTypes'
  BY <1>1, NextSeqTypes, NextCountTypes, NextControlTypes
<1>3. TypeOK'
  BY <1>2 DEF TypeOK, SeqTypes, CountTypes, ControlTypes
<1>4. LocalInv' /\ StopInv' /\ StreamInv' /\ IntakeInv'
  BY <1>1, NextLocal, NextStop, NextStream, NextIntake
<1>5. RequestInv' /\ DestInv' /\ FlowInv'
  BY <1>1, NextRequest, NextDest, NextFlow
<1>6. ExitInv' /\ SyncInv' /\ AtMostOneLost' /\ OrderInv'
  BY <1>1, NextExit, NextSync, NextOrder
<1> QED BY <1>3, <1>4, <1>5, <1>6 DEF Inv

\* The inductive invariant holds in every reachable state.
THEOREM Invariance == Spec => []Inv
<1>1. Init => Inv
  BY InitInv
<1>2. Inv /\ [Next]_vars => Inv'
  BY NextInv
<1> QED BY <1>1, <1>2, PTL DEF Spec

\* Every variable keeps its type, and no queue or buffer outgrows its capacity.
THEOREM TypeCorrect == Spec => []TypeOK
<1>1. Inv => TypeOK
  BY DEF Inv
<1> QED BY <1>1, Invariance, PTL

\* The second try_pop of the exiting stages loses one message each at the most.
THEOREM LosesOneAtMost == Spec => []AtMostOneLost
<1>1. Inv => AtMostOneLost
  BY DEF Inv
<1> QED BY <1>1, Invariance, PTL

\* The responses, from the socket back to handle(), and the feed messages are
\* in the order in which they were produced, none twice.
THEOREM AlwaysInOrder == Spec => []InOrder
<1>1. Inv => InOrder
  <2> SUFFICES ASSUME Inv PROVE InOrder
    OBVIOUS
  <2>1. /\ work \in Seq(Messages) /\ qOut \in Seq(Messages) /\ qMd \in Seq(Messages)
        /\ sbuf \in Seq(Messages) /\ wire \in Seq(Messages) /\ feed \in Seq(Messages)
    BY TypeParts DEF Inv, SeqTypes
  <2>2. /\ Ascending("client", wire) /\ Ascending("client", sbuf) /\ Ascending("client", qOut)
        /\ Ascending("client", work) /\ Ascending("feed", work)
        /\ Ascending("feed", feed) /\ Ascending("feed", qMd)
        /\ Follows("client", ToSet(wire), ToSet(sbuf))
        /\ Follows("client", ToSet(wire) \cup ToSet(sbuf), ToSet(qOut))
        /\ Follows("client", ToSet(wire) \cup ToSet(sbuf) \cup ToSet(qOut), ToSet(work))
        /\ Follows("feed", ToSet(feed), ToSet(qMd))
        /\ Follows("feed", ToSet(feed) \cup ToSet(qMd), ToSet(work))
    BY DEF Inv, OrderInv, Follows
  <2>3. PICK s : s = wire \o sbuf
    OBVIOUS
  <2>4. /\ s \in Seq(Messages) /\ ToSet(s) = ToSet(wire) \cup ToSet(sbuf)
        /\ Ascending("client", s)
    BY <2>1, <2>2, <2>3, ConcatFacts, AscendingConcat
  <2>5. PICK t : t = s \o qOut
    OBVIOUS
  <2>6. t \in Seq(Messages) /\ ToSet(t) = ToSet(s) \cup ToSet(qOut) /\ Ascending("client", t)
    <3>1. s \in Seq(Messages) /\ qOut \in Seq(Messages)
      BY <2>1, <2>4
    <3>2. Follows("client", ToSet(s), ToSet(qOut)) /\ Ascending("client", s) /\ Ascending("client", qOut)
      BY <2>2, <2>4
    <3>3. s \o qOut \in Seq(Messages) /\ ToSet(s \o qOut) = ToSet(s) \cup ToSet(qOut)
      BY <3>1, ConcatFacts
    <3>4. Ascending("client", s \o qOut)
      BY <3>1, <3>2, AscendingConcat
    <3> QED BY <2>5, <3>3, <3>4
  <2>7. Ascending("client", t \o work)
    BY <2>1, <2>2, <2>4, <2>6, AscendingConcat
  <2>8. PICK u : u = feed \o qMd
    OBVIOUS
  <2>9. u \in Seq(Messages) /\ ToSet(u) = ToSet(feed) \cup ToSet(qMd) /\ Ascending("feed", u)
    BY <2>1, <2>2, <2>8, ConcatFacts, AscendingConcat
  <2>a. Ascending("feed", u \o work)
    BY <2>1, <2>2, <2>9, AscendingConcat
  <2> QED BY <2>3, <2>5, <2>7, <2>8, <2>a DEF InOrder
<1> QED BY <1>1, Invariance, PTL

\* A stage that has exited has accounted for everything it was given: what the
\* client sent is taken in, what was taken in is handled, what was produced is
\* transmitted, but for the reasons NothingLeftBehind names.
THEOREM LeavesNothingBehind == Spec => []NothingLeftBehind
<1>1. Inv => NothingLeftBehind
  <2> SUFFICES ASSUME Inv PROVE NothingLeftBehind
    OBVIOUS
  <2>0. /\ IntakeInv /\ ExitInv /\ RequestInv /\ FlowInv /\ LocalInv
        /\ requests \in Nat
    BY TypeParts DEF Inv, CountTypes
  <2>1. recvPc = "exited" =>
          \/ requests = sent
          \/ stopping \/ client = "closed"
          \/ SubSeq(rbuf, 1, Pieces) = Bytes(Garbled)
    BY <2>0 DEF IntakeInv
  <2>2. matchPc = "exited" =>
          /\ recvPc = "exited" /\ qIn = <<>>
          /\ 1..requests = {m.req : m \in ToSet(made) \cup {x \in lost : x.to = "match"}}
    <3>1. qIn = <<>> => Taken = requests
      BY <2>0, EmptySeq DEF Taken
    <3> QED BY <2>0, <3>1 DEF ExitInv, RequestInv
  <2>3. /\ ToSet(<<>>) = {}
        /\ matchPc = "exited" => work = <<>>
        /\ sendPc = "exited" => sbuf = <<>>
    BY <2>0, EmptySeq DEF LocalInv, ToSet
  <2>4. sendPc = "exited" =>
          /\ matchPc = "exited" /\ qOut = <<>> /\ sbuf = <<>>
          /\ ~Broken => To("client", made) \subseteq ToSet(wire) \cup lost
    BY <2>0, <2>3 DEF ExitInv, FlowInv
  <2>5. mdPc = "exited" =>
          /\ matchPc = "exited" /\ qMd = <<>>
          /\ MdEnabled => To("feed", made) \subseteq ToSet(feed) \cup lost
    BY <2>0, <2>3 DEF ExitInv, FlowInv
  <2> QED BY <2>1, <2>2, <2>4, <2>5 DEF NothingLeftBehind
<1> QED BY <1>1, Invariance, PTL
=============================================================================
