------------------------------- MODULE Engine -------------------------------
(***************************************************************************)
(* include/pricetime/engine.hpp: the matching engine as a server.          *)
(*                                                                         *)
(*   TCP in -> recv thread -> match thread -> send thread -> TCP out       *)
(*                                  |                                      *)
(*                                  +-------> md thread -> UDP             *)
(*                                                                         *)
(* One program counter per thread, plus the thread that calls stop() and   *)
(* the client.  The three queues are what SpscQueue is proved to be, a     *)
(* bounded FIFO whose try_pop may also fail on a stale index; what the     *)
(* book answers is nondeterministic (Outcomes), OrderBook says what it is. *)
(* A thread's done flag is stored by its last step, so it is its program   *)
(* counter being at "exited".                                              *)
(***************************************************************************)
EXTENDS Integers, Sequences, SequencesExt

CONSTANTS
  MaxRequests,   \* bound: requests the client sends
  MaxFills,      \* bound: executions of one request
  Undecodable,   \* which of the requests may arrive with the wrong magic bytes
  Pieces,        \* bound: the pieces a request may arrive in
  QueueCapacity, \* capacity() of each queue
  SendBatch,     \* messages the send thread's buffer holds (256 in the code)
  SocketRoom,    \* responses the kernel holds for a client that does not read
  MdEnabled,     \* md_port # 0
  SigPipe        \* send() on a broken connection raises SIGPIPE (POSIX)

ASSUME BoundsAssumption == MaxRequests \in Nat /\ MaxFills \in Nat
ASSUME UndecodableAssumption == Undecodable \subseteq 1..MaxRequests
ASSUME CapacityAssumption == {Pieces, QueueCapacity, SendBatch, SocketRoom} \subseteq Nat \ {0}
ASSUME FlagsAssumption == {MdEnabled, SigPipe} \subseteq BOOLEAN

VARIABLES
  client,              \* "away", "open", "finished" (sent FIN, still reads), "closed"
  sent, read,          \* requests it has sent, responses it has read
  toServer,            \* the bytes on their way to recv_loop
  wire,                \* history: every response handed to the socket
  listener, conn,      \* listener_; conn_: "none", "up", "down"
  stopping, stopPc,    \* stopping_; where stop() is
  recvPc, rbuf,        \* recv_loop and its buffer
  qIn,                 \* q_in_
  requests,            \* stats_.requests
  matchPc, work,       \* match_loop; what handle() has still to push
  qOut, qMd,           \* q_out_, q_md_
  sendPc, sbuf,        \* send_loop and its buffer
  mdPc, feed,          \* md_loop; history: every message sent as a packet
  synced,              \* stages that have seen the stage before them done
  made,                \* history: everything handle() produced, in order
  lost                 \* history: what a stage popped and threw away

clientVars == <<client, sent, read, toServer>>
stopVars == <<listener, stopping, stopPc>>
recvVars == <<recvPc, rbuf, requests>>
matchVars == <<matchPc, work, made>>
sendVars == <<sendPc, sbuf, wire>>
mdVars == <<mdPc, feed>>
upstream == <<clientVars, stopVars, conn, recvVars>>
downstream == <<matchVars, qOut, qMd, sendVars, mdVars, synced, lost>>
vars == <<clientVars, stopVars, conn, recvVars, qIn, downstream>>

\* Forty bytes that wire::decode turns down.
Garbled == 0

\* The bytes of a request, in the pieces that TCP may cut them into.
Bytes(r) == [k \in 1..Pieces |-> <<r, k>>]

AllBytes == Seq((0..MaxRequests) \X (1..Pieces))

\* What travels between the stages: the n-th message a request r gives rise to
\* for a destination.
Message(to, r, n) == [to |-> to, req |-> r, n |-> n]
Messages == [to : {"match", "client", "feed"}, req : 1..MaxRequests, n : 0..(2 * MaxFills + 1)]

TypeOK ==
  /\ client \in {"away", "open", "finished", "closed"}
  /\ sent \in 0..MaxRequests /\ requests \in 0..MaxRequests /\ read \in 0..Len(wire)
  /\ toServer \in AllBytes /\ rbuf \in AllBytes
  /\ qIn \in Seq(1..MaxRequests) /\ Len(qIn) <= QueueCapacity
  /\ listener \in {"up", "down"} /\ conn \in {"none", "up", "down"}
  /\ stopping \in BOOLEAN
  /\ stopPc \in {"running", "flagged", "unlistened", "joining", "stopped", "killed"}
  /\ recvPc \in {"accept", "assign", "loop", "recv", "decode", "exited", "killed"}
  /\ matchPc \in {"poll", "recheck", "push", "exited", "killed"}
  /\ sendPc \in {"poll", "recheck", "fill", "send", "drain", "exited", "killed"}
  /\ mdPc \in {"poll", "recheck", "exited", "killed"}
  /\ \A q \in {work, qOut, qMd, sbuf, wire, feed, made} : q \in Seq(Messages)
  /\ Len(qOut) <= QueueCapacity /\ Len(qMd) <= QueueCapacity /\ Len(sbuf) <= SendBatch
  /\ synced \subseteq {"match", "send", "md"}
  /\ lost \subseteq Messages

\* start(): the socket listens and the four threads run.
Init ==
  /\ client = "away" /\ sent = 0 /\ read = 0 /\ toServer = <<>>
  /\ listener = "up" /\ conn = "none" /\ stopping = FALSE /\ stopPc = "running"
  /\ recvPc = "accept" /\ rbuf = <<>> /\ requests = 0
  /\ matchPc = "poll" /\ work = <<>> /\ made = <<>>
  /\ sendPc = "poll" /\ sbuf = <<>> /\ wire = <<>>
  /\ mdPc = "poll" /\ feed = <<>>
  /\ qIn = <<>> /\ qOut = <<>> /\ qMd = <<>>
  /\ synced = {} /\ lost = {}

\* Mutant: one message too many.
HasRoom_OneMore(q) == Len(q) <= QueueCapacity

HasRoom(q) == Len(q) < QueueCapacity

\* try_pop of a stage returns false: the queue is empty, or the stage still
\* sees an old head_.  Once it has read the previous stage's done flag, every
\* push that came before the flag is visible to it.
LooksEmpty(q, stage) == q = <<>> \/ stage \notin synced

-----------------------------------------------------------------------------
(* The client (external).                                                  *)

Connect ==
  /\ client = "away" /\ listener = "up"
  /\ client' = "open"
  /\ UNCHANGED <<sent, read, toServer, stopVars, conn, recvVars, qIn, downstream>>

SendRequest ==
  /\ client = "open" /\ sent < MaxRequests
  /\ sent' = sent + 1
  /\ \/ toServer' = toServer \o Bytes(sent + 1)
     \/ sent + 1 \in Undecodable /\ toServer' = toServer \o Bytes(Garbled)
  /\ UNCHANGED <<client, read, stopVars, conn, recvVars, qIn, downstream>>

ReadResponse ==
  /\ client \in {"open", "finished"} /\ read < Len(wire)
  /\ read' = read + 1
  /\ UNCHANGED <<client, sent, toServer, stopVars, conn, recvVars, qIn, downstream>>

\* Shut down the sending side only, and go on reading responses.
FinishSending ==
  /\ client = "open"
  /\ client' = "finished"
  /\ UNCHANGED <<sent, read, toServer, stopVars, conn, recvVars, qIn, downstream>>

\* Disconnect; a reset may take requests on their way with it.
Disconnect ==
  /\ client \in {"open", "finished"}
  /\ client' = "closed"
  /\ \/ UNCHANGED toServer
     \/ toServer # <<>> /\ toServer' = <<>>
  /\ UNCHANGED <<sent, read, stopVars, conn, recvVars, qIn, downstream>>

ClientStep == Connect \/ SendRequest \/ ReadResponse \/ FinishSending \/ Disconnect

-----------------------------------------------------------------------------
(* stop(), from any other thread.                                          *)

Exited == /\ recvPc = "exited" /\ matchPc = "exited"
          /\ sendPc = "exited" /\ mdPc = "exited"

\* Mutant: stop() only interrupts the sockets.
StopFlag_NotSet ==
  /\ stopPc = "running"
  /\ stopPc' = "flagged"
  /\ UNCHANGED <<clientVars, listener, stopping, conn, recvVars, qIn, downstream>>

StopFlag ==
  /\ stopPc = "running"
  /\ stopping' = TRUE
  /\ stopPc' = "flagged"
  /\ UNCHANGED <<clientVars, listener, conn, recvVars, qIn, downstream>>

InterruptListener ==
  /\ stopPc = "flagged"
  /\ listener' = "down"
  /\ stopPc' = "unlistened"
  /\ UNCHANGED <<clientVars, stopping, conn, recvVars, qIn, downstream>>

\* Under conn_mu_; a connection that is not there yet is left alone.
InterruptConn ==
  /\ stopPc = "unlistened"
  /\ conn' = IF conn = "up" THEN "down" ELSE conn
  /\ stopPc' = "joining"
  /\ UNCHANGED <<clientVars, listener, stopping, recvVars, qIn, downstream>>

Join ==
  /\ stopPc = "joining"
  /\ Exited
  /\ stopPc' = "stopped"
  /\ UNCHANGED <<clientVars, listener, stopping, conn, recvVars, qIn, downstream>>

StopStep == InterruptListener \/ InterruptConn \/ Join

-----------------------------------------------------------------------------
(* Stage 1: recv_loop.                                                     *)

\* accept() fails once the listener is interrupted.
Accept ==
  /\ recvPc = "accept"
  /\ \/ listener = "up" /\ client # "away" /\ recvPc' = "assign"
     \/ listener = "down" /\ recvPc' = "exited"
  /\ UNCHANGED <<clientVars, stopVars, conn, rbuf, requests, qIn, downstream>>

\* conn_ = std::move(accepted), under conn_mu_.
AssignConn ==
  /\ recvPc = "assign"
  /\ conn' = "up"
  /\ recvPc' = "loop"
  /\ UNCHANGED <<clientVars, stopVars, rbuf, requests, qIn, downstream>>

CheckStopping ==
  /\ recvPc = "loop"
  /\ recvPc' = IF stopping THEN "exited" ELSE "recv"
  /\ UNCHANGED <<clientVars, stopVars, conn, rbuf, requests, qIn, downstream>>

\* recv_some hands over whatever is there, any non-empty prefix, behind what is
\* left of the last one.
Receive(n) ==
  /\ recvPc = "recv"
  /\ n \in 1..Len(toServer)
  /\ rbuf' = rbuf \o SubSeq(toServer, 1, n)
  /\ toServer' = SubSeq(toServer, n + 1, Len(toServer))
  /\ recvPc' = "decode"
  /\ UNCHANGED <<client, sent, read, stopVars, conn, requests, qIn, downstream>>

\* Mutant: only an error ends the session, not the end of the stream.
ReceiveEnds_OnErrorOnly ==
  /\ recvPc = "recv"
  /\ conn = "down"
  /\ recvPc' = "exited"
  /\ UNCHANGED <<clientVars, stopVars, conn, rbuf, requests, qIn, downstream>>

\* recv_some returns 0 or -1: end of stream, or interrupted.
ReceiveEnds ==
  /\ recvPc = "recv"
  /\ conn = "down" \/ (client \in {"finished", "closed"} /\ toServer = <<>>)
  /\ recvPc' = "exited"
  /\ UNCHANGED <<clientVars, stopVars, conn, rbuf, requests, qIn, downstream>>

\* wire::decode of the first forty bytes; what is not one request has not the
\* magic bytes at its end.
Decoded ==
  LET front == SubSeq(rbuf, 1, Pieces)
  IN IF \E r \in 1..MaxRequests : front = Bytes(r) THEN rbuf[1][1] ELSE Garbled

\* Mutant: the beginning of a request is not kept for the next recv.
BatchDone_Forgets ==
  /\ recvPc = "decode"
  /\ Len(rbuf) < Pieces
  /\ recvPc' = "loop"
  /\ rbuf' = <<>>
  /\ UNCHANGED <<clientVars, stopVars, conn, requests, qIn, downstream>>

\* Less than a request is left; it is moved to the front of the buffer.
BatchDone ==
  /\ recvPc = "decode"
  /\ Len(rbuf) < Pieces
  /\ recvPc' = "loop"
  /\ UNCHANGED <<clientVars, stopVars, conn, rbuf, requests, qIn, downstream>>

\* push_spin waits for room and looks at nothing else, stopping_ included.
PushRequest ==
  /\ recvPc = "decode"
  /\ Len(rbuf) >= Pieces /\ Decoded # Garbled
  /\ HasRoom(qIn)
  /\ qIn' = Append(qIn, Decoded)
  /\ rbuf' = SubSeq(rbuf, Pieces + 1, Len(rbuf))
  /\ requests' = requests + 1
  /\ UNCHANGED <<clientVars, stopVars, conn, recvPc, downstream>>

\* A desynchronized stream ends the session's intake.
Desync ==
  /\ recvPc = "decode"
  /\ Len(rbuf) >= Pieces /\ Decoded = Garbled
  /\ recvPc' = "exited"
  /\ UNCHANGED <<clientVars, stopVars, conn, rbuf, requests, qIn, downstream>>

RecvStep ==
  \/ Accept \/ AssignConn \/ CheckStopping \/ ReceiveEnds
  \/ \E n \in 1..(Pieces * MaxRequests) : Receive(n)
  \/ BatchDone \/ PushRequest \/ Desync
-----------------------------------------------------------------------------
(* Stage 2: match_loop and handle.                                         *)

\* The k-th of the messages the executions of r give rise to: a response to
\* either side and a feed message for each.
FillOutput(r, k) ==
  LET fill == (k + 2) \div 3
  IN CASE k % 3 = 1 -> Message("client", r, 2 * fill - 1)
       [] k % 3 = 2 -> Message("client", r, 2 * fill)
       [] k % 3 = 0 -> Message("feed", r, fill)

\* Mutant: fills are pushed as they happen, the reply when the book returns.
Outputs_FillsFirst(r, fills, shown) ==
  [k \in 1..(3 * fills) |-> FillOutput(r, k)]
    \o <<Message("client", r, 0)>>
    \o (IF shown THEN <<Message("feed", r, fills + 1)>> ELSE <<>>)

\* One reply, the messages of every execution, and a feed message when
\* something rests, shrinks or leaves (what else the book does is not seen
\* here): the order in which handle() pushes them.
Outputs(r, fills, shown) ==
  <<Message("client", r, 0)>>
    \o [k \in 1..(3 * fills) |-> FillOutput(r, k)]
    \o (IF shown THEN <<Message("feed", r, fills + 1)>> ELSE <<>>)

Outcomes(r) == {Outputs(r, fills, shown) : fills \in 0..MaxFills, shown \in BOOLEAN}

Handle ==
  /\ matchPc = "poll"
  /\ qIn # <<>>
  /\ qIn' = Tail(qIn)
  /\ \E outs \in Outcomes(Head(qIn)) : work' = outs /\ made' = made \o outs
  /\ matchPc' = "push"
  /\ UNCHANGED <<upstream, qOut, qMd, sendVars, mdVars, synced, lost>>

\* push_spin, message by message, into the queue of its destination; md_push
\* does nothing when market data is disabled.
Push ==
  /\ matchPc = "push"
  /\ LET m == Head(work)
     IN \/ m.to = "client" /\ HasRoom(qOut) /\ qOut' = Append(qOut, m) /\ UNCHANGED qMd
        \/ /\ m.to = "feed" /\ UNCHANGED qOut
           /\ IF MdEnabled THEN HasRoom(qMd) /\ qMd' = Append(qMd, m) ELSE UNCHANGED qMd
  /\ work' = Tail(work)
  /\ matchPc' = IF Len(work) = 1 THEN "poll" ELSE "push"
  /\ UNCHANGED <<upstream, qIn, made, sendVars, mdVars, synced, lost>>

NoRequest ==
  /\ matchPc = "poll"
  /\ LooksEmpty(qIn, "match")
  /\ matchPc' = "recheck"
  /\ UNCHANGED <<upstream, qIn, work, made, qOut, qMd, sendVars, mdVars, synced, lost>>

\* Mutant: recv_done_ alone ends the loop.
RecheckRequests_NoSecondPop ==
  /\ matchPc = "recheck"
  /\ matchPc' = IF recvPc = "exited" THEN "exited" ELSE "poll"
  /\ synced' = IF recvPc = "exited" THEN synced \cup {"match"} ELSE synced
  /\ UNCHANGED <<upstream, qIn, work, made, qOut, qMd, sendVars, mdVars, lost>>

\* recv_done_ and one more try_pop; what that one pops is not handled.
RecheckRequests ==
  /\ matchPc = "recheck"
  /\ IF recvPc = "exited"
     THEN /\ synced' = synced \cup {"match"}
          /\ IF qIn = <<>>
             THEN matchPc' = "exited" /\ UNCHANGED <<qIn, lost>>
             ELSE /\ matchPc' = "poll"
                  /\ qIn' = Tail(qIn)
                  /\ lost' = lost \cup {Message("match", Head(qIn), 0)}
     ELSE matchPc' = "poll" /\ UNCHANGED <<synced, qIn, lost>>
  /\ UNCHANGED <<upstream, work, made, qOut, qMd, sendVars, mdVars>>

MatchStep == Handle \/ Push \/ NoRequest \/ RecheckRequests

-----------------------------------------------------------------------------
(* Stage 3: send_loop.                                                     *)

PopResponse ==
  /\ sendPc = "poll"
  /\ qOut # <<>>
  /\ sbuf' = <<Head(qOut)>>
  /\ qOut' = Tail(qOut)
  /\ sendPc' = "fill"
  /\ UNCHANGED <<upstream, qIn, matchVars, qMd, wire, mdVars, synced, lost>>

\* Coalesce what is already queued, up to the size of the buffer.
Coalesce ==
  /\ sendPc = "fill"
  /\ Len(sbuf) < SendBatch /\ qOut # <<>>
  /\ sbuf' = Append(sbuf, Head(qOut))
  /\ qOut' = Tail(qOut)
  /\ UNCHANGED <<upstream, qIn, matchVars, qMd, sendPc, wire, mdVars, synced, lost>>

\* Mutant: a batch goes out only when it is full.
BatchReady_FullOnly ==
  /\ sendPc = "fill"
  /\ Len(sbuf) = SendBatch
  /\ sendPc' = "send"
  /\ UNCHANGED <<upstream, qIn, matchVars, qOut, qMd, sbuf, wire, mdVars, synced, lost>>

BatchReady ==
  /\ sendPc = "fill"
  /\ Len(sbuf) = SendBatch \/ LooksEmpty(qOut, "send")
  /\ sendPc' = "send"
  /\ UNCHANGED <<upstream, qIn, matchVars, qOut, qMd, sbuf, wire, mdVars, synced, lost>>

\* send_all: the kernel takes a response if it has room for it; of a client
\* that has gone it may go on taking them for a while, to no effect.
Transmit ==
  /\ sendPc = "send"
  /\ conn = "up"
  /\ \/ client = "closed" /\ UNCHANGED wire
     \/ /\ client # "closed" /\ Len(wire) - read < SocketRoom
        /\ wire' = Append(wire, Head(sbuf))
  /\ sbuf' = Tail(sbuf)
  /\ sendPc' = IF Len(sbuf) = 1 THEN "poll" ELSE "send"
  /\ UNCHANGED <<upstream, qIn, matchVars, qOut, qMd, mdVars, synced, lost>>

Broken == client = "closed" \/ conn = "down"

\* send_all returns false, and what is queued is drained.
TransmitFails ==
  /\ sendPc = "send"
  /\ Broken
  /\ sbuf' = <<>>
  /\ sendPc' = "drain"
  /\ UNCHANGED <<upstream, qIn, matchVars, qOut, qMd, wire, mdVars, synced, lost>>

\* Where send() without MSG_NOSIGNAL raises SIGPIPE, its default action ends
\* the process, and with it every thread.
KilledBySigPipe ==
  /\ SigPipe
  /\ sendPc = "send"
  /\ Broken
  /\ recvPc' = "killed" /\ matchPc' = "killed" /\ sendPc' = "killed"
  /\ mdPc' = "killed" /\ stopPc' = "killed"
  /\ UNCHANGED <<clientVars, listener, stopping, conn, rbuf, requests, qIn, work, made,
                 qOut, qMd, sbuf, wire, feed, synced, lost>>

Drain ==
  /\ sendPc = "drain"
  /\ \/ qOut # <<>> /\ qOut' = Tail(qOut) /\ UNCHANGED sendPc
     \/ LooksEmpty(qOut, "send") /\ sendPc' = "poll" /\ UNCHANGED qOut
  /\ UNCHANGED <<upstream, qIn, matchVars, qMd, sbuf, wire, mdVars, synced, lost>>

NoResponse ==
  /\ sendPc = "poll"
  /\ LooksEmpty(qOut, "send")
  /\ sendPc' = "recheck"
  /\ UNCHANGED <<upstream, qIn, matchVars, qOut, qMd, sbuf, wire, mdVars, synced, lost>>

RecheckResponses ==
  /\ sendPc = "recheck"
  /\ IF matchPc = "exited"
     THEN /\ synced' = synced \cup {"send"}
          /\ IF qOut = <<>>
             THEN sendPc' = "exited" /\ UNCHANGED <<qOut, lost>>
             ELSE /\ sendPc' = "poll"
                  /\ qOut' = Tail(qOut)
                  /\ lost' = lost \cup {Head(qOut)}
     ELSE sendPc' = "poll" /\ UNCHANGED <<synced, qOut, lost>>
  /\ UNCHANGED <<upstream, qIn, matchVars, qMd, sbuf, wire, mdVars>>

SendStep ==
  \/ PopResponse \/ Coalesce \/ BatchReady \/ Transmit \/ TransmitFails
  \/ KilledBySigPipe \/ Drain \/ NoResponse \/ RecheckResponses

-----------------------------------------------------------------------------
(* Stage 4: md_loop.                                                       *)

\* One packet per message, numbered in the order they are popped.
Publish ==
  /\ mdPc = "poll"
  /\ qMd # <<>>
  /\ qMd' = Tail(qMd)
  /\ feed' = Append(feed, Head(qMd))
  /\ UNCHANGED <<upstream, qIn, matchVars, qOut, sendVars, mdPc, synced, lost>>

NoMarketData ==
  /\ mdPc = "poll"
  /\ LooksEmpty(qMd, "md")
  /\ mdPc' = "recheck"
  /\ UNCHANGED <<upstream, qIn, matchVars, qOut, qMd, sendVars, feed, synced, lost>>

\* Mutant: match_done_ is loaded relaxed, and orders nothing.
RecheckMarketData_Relaxed ==
  /\ mdPc = "recheck"
  /\ IF matchPc = "exited"
     THEN IF qMd = <<>>
          THEN mdPc' = "exited" /\ UNCHANGED <<qMd, lost>>
          ELSE mdPc' = "poll" /\ qMd' = Tail(qMd) /\ lost' = lost \cup {Head(qMd)}
     ELSE mdPc' = "poll" /\ UNCHANGED <<qMd, lost>>
  /\ UNCHANGED <<upstream, qIn, matchVars, qOut, sendVars, feed, synced>>

RecheckMarketData ==
  /\ mdPc = "recheck"
  /\ IF matchPc = "exited"
     THEN /\ synced' = synced \cup {"md"}
          /\ IF qMd = <<>>
             THEN mdPc' = "exited" /\ UNCHANGED <<qMd, lost>>
             ELSE /\ mdPc' = "poll"
                  /\ qMd' = Tail(qMd)
                  /\ lost' = lost \cup {Head(qMd)}
     ELSE mdPc' = "poll" /\ UNCHANGED <<synced, qMd, lost>>
  /\ UNCHANGED <<upstream, qIn, matchVars, qOut, sendVars, feed>>

MdStep == Publish \/ NoMarketData \/ RecheckMarketData

-----------------------------------------------------------------------------

\* Nothing is left to do: every thread has ended, and the client is not there.
Over ==
  /\ stopPc \in {"stopped", "killed"}
  /\ client = "closed" \/ (client = "away" /\ listener = "down")
  /\ UNCHANGED vars

Next == ClientStep \/ StopFlag \/ StopStep \/ RecvStep \/ MatchStep \/ SendStep \/ MdStep \/ Over

Spec == Init /\ [][Next]_vars

(***************************************************************************)
(* Every thread keeps running, and every push is seen in the end: a stage  *)
(* that polls a queue with something in it does not miss it for ever.      *)
(* Nobody has to call stop(), and the client owes the engine nothing.      *)
(***************************************************************************)
FairSpec ==
  /\ Spec
  /\ WF_vars(RecvStep) /\ WF_vars(MatchStep) /\ WF_vars(SendStep) /\ WF_vars(MdStep)
  /\ WF_vars(StopStep)
  /\ SF_vars(Handle) /\ SF_vars(PopResponse) /\ SF_vars(Publish)

-----------------------------------------------------------------------------
(* Properties                                                              *)

To(dest, q) == {m \in ToSet(q) : m.to = dest}

Before(a, b) == a.req < b.req \/ (a.req = b.req /\ a.n < b.n)

\* What q holds for a destination is in the order it was produced, none twice.
Ascending(dest, q) ==
  \A j, k \in DOMAIN q : j < k /\ q[j].to = dest /\ q[k].to = dest => Before(q[j], q[k])

\* From the socket back to the call that produced them, responses are in the
\* order of the requests, a request's reply before its fills, none twice; and
\* the same for the feed, whose sequence numbers vouch for nothing else.
InOrder ==
  /\ Ascending("client", wire \o sbuf \o qOut \o work)
  /\ Ascending("feed", feed \o qMd \o work)

\* A stage that exits has seen the one before it exit and leaves nothing in
\* its queue; nothing that was sent, however TCP cut it, or taken in is
\* unaccounted for: intake ends early for stop(), for bytes the client should
\* not have sent and for a client that is gone, and only such a client is not
\* told.
NothingLeftBehind ==
  /\ recvPc = "exited" =>
       \/ requests = sent
       \/ stopping \/ client = "closed"
       \/ SubSeq(rbuf, 1, Pieces) = Bytes(Garbled)
  /\ matchPc = "exited" =>
       /\ recvPc = "exited" /\ qIn = <<>>
       /\ 1..requests = {m.req : m \in ToSet(made) \cup {x \in lost : x.to = "match"}}
  /\ sendPc = "exited" =>
       /\ matchPc = "exited" /\ qOut = <<>> /\ sbuf = <<>>
       /\ ~Broken => To("client", made) \subseteq ToSet(wire) \cup lost
  /\ mdPc = "exited" =>
       /\ matchPc = "exited" /\ qMd = <<>>
       /\ MdEnabled => To("feed", made) \subseteq ToSet(feed) \cup lost

\* What the second try_pop of an exiting stage throws away is one message per
\* stage at the most: once the stage knows that no more is coming, its first
\* try_pop no longer misses anything.
AtMostOneLost == \A a, b \in lost : a.to = b.to => a = b

\* stop() returns, whatever the client does: a client that does not read, full
\* queues all the way back and a connection accepted at the last moment
\* included.
StopReturns == (stopPc # "running") ~> (stopPc = "stopped")

\* wait_for_session_end returns once the client has gone.
SessionEnds == (client = "closed") ~> Exited

\* A client that keeps reading gets its answers: a request that was taken in is
\* answered unless the session ends first.
Answered ==
  WF_vars(ReadResponse) =>
    \A r \in 1..MaxRequests :
      (r <= requests) ~> \/ Message("client", r, 0) \in ToSet(SubSeq(wire, 1, read))
                         \/ client = "closed" \/ recvPc = "exited"

\* engine.hpp, lines 51 and 52: "Each stage finishes processing everything
\* already queued before exiting, so no accepted order is ever silently
\* dropped."  Nothing that was queued is popped and thrown away, unless the
\* client it was for is gone.
NothingDropped == \A m \in lost : m.to = "client" /\ Broken
=============================================================================
