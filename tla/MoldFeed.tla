------------------------------- MODULE MoldFeed -------------------------------
(***************************************************************************)
(* include/pricetime/moldudp64.hpp: a numbered feed over UDP, from the     *)
(* Packer of the sender to unpack() and the GapTracker of a receiver.      *)
(*                                                                         *)
(* The network loses packets, delivers them twice and in any order, and    *)
(* the receiver may come late: `network' only grows, so that a packet may  *)
(* be received at any time after it was sent, again, or never.  A message  *)
(* is its sequence number.                                                 *)
(***************************************************************************)
EXTENDS Integers, FiniteSets, FiniteSetsExt

CONSTANTS
  MaxMessages,   \* bound: messages of a session
  PacketRoom     \* bound: messages the 1400 bytes of a packet have room for

ASSUME BoundsAssumption == MaxMessages \in Nat /\ PacketRoom \in Nat \ {0}

VARIABLES
  seq,          \* sender: the sequence number of the next message
  closed,       \* sender: end of session has been announced
  network,      \* packets that were sent
  started, next, missed,   \* GapTracker: started_, next_, total_missed_
  heard,        \* history: packets received
  first,        \* history: the sequence number of the first of them
  late          \* history: messages that came after the tracker had passed them

sender == <<seq, closed>>
tracker == <<started, next, missed>>
history == <<heard, first, late>>
vars == <<sender, network, tracker, history>>

Init ==
  /\ seq = 1 /\ closed = FALSE
  /\ network = {}
  /\ started = FALSE /\ next = 1 /\ missed = 0
  /\ heard = {} /\ first = 1 /\ late = {}

-----------------------------------------------------------------------------
(* The sender.                                                             *)

\* write_header: what the first 20 bytes say.
Packet(kind, sequence, count) == [kind |-> kind, sequence |-> sequence, count |-> count]

\* UdpSender::send: the datagram is on its way; that is all the sender knows.
Send(packet) == network' = network \cup {packet}

\* begin(seq), add() n times, seal(); the next packet begins after the last
\* message of this one.  The engine's md_loop always has n = 1.
SendData(n) ==
  /\ ~closed
  /\ seq + n <= MaxMessages + 1
  /\ Send(Packet("data", seq, n))
  /\ seq' = seq + n
  /\ UNCHANGED <<closed, tracker, history>>

\* seal_heartbeat: no messages, the number the next one will have.
SendHeartbeat ==
  /\ ~closed
  /\ Send(Packet("heartbeat", seq, 0))
  /\ UNCHANGED <<sender, tracker, history>>

\* Mutant: the last message's number is announced, not the next one's.
SendEnd_LastSequence ==
  /\ ~closed /\ seq > 1
  /\ Send(Packet("end", seq - 1, 0))
  /\ closed' = TRUE
  /\ UNCHANGED <<seq, tracker, history>>

\* seal_end_of_session, once, when md_loop exits.
SendEnd ==
  /\ ~closed
  /\ Send(Packet("end", seq, 0))
  /\ closed' = TRUE
  /\ UNCHANGED <<seq, tracker, history>>

-----------------------------------------------------------------------------
(* The receiver.                                                           *)

\* unpack() calls the handler with these.
Carried(p) == p.sequence..(p.sequence + p.count - 1)

End(p) == p.sequence + p.count

Delivered == UNION {Carried(p) : p \in heard}

\* Mutant: a packet from the past moves the tracker back.
OnPacket_Rewinds(p) ==
  /\ missed' = missed + (IF started /\ p.sequence > next THEN p.sequence - next ELSE 0)
  /\ started' = TRUE
  /\ next' = End(p)

\* on_packet.
OnPacket(p) ==
  /\ missed' = missed + (IF started /\ p.sequence > next THEN p.sequence - next ELSE 0)
  /\ IF ~started \/ p.sequence >= next
     THEN /\ started' = TRUE
          /\ next' = IF p.kind = "data" THEN End(p)
                     ELSE IF p.sequence > next THEN p.sequence ELSE next
     ELSE UNCHANGED <<started, next>>

\* UdpReceiver::recv returns a datagram, one of those that were sent.
Receive(p) ==
  /\ p \in network
  /\ OnPacket(p)
  /\ heard' = heard \cup {p}
  /\ first' = IF started THEN first ELSE p.sequence
  /\ late' = late \cup {m \in Carried(p) \ Delivered : started /\ first <= m /\ m < next}
  /\ UNCHANGED <<sender, network>>

Next ==
  \/ \E n \in 1..PacketRoom : SendData(n)
  \/ SendHeartbeat \/ SendEnd
  \/ \E p \in network : Receive(p)

Spec == Init /\ [][Next]_vars

-----------------------------------------------------------------------------
(* Properties                                                              *)

\* Lines 20 to 22, from the first packet on: the count of missed messages is
\* exactly those that have been passed and not handed over, plus those that
\* were handed over too late; duplicates and reordering count nothing twice.
MissedIsExact ==
  started =>
    missed = Cardinality((first..(next - 1)) \ Delivered) + Cardinality(late)

\* Once the end of the session has been heard, what the receiver was handed and
\* what it counted as missed add up to the session since its first packet: the
\* last messages are not lost unseen, though no message follows them.
EndAccountsForAll ==
  (\E p \in heard : p.kind = "end") =>
    Cardinality(Delivered \cap (first..MaxMessages)) + missed = seq - first + Cardinality(late)
=============================================================================
