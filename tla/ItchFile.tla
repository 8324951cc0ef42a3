------------------------------- MODULE ItchFile -------------------------------
(***************************************************************************)
(* include/pricetime/itch_reader.hpp and itch_stream.hpp: a file of        *)
(* messages, each behind its length, read as a whole or in chunks.         *)
(*                                                                         *)
(* A Writer fills the file, in which a message may be damaged, or the last *)
(* one cut short; for_each_framed_stream reads it, an iteration of its     *)
(* loop at a time, as long as the buffer has room for what it reads.       *)
(***************************************************************************)
EXTENDS ItchCodec

CONSTANTS
  Records,       \* what the Writer may be asked to write
  NewMessages,   \* messages of types the reader does not know
  ChunkSizes,    \* values of chunk_bytes
  MaxRecords     \* bound: messages in a file

VARIABLES
  phase,     \* "writing", "reading", "done", "overrun"
  file,      \* Writer::buf_, then the file
  last,      \* where its last message starts
  spoilt,    \* history: the number of the message that is damaged, 0 if none is
  written,   \* history: the messages written, with the bytes of each
  chunk,     \* chunk_bytes
  position,  \* how much of the file in.read has delivered
  buf,       \* the bytes carried over, buf[0 .. have)
  consumed,  \* where in the file buf begins
  total,     \* the ReadResult to be returned
  handed     \* history: the messages the handler was called with

vars == <<phase, file, last, spoilt, written, chunk, position, buf, consumed, total, handed>>

reader == <<chunk, position, buf, consumed, total, handed>>

\* A ReadResult; bad_type, declared_length and expected_length are 0 unless the
\* status has them.
Result(status, messages, offset) ==
  [status |-> status, messages |-> messages, offset |-> offset,
   bad_type |-> 0, declared_length |-> 0, expected_length |-> 0]

\* "A length prefix and one maximal message": the room behind a chunk.
Spare == 64

Init ==
  /\ phase = "writing" /\ file = <<>> /\ last = 0 /\ spoilt = 0 /\ written = <<>>
  /\ chunk \in ChunkSizes
  /\ position = 0 /\ buf = <<>> /\ consumed = 0
  /\ total = Result("Ok", 0, 0) /\ handed = <<>>

-----------------------------------------------------------------------------
(* Walks over bytes in memory.  A walk is [result, handed].                *)

\* for_each_framed_message from offset off on, after calling the handler with
\* the messages of `got'.  The length prefix advances the cursor; the table only
\* contradicts it.
RECURSIVE FramedFrom(_, _, _)
FramedFrom(data, off, got) ==
  LET left == Len(data) - off
      length == BigEndian(data, off, 2)
      type == Byte(data, off + 2)
      expected == message_length(type)
      Stop(status) == Result(status, Len(got), off)
      Walk(result) == [result |-> result, handed |-> got]
  IN IF left = 0 THEN Walk(Stop("Ok"))
     ELSE IF left < 2 THEN Walk(Stop("TruncatedPrefix"))
     ELSE IF length = 0 THEN Walk(Stop("ZeroLength"))
     ELSE IF left - 2 < length
       THEN Walk([Stop("TruncatedMessage") EXCEPT !.declared_length = length])
     ELSE IF expected \notin {0, length}
       THEN Walk([Stop("LengthMismatch") EXCEPT !.bad_type = type, !.declared_length = length,
                                                !.expected_length = expected])
     ELSE FramedFrom(data, off + 2 + length, Append(got, SubSeq(data, off + 3, off + 2 + length)))

for_each_framed_message(data) == FramedFrom(data, 0, <<>>)

\* for_each_raw_message: no prefixes, so that an unknown type is the end.
RECURSIVE RawFrom(_, _, _)
RawFrom(data, off, got) ==
  LET left == Len(data) - off
      type == Byte(data, off)
      length == message_length(type)
      Stop(status) == Result(status, Len(got), off)
      Walk(result) == [result |-> result, handed |-> got]
  IN IF left = 0 THEN Walk(Stop("Ok"))
     ELSE IF length = 0 THEN Walk([Stop("UnknownType") EXCEPT !.bad_type = type])
     ELSE IF left < length
       THEN Walk([Stop("TruncatedMessage") EXCEPT !.declared_length = length])
     ELSE RawFrom(data, off + length, Append(got, SubSeq(data, off + 1, off + length)))

for_each_raw_message(data) == RawFrom(data, 0, <<>>)

-----------------------------------------------------------------------------
(* The file.                                                               *)

Extended(bytes, m) ==
  /\ phase = "writing" /\ Len(written) < MaxRecords
  /\ last' = Len(file)
  /\ file' = file \o bytes
  /\ written' = Append(written, m)
  /\ UNCHANGED <<phase, spoilt, reader>>

Write(m) == Extended(Encoded(m), m)

\* A later version of ITCH has written this one: any type, any length.
WriteNew(body) == Extended(Put(Len(body), 2) \o body, [type |-> "new"])

\* A byte of the last message is not right: one of its length, or its type.
Altered ==
  {[file EXCEPT ![last + 1] = byte] : byte \in {1, Base - 1}}
    \cup {[file EXCEPT ![last + 2] = byte] :
              byte \in {0, file[last + 2] - 1, file[last + 2] + 1} \cap 0..(Base - 1)}
    \cup {[file EXCEPT ![last + 3] = byte] : byte \in {Ascii.D, 0}}

\* A download that ends early.
CutShort == {SubSeq(file, 1, n) : n \in last..(Len(file) - 1)}

\* More may follow a message that is damaged, but nothing one that is cut.
Damage ==
  /\ phase = "writing" /\ file # <<>> /\ spoilt = 0
  /\ spoilt' = Len(written)
  /\ \/ file' \in Altered /\ UNCHANGED phase
     \/ file' \in CutShort /\ phase' = "reading"
  /\ UNCHANGED <<last, written, reader>>

Open ==
  /\ phase = "writing"
  /\ phase' = "reading"
  /\ UNCHANGED <<file, last, spoilt, written, reader>>

-----------------------------------------------------------------------------
(* for_each_framed_stream, one iteration of its loop.                      *)

\* What in.read adds, and the bytes from buf[0] to buf[have) after it.
Delivered ==
  SubSeq(file, position + 1, IF position + chunk < Len(file) THEN position + chunk ELSE Len(file))

AtEof == Len(Delivered) < chunk

Filled == buf \o Delivered

\* The walk over them, and total after it, at the file's own offsets.
Walked == for_each_framed_message(Filled)

Reported ==
  [Walked.result EXCEPT !.messages = total.messages + @, !.offset = consumed + @]

HasRoom == Len(Filled) <= chunk + Spare

\* in.read writes beyond the end of buf, and what follows is undefined.
Overrun ==
  /\ phase = "reading" /\ ~HasRoom
  /\ phase' = "overrun"
  /\ UNCHANGED <<file, last, spoilt, written, reader>>

\* Read and hand over; every iteration but the first of an empty file does.
HandOver ==
  /\ phase = "reading" /\ HasRoom /\ Filled # <<>>
  /\ position' = position + Len(Delivered)
  /\ handed' = handed \o Walked.handed

\* Nothing was carried and nothing came: a clean end.
CleanEnd ==
  /\ phase = "reading" /\ Filled = <<>>
  /\ phase' = "done"
  /\ UNCHANGED <<file, last, spoilt, written, reader>>

\* The chunk ended with a message.
WholeChunk ==
  /\ HandOver
  /\ Walked.result.status = "Ok"
  /\ consumed' = consumed + Len(Filled)
  /\ buf' = <<>>
  /\ total' = Reported
  /\ phase' = IF AtEof THEN "done" ELSE "reading"
  /\ UNCHANGED <<file, last, spoilt, written, chunk>>

Fragment == Walked.result.status \in {"TruncatedPrefix", "TruncatedMessage"}

\* Mutant: a fragment that fills no more than a prefix is dropped.
Carry_DropsPrefix ==
  /\ HandOver
  /\ Fragment /\ ~AtEof
  /\ consumed' = consumed + Walked.result.offset
  /\ buf' = IF Walked.result.status = "TruncatedPrefix" THEN <<>>
            ELSE SubSeq(Filled, Walked.result.offset + 1, Len(Filled))
  /\ total' = [total EXCEPT !.messages = Reported.messages]
  /\ UNCHANGED <<phase, file, last, spoilt, written, chunk>>

\* Mutant: what has been handed over is kept with the fragment.
Carry_KeepsAll ==
  /\ HandOver
  /\ Fragment /\ ~AtEof
  /\ buf' = Filled
  /\ total' = [total EXCEPT !.messages = Reported.messages]
  /\ UNCHANGED <<phase, file, last, spoilt, written, chunk, consumed>>

\* A fragment before the end of the file is carried to the front of the buffer.
Carry ==
  /\ HandOver
  /\ Fragment /\ ~AtEof
  /\ consumed' = consumed + Walked.result.offset
  /\ buf' = SubSeq(Filled, Walked.result.offset + 1, Len(Filled))
  /\ total' = [total EXCEPT !.messages = Reported.messages]
  /\ UNCHANGED <<phase, file, last, spoilt, written, chunk>>

\* A fragment at the end of the file, or bytes that are no message.
GiveUp ==
  /\ HandOver
  /\ Walked.result.status # "Ok" /\ (Fragment => AtEof)
  /\ total' = Reported
  /\ phase' = "done"
  /\ UNCHANGED <<file, last, spoilt, written, chunk, buf, consumed>>

Read == CleanEnd \/ WholeChunk \/ Carry \/ GiveUp \/ Overrun

Done == phase \in {"done", "overrun"} /\ UNCHANGED vars

Next ==
  \/ \E m \in Records : Write(m)
  \/ \E body \in NewMessages : WriteNew(body)
  \/ Damage \/ Open \/ Read \/ Done

Spec == Init /\ [][Next]_vars

-----------------------------------------------------------------------------
(* Properties                                                              *)

\* Lines 40 to 42 of itch_stream.hpp speak of room for the largest possible
\* fragment.  What is carried is what the file has at `consumed', and it takes
\* more than that room, or overruns the buffer, only as part of a message that
\* declares 64 bytes or more; no message of a type the reader knows does.
RoomUnlessLonger ==
  phase \in {"reading", "overrun"} =>
    /\ buf = SubSeq(file, consumed + 1, position)
    /\ Len(buf) > Spare \/ phase = "overrun" => BigEndian(buf, 0, 2) >= Spare

\* Lines 28 and 29 of itch_stream.hpp: wherever the chunks happen to end, the
\* handler is called with the messages, and the caller gets the result, that a
\* walk over the whole file in memory gives, its offsets included.  (A reader
\* that overruns its buffer gives nothing; RoomUnlessLonger says when.)
StreamIsWholeFile ==
  LET whole == for_each_framed_message(file)
  IN phase = "done" => total = whole.result /\ handed = whole.handed

\* A walk by the types alone, as of a packet's messages, finds the same
\* messages and stops at the first type it does not know, not before.
RawWalkAgrees ==
  LET raw == for_each_raw_message(FlattenSeq(handed))
      known == {i \in 1..Len(handed) : \A j \in 1..i : message_length(Byte(handed[j], 0)) # 0}
  IN /\ raw.handed = SubSeq(handed, 1, Cardinality(known))
     /\ raw.result.status = IF Cardinality(known) = Len(handed) THEN "Ok" ELSE "UnknownType"

Undamaged == IF spoilt = 0 THEN Len(written) ELSE spoilt - 1

\* What the Writer wrote is what the decoders read, message for message, of a
\* damaged file too up to the damage; the types alone find it as well.
ReadsBack ==
  phase = "done" =>
    /\ Len(handed) >= Undamaged
    /\ spoilt = 0 => total = Result("Ok", Len(written), Len(file)) /\ RawWalkAgrees
    /\ \A i \in 1..Undamaged :
         written[i] \in Records =>
           LET said == Decoded(handed[i])
           IN \A field \in DOMAIN said : said[field] = written[i][field]
=============================================================================
