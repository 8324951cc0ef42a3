------------------------------ MODULE ItchCodec -------------------------------
(***************************************************************************)
(* include/pricetime/itch.hpp and itch_writer.hpp: the layout of ITCH 5.0  *)
(* messages, as the writer produces it and as the decoders read it.        *)
(*                                                                         *)
(* A byte is a number: a digit of base Base in a number field (the code's  *)
(* 256; with 16 every byte of a 64-bit field is used by some number TLC    *)
(* can hold), the ASCII code of a character in a character field.  Fields  *)
(* have their real widths and places.                                      *)
(***************************************************************************)
EXTENDS Integers, Sequences, SequencesExt

CONSTANT Base   \* bound: values of a byte in a number field

ASSUME BaseAssumption == Base \in Nat \ {0, 1}

Ascii == [S |-> 83, R |-> 82, H |-> 72, Y |-> 89, L |-> 76, V |-> 86, W |-> 87,
          K |-> 75, J |-> 74, h |-> 104, A |-> 65, F |-> 70, E |-> 69, C |-> 67,
          X |-> 88, D |-> 68, U |-> 85, P |-> 80, Q |-> 81, B |-> 66, I |-> 73,
          N |-> 78, O |-> 79]

\* message_length: what the specification of ITCH says, 0 for other types.
Lengths == [S |-> 12, R |-> 39, H |-> 25, Y |-> 20, L |-> 26, V |-> 35, W |-> 12,
            K |-> 28, J |-> 35, h |-> 21, A |-> 36, F |-> 40, E |-> 31, C |-> 36,
            X |-> 23, D |-> 19, U |-> 35, P |-> 44, Q |-> 40, B |-> 19, I |-> 50,
            N |-> 20, O |-> 48]

TypesOf(byte) == {c \in DOMAIN Lengths : Ascii[c] = byte}

message_length(byte) ==
  IF TypesOf(byte) = {} THEN 0 ELSE Lengths[CHOOSE c \in TypesOf(byte) : TRUE]

-----------------------------------------------------------------------------
(* The writer.                                                             *)

\* put16, put32, put48 and put64 for n = 2, 4, 6 and 8: most significant first,
\* and nothing is left of the bytes a number has beyond n.
Put(v, n) == [i \in 1..n |-> (v \div Base^(n - i)) % Base]

\* pad: zeroes up to the length of the type, never a byte less.
Pad(bytes, len) == bytes \o [i \in 1..(IF len > Len(bytes) THEN len - Len(bytes) ELSE 0) |-> 0]

\* begin, the fields, end: a length prefix, the type, locate and tracking
\* numbers (always 0), then the time and the fields of the message.  The length
\* is the writer's own, not the one of the table above.
Message(type, length, timestamp, fields) ==
  Put(length, 2)
    \o Pad(<<Ascii[type]>> \o Put(0, 2) \o Put(0, 2) \o Put(timestamp, 6) \o fields, length)

SideByte(side) == <<IF side = "bid" THEN Ascii.B ELSE Ascii.S>>

YesNo(b) == <<IF b THEN Ascii.Y ELSE Ascii.N>>

system_event(m) == Message("S", 12, m.timestamp, <<m.code>>)

stock_directory(m) == Message("R", 39, m.timestamp, m.symbol \o <<m.market_category>>)

\* add_order and add_order_mpid: the second ends with a participant.
AddFields(m) ==
  Put(m.reference, 8) \o SideByte(m.side) \o Put(m.shares, 4) \o m.symbol \o Put(m.price, 4)

add_order(m) == Message("A", 36, m.timestamp, AddFields(m))

add_order_mpid(m) == Message("F", 40, m.timestamp, AddFields(m) \o <<Ascii.N, Ascii.S, Ascii.D, Ascii.Q>>)

ExecutedFields(m) == Put(m.reference, 8) \o Put(m.shares, 4) \o Put(m.match_number, 8)

order_executed(m) == Message("E", 31, m.timestamp, ExecutedFields(m))

order_executed_with_price(m) ==
  Message("C", 36, m.timestamp, ExecutedFields(m) \o YesNo(m.printable) \o Put(m.price, 4))

order_cancel(m) == Message("X", 23, m.timestamp, Put(m.reference, 8) \o Put(m.shares, 4))

order_delete(m) == Message("D", 19, m.timestamp, Put(m.reference, 8))

order_replace(m) ==
  Message("U", 35, m.timestamp,
          Put(m.original_reference, 8) \o Put(m.new_reference, 8) \o Put(m.shares, 4) \o Put(m.price, 4))

trade_non_cross(m) == Message("P", 44, m.timestamp, AddFields(m) \o Put(m.match_number, 8))

stock_trading_action(m) == Message("H", 25, m.timestamp, m.symbol \o <<m.state>>)

\* The Writer's function for each type.
Encoded(m) ==
  CASE m.type = "S" -> system_event(m)
    [] m.type = "R" -> stock_directory(m)
    [] m.type = "A" -> add_order(m)
    [] m.type = "F" -> add_order_mpid(m)
    [] m.type = "E" -> order_executed(m)
    [] m.type = "C" -> order_executed_with_price(m)
    [] m.type = "X" -> order_cancel(m)
    [] m.type = "D" -> order_delete(m)
    [] m.type = "U" -> order_replace(m)
    [] m.type = "P" -> trade_non_cross(m)
    [] m.type = "H" -> stock_trading_action(m)

-----------------------------------------------------------------------------
(* The decoders.  p is a message, its type first; offsets count from 0.    *)

\* be16, be32, be48 and be64 of p + offset, for n = 2, 4, 6 and 8.
BigEndian(p, offset, n) ==
  FoldLeft(LAMBDA value, byte : Base * value + byte, 0, SubSeq(p, offset + 1, offset + n))

Symbol(p, offset) == SubSeq(p, offset + 1, offset + 8)

Byte(p, offset) == p[offset + 1]

decode_add_order(p) ==
  [timestamp |-> BigEndian(p, 5, 6), reference |-> BigEndian(p, 11, 8),
   side |-> IF Byte(p, 19) = Ascii.B THEN "bid" ELSE "ask",
   shares |-> BigEndian(p, 20, 4), symbol |-> Symbol(p, 24), price |-> BigEndian(p, 32, 4)]

\* 'C' says at which price, and whether the print counts; 'E' does not.
decode_order_executed(p) ==
  LET priced == Byte(p, 0) = Ascii.C
  IN [timestamp |-> BigEndian(p, 5, 6), reference |-> BigEndian(p, 11, 8),
      shares |-> BigEndian(p, 19, 4), match_number |-> BigEndian(p, 23, 8),
      has_price |-> priced, printable |-> priced => Byte(p, 31) = Ascii.Y,
      price |-> IF priced THEN BigEndian(p, 32, 4) ELSE 0]

decode_order_cancel(p) ==
  [timestamp |-> BigEndian(p, 5, 6), reference |-> BigEndian(p, 11, 8), shares |-> BigEndian(p, 19, 4)]

decode_order_delete(p) ==
  [timestamp |-> BigEndian(p, 5, 6), reference |-> BigEndian(p, 11, 8)]

\* Mutant: the new number comes before the old one.
decode_order_replace_Swapped(p) ==
  [timestamp |-> BigEndian(p, 5, 6), original_reference |-> BigEndian(p, 19, 8),
   new_reference |-> BigEndian(p, 11, 8), shares |-> BigEndian(p, 27, 4), price |-> BigEndian(p, 31, 4)]

decode_order_replace(p) ==
  [timestamp |-> BigEndian(p, 5, 6), original_reference |-> BigEndian(p, 11, 8),
   new_reference |-> BigEndian(p, 19, 8), shares |-> BigEndian(p, 27, 4), price |-> BigEndian(p, 31, 4)]

decode_system_event(p) == [timestamp |-> BigEndian(p, 5, 6), code |-> Byte(p, 11)]

decode_stock_directory(p) ==
  [timestamp |-> BigEndian(p, 5, 6), symbol |-> Symbol(p, 11), market_category |-> Byte(p, 19)]

\* What the message says to a reader that has a decoder for its type; the
\* readers of the repository skip the rest.
Decoded(p) ==
  LET type == Byte(p, 0)
  IN CASE type = Ascii.S -> decode_system_event(p)
       [] type = Ascii.R -> decode_stock_directory(p)
       [] type \in {Ascii.A, Ascii.F} -> decode_add_order(p)
       [] type \in {Ascii.E, Ascii.C} -> decode_order_executed(p)
       [] type = Ascii.X -> decode_order_cancel(p)
       [] type = Ascii.D -> decode_order_delete(p)
       [] type = Ascii.U -> decode_order_replace(p)
       [] OTHER -> <<>>
=============================================================================
