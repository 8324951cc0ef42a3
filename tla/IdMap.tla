------------------------------- MODULE IdMap --------------------------------
(***************************************************************************)
(* include/pricetime/id_map.hpp, OpenAddressMap: open addressing with      *)
(* linear probing in a table of a power of two slots, and deletion by      *)
(* shifting back what follows the hole (no tombstones).                    *)
(*                                                                         *)
(* find, insert, reserve and the beginning of erase are one step each; the *)
(* backward shift of erase_at is a step per slot it looks at.              *)
(***************************************************************************)
EXTENDS Integers, FiniteSets

CONSTANTS
  Ids,              \* order ids (0, the empty-slot sentinel, is not one)
  Values,           \* pointers
  NoValue,          \* nullptr
  Hashes,           \* what hash() may return
  InitialCapacity,  \* kInitialCapacity
  MaxReserve        \* bound: the largest argument of reserve

ASSUME IdsAssumption == 0 \notin Ids
ASSUME NoValueAssumption == NoValue \notin Values
ASSUME HashesAssumption == Hashes \subseteq Nat
ASSUME CapacityAssumption == InitialCapacity \in Nat \ {0}
ASSUME ReserveAssumption == MaxReserve \in Nat

VARIABLES
  hash,       \* the hash function, any one
  slots,      \* slots_
  size,       \* size_
  hole, scan, \* i and j of erase_at, or None
  answer      \* what the last call returned

vars == <<hash, slots, size, hole, scan, answer>>

None == -1
Empty == [key |-> 0, value |-> NoValue]
EmptyTable(n) == [i \in 0..(n - 1) |-> Empty]
Capacity(table) == Cardinality(DOMAIN table)

Init ==
  /\ hash \in [Ids -> Hashes]
  /\ slots = EmptyTable(InitialCapacity)
  /\ size = 0
  /\ hole = None /\ scan = None
  /\ answer = NoValue

\* The slots probing for id i visits: n steps from its ideal slot.
Probe(table, i, n) == (hash[i] + n) % Capacity(table)

\* Where probing for i stops: at i, or at the first empty slot.
Stop(table, i) ==
  LET stops(n) == table[Probe(table, i, n)].key \in {i, 0}
      n == CHOOSE n \in 0..(Capacity(table) - 1) :
             stops(n) /\ \A m \in 0..(n - 1) : ~stops(m)
  IN Probe(table, i, n)

Holds(table, i) == table[Stop(table, i)].key = i

\* One iteration of rehash: a slot of the old table, into the new one.
Moved(new, s) == IF s = Empty THEN new ELSE [new EXCEPT ![Stop(new, s.key)] = s]

\* rehash: the old entries, in the order of their slots, into a new table.
Rehashed(table, n) ==
  LET new[k \in 0..Capacity(table)] ==
        IF k = 0 THEN EmptyTable(n) ELSE Moved(new[k - 1], table[k - 1])
  IN new[Capacity(table)]

Idle == hole = None

Find(i) ==
  /\ Idle
  /\ answer' = slots[Stop(slots, i)].value
  /\ UNCHANGED <<hash, slots, size, hole, scan>>

\* Mutant: the table grows only when it is full.
Grown_WhenFull(table) ==
  IF size + 1 > Capacity(table) THEN Rehashed(table, 2 * Capacity(table)) ELSE table

\* Twice the size at 70% load, whether or not the id turns out to be new.
Grown(table) ==
  IF (size + 1) * 10 >= Capacity(table) * 7
  THEN Rehashed(table, 2 * Capacity(table))
  ELSE table

\* Mutant: an id that is there gets the new pointer.
Insert_Overwrites(i, v) ==
  /\ Idle
  /\ LET table == Grown(slots)
         new == ~Holds(table, i)
     IN /\ slots' = [table EXCEPT ![Stop(table, i)] = [key |-> i, value |-> v]]
        /\ size' = IF new THEN size + 1 ELSE size
        /\ answer' = new
  /\ UNCHANGED <<hash, hole, scan>>

Insert(i, v) ==
  /\ Idle
  /\ LET table == Grown(slots)
         new == ~Holds(table, i)
     IN /\ slots' = IF new THEN [table EXCEPT ![Stop(table, i)] = [key |-> i, value |-> v]]
                           ELSE table
        /\ size' = IF new THEN size + 1 ELSE size
        /\ answer' = new
  /\ UNCHANGED <<hash, hole, scan>>

EraseAbsent(i) ==
  /\ Idle
  /\ ~Holds(slots, i)
  /\ answer' = FALSE
  /\ UNCHANGED <<hash, slots, size, hole, scan>>

\* erase_at empties the slot and begins to look at what follows.
EraseFound(i) ==
  /\ Idle
  /\ Holds(slots, i)
  /\ slots' = [slots EXCEPT ![Stop(slots, i)] = Empty]
  /\ hole' = Stop(slots, i) /\ scan' = Stop(slots, i)
  /\ UNCHANGED <<hash, size, answer>>

Following(j) == (j + 1) % Capacity(slots)

\* How far slot b lies behind slot a, going round.
Offset(a, b) == (b - a) % Capacity(slots)

\* Mutant: slots are compared as if the table did not wrap.
MayFill_NoWrap(j) == hash[slots[j].key] % Capacity(slots) <= hole

\* The entry at j stays reachable if it is moved back into the hole.
MayFill(j) ==
  LET ideal == hash[slots[j].key] % Capacity(slots)
  IN Offset(ideal, hole) <= Offset(ideal, j)

\* Pull the entry back; its slot is the hole now.
ShiftBack ==
  LET j == Following(scan)
  IN /\ ~Idle /\ slots[j] # Empty /\ MayFill(j)
     /\ slots' = [slots EXCEPT ![hole] = slots[j], ![j] = Empty]
     /\ hole' = j /\ scan' = j
     /\ UNCHANGED <<hash, size, answer>>

\* It is better off where it is.
PassOver ==
  LET j == Following(scan)
  IN /\ ~Idle /\ slots[j] # Empty /\ ~MayFill(j)
     /\ scan' = j
     /\ UNCHANGED <<hash, slots, size, hole, answer>>

\* The end of the cluster.
EraseDone ==
  /\ ~Idle /\ slots[Following(scan)] = Empty
  /\ size' = size - 1
  /\ hole' = None /\ scan' = None
  /\ answer' = TRUE
  /\ UNCHANGED <<hash, slots>>

\* The capacities reserve may ask for: n is at most 70% of one of them.
Sizes(n) == {c \in 1..(InitialCapacity + 3 * n) : \E k \in 0..n : c = InitialCapacity * 2^k}

\* The smallest one that is enough, if it is larger than the table.
Reserve(n) ==
  /\ Idle
  /\ \E c \in Sizes(n) :
       /\ c * 7 >= n * 10 /\ \A d \in Sizes(n) : d * 7 >= n * 10 => c <= d
       /\ c > Capacity(slots)
       /\ slots' = Rehashed(slots, c)
  /\ UNCHANGED <<hash, size, hole, scan, answer>>

Next ==
  \/ \E i \in Ids : Find(i) \/ EraseAbsent(i) \/ EraseFound(i)
  \/ \E i \in Ids, v \in Values : Insert(i, v)
  \/ ShiftBack \/ PassOver \/ EraseDone
  \/ \E n \in 1..MaxReserve : Reserve(n)

Spec == Init /\ [][Next]_vars

-----------------------------------------------------------------------------
(* Properties                                                              *)

Keys == {slots[k].key : k \in DOMAIN slots} \ {0}

\* Between calls every entry is found from its ideal slot: no empty slot lies
\* on the way, across the wrap-around either, after any history of inserts,
\* erases and growth; and no id is in the table twice.  At all times enough
\* slots are empty for probing and shifting to end.
Reachable ==
  /\ size * 10 < Capacity(slots) * 7
  /\ Idle => /\ \A k \in DOMAIN slots : slots[k] # Empty => Stop(slots, slots[k].key) = k
             /\ size = Cardinality(Keys)

\* The entries of the table, as a function; an erase takes effect when its
\* slot is emptied and answers when the shift is over.
Contents ==
  [i \in Ids |->
     IF i \in Keys THEN slots[CHOOSE k \in DOMAIN slots : slots[k].key = i].value
                   ELSE NoValue]

Map == INSTANCE PartialMap WITH map <- Contents, answer <- IF Idle THEN answer ELSE TRUE

\* Whatever was inserted, moved and erased before, every call answers as a
\* partial function would.
ImplementsMap == Map!Spec
=============================================================================
