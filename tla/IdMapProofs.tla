---------------------------- MODULE IdMapProofs -----------------------------
(***************************************************************************)
(* The open-addressing table is a partial function for every hash function *)
(* and every set of ids, whatever its initial capacity: entries stay where *)
(* probing finds them through growth and through the backward shift of     *)
(* erase, and enough slots stay empty for each of these loops to end.      *)
(*                                                                         *)
(* The slots of a table of n lie on a ring.  Its arithmetic comes first:   *)
(* Step goes forward, Dist says how far, and all else is told in terms of  *)
(* these two.                                                              *)
(***************************************************************************)
EXTENDS IdMap, SequenceFacts, FiniteSetTheorems

-----------------------------------------------------------------------------
(* The ring.                                                               *)

Ring(n) == 0..(n - 1)

\* The slot k steps after a.
Step(n, a, k) == IF a + k < n THEN a + k ELSE a + k - n

\* The steps from a to b.
Dist(n, a, b) == IF a <= b THEN b - a ELSE b - a + n

\* x divided by n is q, and r remains.
Divides(x, n, q, r) == x = q * n + r

\* A number is known by its quotient and its remainder.
LEMMA RemainderIs ==
  ASSUME NEW n \in Nat \ {0}, NEW q \in Int, NEW r \in Ring(n), NEW x \in Int, Divides(x, n, q, r)
  PROVE  x % n = r
<1>1. PICK d \in Int, s \in Ring(n) : d = x \div n /\ s = x % n
  BY DEF Ring
<1>2. x = n * (x \div n) + (x % n)
  OBVIOUS
<1>3. x = n * d + s
  BY <1>1, <1>2
<1>4. PICK g \in Int : g = q - d
  OBVIOUS
<1>5. s - r = g * n
  BY <1>1, <1>3, <1>4 DEF Ring, Divides
<1>6. CASE g = 0
  BY <1>1, <1>5, <1>6 DEF Ring
<1>7. CASE g > 0
  <2>1. g * n >= n
    BY <1>7
  <2> QED BY <1>1, <1>5, <2>1 DEF Ring
<1>8. CASE g < 0
  <2>1. g * n <= -n
    BY <1>8
  <2> QED BY <1>1, <1>5, <2>1 DEF Ring
<1> QED BY <1>6, <1>7, <1>8

\* Remainders of what is hardly out of range.
LEMMA RemainderNear ==
  ASSUME NEW n \in Nat \ {0}, NEW x \in Int
  PROVE  /\ x \in Ring(n) => x % n = x
         /\ x - n \in Ring(n) => x % n = x - n
         /\ x + n \in Ring(n) => x % n = x + n
         /\ x % n \in Ring(n)
<1>1. x \in Ring(n) => x % n = x
  <2>1. 0 \in Int /\ Divides(x, n, 0, x)
    BY DEF Divides
  <2> QED BY <2>1, RemainderIs
<1>2. x - n \in Ring(n) => x % n = x - n
  <2>1. PICK r \in Int : r = x - n
    OBVIOUS
  <2>2. 1 \in Int /\ Divides(x, n, 1, r)
    BY <2>1 DEF Divides
  <2> QED BY <2>1, <2>2, RemainderIs
<1>3. x + n \in Ring(n) => x % n = x + n
  <2>1. PICK r \in Int : r = x + n
    OBVIOUS
  <2>2. -1 \in Int /\ Divides(x, n, -1, r)
    BY <2>1 DEF Divides
  <2> QED BY <2>1, <2>2, RemainderIs
<1>4. x % n \in Ring(n)
  BY DEF Ring
<1> QED BY <1>1, <1>2, <1>3, <1>4

\* The remainder of a sum.
LEMMA RemainderSum ==
  ASSUME NEW n \in Nat \ {0}, NEW h \in Int, NEW k \in Ring(n)
  PROVE  (h + k) % n = Step(n, h % n, k)
<1>1. PICK q \in Int, a \in Ring(n) : q = h \div n /\ a = h % n
  BY DEF Ring
<1>2. h = n * (h \div n) + (h % n)
  OBVIOUS
<1>3. h + k = q * n + (a + k)
  BY <1>1, <1>2 DEF Ring
<1>4. PICK x \in Int : x = h + k
  BY DEF Ring
<1>5. CASE a + k < n
  <2>1. PICK r \in Ring(n) : r = a + k
    <3>1. a + k \in Ring(n)
      BY <1>1, <1>5 DEF Ring
    <3> QED BY <3>1
  <2>2. Divides(x, n, q, r)
    BY <1>3, <1>4, <2>1 DEF Divides
  <2>3. x % n = r
    BY <1>1, <1>4, <2>1, <2>2, RemainderIs
  <2> QED BY <1>1, <1>4, <1>5, <2>1, <2>3 DEF Step
<1>6. CASE ~(a + k < n)
  <2>1. PICK r \in Ring(n), p \in Int : r = a + k - n /\ p = q + 1
    BY <1>1, <1>6 DEF Ring
  <2>2. Divides(x, n, p, r)
    BY <1>1, <1>3, <1>4, <2>1 DEF Divides, Ring
  <2>3. x % n = r
    BY <1>4, <2>1, <2>2, RemainderIs
  <2> QED BY <1>1, <1>4, <1>6, <2>1, <2>3 DEF Step
<1> QED BY <1>5, <1>6

\* Going forward and measuring belong together.
LEMMA RingFacts ==
  ASSUME NEW n \in Nat \ {0}, NEW a \in Ring(n), NEW b \in Ring(n)
  PROVE  /\ Step(n, a, b) \in Ring(n) /\ Dist(n, a, b) \in Ring(n)
         /\ Step(n, a, Dist(n, a, b)) = b /\ Dist(n, a, Step(n, a, b)) = b
         /\ Dist(n, a, b) = 0 <=> a = b
         /\ Step(n, a, 1) = IF a = n - 1 THEN 0 ELSE a + 1
  BY DEF Ring, Step, Dist

\* Equally far is the same slot.
LEMMA DistInjective ==
  ASSUME NEW n \in Nat \ {0}, NEW a \in Ring(n), NEW b \in Ring(n), NEW c \in Ring(n),
         Dist(n, a, b) = Dist(n, a, c)
  PROVE  b = c
  BY DEF Ring, Dist

\* The slot after b is a step farther, unless that is where one started.
LEMMA DistNext ==
  ASSUME NEW n \in Nat \ {0}, NEW a \in Ring(n), NEW b \in Ring(n)
  PROVE  /\ Step(n, b, 1) \in Ring(n)
         /\ Step(n, b, 1) = a => Dist(n, a, b) = n - 1
         /\ Step(n, b, 1) # a => Dist(n, a, Step(n, b, 1)) = Dist(n, a, b) + 1
  BY DEF Ring, Dist, Step

\* What lies on the way from a slot h to b lies on the way from a to b if h does.
LEMMA DistBefore ==
  ASSUME NEW n \in Nat \ {0}, NEW a \in Ring(n), NEW b \in Ring(n), NEW c \in Ring(n),
         NEW h \in Ring(n), Dist(n, a, h) < Dist(n, a, b), Dist(n, h, c) < Dist(n, h, b)
  PROVE  Dist(n, a, c) < Dist(n, a, b)
  BY DEF Ring, Dist

-----------------------------------------------------------------------------
(* Tables.                                                                 *)

Entry == [key : Ids, value : Values]

TableOf(n) == [Ring(n) -> Entry \cup {Empty}]

\* The id is found from here on.
Ideal(n, i) == hash[i] % n

\* Probing from a reaches b without stopping at an empty slot.
Filled(table, n, a, b) ==
  \A m \in Ring(n) : Dist(n, a, m) < Dist(n, a, b) => table[m] # Empty

\* Every id is in one slot at most.
Unique(table, n) ==
  \A j, k \in Ring(n) : table[j] # Empty /\ table[j].key = table[k].key => j = k

\* A table in order.
Ordered(table, n) ==
  /\ table \in TableOf(n) /\ Unique(table, n)
  /\ \A k \in Ring(n) : table[k] # Empty => Filled(table, n, Ideal(n, table[k].key), k)

Used(table, n) == {k \in Ring(n) : table[k] # Empty}

HashInv == hash \in [Ids -> Hashes]

\* Ideal slots are slots; an entry is not the empty slot.
LEMMA IdealIsSlot ==
  ASSUME HashInv, NEW n \in Nat \ {0}, NEW i \in Ids
  PROVE  Ideal(n, i) \in Ring(n) /\ hash[i] \in Int /\ i # 0
<1>1. hash[i] \in Nat
  BY HashesAssumption DEF HashInv
<1>2. hash[i] % n \in Ring(n)
  BY <1>1, RemainderNear
<1> QED BY <1>1, <1>2, IdsAssumption DEF Ideal

LEMMA EntryOrEmpty ==
  ASSUME NEW n \in Nat \ {0}, NEW table \in TableOf(n), NEW k \in Ring(n)
  PROVE  /\ table[k] # Empty => table[k] \in Entry /\ table[k].key \in Ids /\ table[k].value \in Values
         /\ table[k].key = 0 <=> table[k] = Empty
         /\ table[k].key \in Ids \cup {0}
  BY IdsAssumption DEF TableOf, Entry, Empty

LEMMA CapacityIs ==
  ASSUME NEW n \in Nat \ {0}, NEW table \in TableOf(n)
  PROVE  Capacity(table) = n
<1>1. DOMAIN table = 0..(n - 1)
  BY DEF TableOf, Ring
<1>2. n - 1 \in Int /\ 0 \in Int /\ ~(0 > n - 1) /\ (n - 1) - 0 + 1 = n
  OBVIOUS
<1>3. Cardinality(0..(n - 1)) = n
  BY <1>2, FS_Interval
<1> QED BY <1>1, <1>3 DEF Capacity

\* Where probing stops, in a table with an empty slot: at the id if it is
\* there, at an empty slot otherwise, and nothing before it is empty.
LEMMA StopIs ==
  ASSUME HashInv, NEW n \in Nat \ {0}, NEW table, Ordered(table, n),
         NEW e \in Ring(n), table[e] = Empty, NEW i \in Ids
  PROVE  /\ Stop(table, i) \in Ring(n)
         /\ table[Stop(table, i)] = Empty \/ table[Stop(table, i)].key = i
         /\ Filled(table, n, Ideal(n, i), Stop(table, i))
         /\ \A k \in Ring(n) : table[k].key = i => k = Stop(table, i)
<1> DEFINE a == Ideal(n, i)
           Stops(d) == table[Step(n, a, d)].key \in {i, 0}
           D == {d \in Ring(n) : Stops(d)}
<1>1. table \in TableOf(n) /\ a \in Ring(n) /\ i # 0 /\ hash[i] \in Int
  BY IdealIsSlot DEF Ordered
<1>2. Capacity(table) = n
  BY <1>1, CapacityIs
<1>3. \A d \in Ring(n) : Probe(table, i, d) = Step(n, a, d)
  <2>1. \A d \in Ring(n) : (hash[i] + d) % n = Step(n, hash[i] % n, d)
    BY <1>1, RemainderSum
  <2> QED BY <1>2, <2>1 DEF Probe, Ideal
<1>4. Dist(n, a, e) \in D
  <2>1. Dist(n, a, e) \in Ring(n) /\ Step(n, a, Dist(n, a, e)) = e
    BY <1>1, RingFacts
  <2> QED BY <2>1 DEF Empty
<1>5. PICK x \in D : \A y \in D : x <= y
  <2>1. D \in SUBSET Nat
    BY DEF Ring
  <2> HIDE DEF D
  <2> QED BY <1>4, <2>1, Least
<1>6. x \in Ring(n) /\ Stops(x) /\ \A m \in Ring(n) : m < x => ~Stops(m)
  BY <1>5 DEF Ring
<1> HIDE DEF D
<1> DEFINE stops(d) == table[Probe(table, i, d)].key \in {i, 0}
           y == CHOOSE d \in 0..(Capacity(table) - 1) :
                  stops(d) /\ \A m \in 0..(d - 1) : ~stops(m)
<1>7. \A d \in Ring(n) : stops(d) <=> Stops(d)
  BY <1>3
<1>8. x \in 0..(Capacity(table) - 1) /\ stops(x) /\ \A m \in 0..(x - 1) : ~stops(m)
  <2>1. \A m \in 0..(x - 1) : m \in Ring(n) /\ m < x
    BY <1>6 DEF Ring
  <2> QED BY <1>2, <1>6, <1>7, <2>1 DEF Ring
<1>9. y \in Ring(n) /\ stops(y) /\ \A m \in 0..(y - 1) : ~stops(m)
  <2> HIDE DEF stops
  <2> QED BY <1>2, <1>8 DEF Ring
<1>10. Stop(table, i) = Probe(table, i, y)
  BY DEF Stop
<1> HIDE DEF y
<1>11. PICK s \in Ring(n) : s = Step(n, a, y) /\ s = Stop(table, i) /\ Dist(n, a, s) = y
  <2>1. Step(n, a, y) \in Ring(n) /\ Dist(n, a, Step(n, a, y)) = y
    BY <1>1, <1>9, RingFacts
  <2> QED BY <1>3, <1>9, <1>10, <2>1
<1>12. table[s].key \in {i, 0}
  BY <1>7, <1>9, <1>11
<1>13. table[s] = Empty \/ table[s].key = i
  BY <1>1, <1>12, EntryOrEmpty
<1>14. ASSUME NEW m \in Ring(n), Dist(n, a, m) < y
       PROVE  table[m].key \notin {i, 0}
  <2>1. Dist(n, a, m) \in Ring(n) /\ Step(n, a, Dist(n, a, m)) = m
    BY <1>1, RingFacts
  <2>2. Dist(n, a, m) \in 0..(y - 1)
    BY <1>9, <1>14, <2>1 DEF Ring
  <2>3. ~Stops(Dist(n, a, m))
    BY <1>7, <1>9, <2>1, <2>2
  <2> QED BY <2>1, <2>3
<1>15. Filled(table, n, a, s)
  BY <1>11, <1>14 DEF Filled, Empty
<1>16. ASSUME NEW k \in Ring(n), table[k].key = i
       PROVE  k = s
  <2>1. table[k] # Empty
    BY <1>1, <1>16 DEF Empty
  <2>2. Filled(table, n, a, k)
    BY <1>16, <2>1 DEF Ordered
  <2>3. ~(Dist(n, a, k) < y)
    BY <1>14, <1>16
  <2>4. CASE Dist(n, a, k) = y
    BY <1>1, <1>11, <2>4, DistInjective
  <2>5. CASE Dist(n, a, k) # y
    <3>1. Dist(n, a, s) < Dist(n, a, k)
      <4>1. Dist(n, a, k) \in Ring(n)
        BY <1>1, RingFacts
      <4> QED BY <1>9, <1>11, <2>3, <2>5, <4>1 DEF Ring
    <3>2. table[s] # Empty
      BY <2>2, <3>1 DEF Filled
    <3>3. table[s].key = table[k].key
      BY <1>13, <1>16, <3>2
    <3> QED BY <3>2, <3>3 DEF Ordered, Unique
  <2> QED BY <2>4, <2>5
<1> QED BY <1>11, <1>13, <1>15, <1>16

\* Some slot of the table has this entry.
Has(table, n, e) == \E k \in Ring(n) : table[k] = e

\* Slots that are used are finitely many, and fewer than all when one is free.
LEMMA UsedFinite ==
  ASSUME NEW n \in Nat \ {0}, NEW table
  PROVE  /\ IsFiniteSet(Used(table, n)) /\ Cardinality(Used(table, n)) \in Nat
         /\ Cardinality(Used(table, n)) < n => \E e \in Ring(n) : table[e] = Empty
<1>1. n - 1 \in Int /\ 0 \in Int /\ ~(0 > n - 1) /\ (n - 1) - 0 + 1 = n
  OBVIOUS
<1>2. IsFiniteSet(Ring(n)) /\ Cardinality(Ring(n)) = n
  BY <1>1, FS_Interval DEF Ring
<1>3. Used(table, n) \in SUBSET Ring(n)
  BY DEF Used
<1>4. IsFiniteSet(Used(table, n))
  BY <1>2, <1>3, FS_Subset
<1>5. Cardinality(Used(table, n)) \in Nat
  BY <1>4, FS_CardinalityType
<1>6. ASSUME Cardinality(Used(table, n)) < n, ~ \E e \in Ring(n) : table[e] = Empty
      PROVE  FALSE
  <2>1. Used(table, n) = Ring(n)
    BY <1>6 DEF Used
  <2> QED BY <1>2, <1>5, <1>6, <2>1
<1> QED BY <1>4, <1>5, <1>6

\* An empty table is in order.
LEMMA EmptyOrdered ==
  ASSUME NEW n \in Nat \ {0}
  PROVE  /\ Ordered(EmptyTable(n), n)
         /\ Used(EmptyTable(n), n) = {} /\ \A e \in Entry : ~Has(EmptyTable(n), n, e)
<1>1. \A k \in Ring(n) : EmptyTable(n)[k] = Empty
  BY DEF EmptyTable, Ring
<1>2. EmptyTable(n) \in TableOf(n)
  BY DEF EmptyTable, TableOf, Ring
<1>3. Empty \notin Entry
  BY IdsAssumption DEF Empty, Entry
<1> QED BY <1>1, <1>2, <1>3 DEF Ordered, Unique, Used, Has

\* The table with the entry e in slot s.
Placed(table, s, e) == [table EXCEPT ![s] = e]

Absent(table, n, i) == \A k \in Ring(n) : table[k].key # i

\* Putting an entry where probing for it stopped.
LEMMA PlaceKeeps ==
  ASSUME HashInv, NEW n \in Nat \ {0}, NEW table, Ordered(table, n), NEW s \in Ring(n),
         table[s] = Empty, NEW e \in Entry, Absent(table, n, e.key),
         Filled(table, n, Ideal(n, e.key), s)
  PROVE  /\ Ordered(Placed(table, s, e), n)
         /\ Used(Placed(table, s, e), n) = Used(table, n) \cup {s} /\ s \notin Used(table, n)
         /\ \A x \in Entry : Has(Placed(table, s, e), n, x) <=> Has(table, n, x) \/ x = e
<1> DEFINE new == Placed(table, s, e)
<1>1. table \in TableOf(n) /\ e.key \in Ids /\ e # Empty
  BY IdsAssumption DEF Ordered, Entry, Empty
<1>2. \A k \in Ring(n) : new[k] = IF k = s THEN e ELSE table[k]
  BY <1>1 DEF TableOf, Placed
<1>3. new \in TableOf(n)
  BY <1>1 DEF TableOf, Placed
<1> HIDE DEF new
<1>4. Unique(new, n)
  BY <1>1, <1>2 DEF Ordered, Unique, Absent
<1>5. \A k \in Ring(n) : new[k] = Empty => table[k] = Empty
  BY <1>1, <1>2
<1>6. ASSUME NEW k \in Ring(n), new[k] # Empty
      PROVE  Filled(new, n, Ideal(n, new[k].key), k)
  <2>1. Filled(table, n, Ideal(n, new[k].key), k)
    BY <1>2, <1>6 DEF Ordered
  <2> QED BY <1>5, <2>1 DEF Filled
<1>7. Used(new, n) = Used(table, n) \cup {s} /\ s \notin Used(table, n)
  BY <1>1, <1>2 DEF Used
<1>8. ASSUME NEW x \in Entry PROVE Has(new, n, x) <=> Has(table, n, x) \/ x = e
  <2>1. x # Empty
    BY IdsAssumption DEF Entry, Empty
  <2> QED BY <1>2, <2>1 DEF Has
<1> QED BY <1>3, <1>4, <1>6, <1>7, <1>8 DEF Ordered, new

\* There is a function that rehashes step by step.
Moving(old, o, n, f) ==
  f = [k \in 0..o |-> IF k = 0 THEN EmptyTable(n) ELSE Moved(f[k - 1], old[k - 1])]

LEMMA MovingExists ==
  ASSUME NEW old, NEW o \in Nat, NEW n
  PROVE  \E f : Moving(old, o, n, f)
<1> DEFINE B == {m \in 0..o : ~ \E f : Moving(old, m, n, f)}
<1> SUFFICES ASSUME B # {} PROVE FALSE
  OBVIOUS
<1>1. PICK m \in B : \A l \in B : m <= l
  <2>1. B \in SUBSET Nat
    OBVIOUS
  <2> HIDE DEF B
  <2> QED BY <2>1, Least
<1>2. m \in 0..o /\ ~ \E f : Moving(old, m, n, f)
  OBVIOUS
<1>3. CASE m = 0
  <2> DEFINE g == [k \in 0..0 |-> EmptyTable(n)]
  <2>1. g = [k \in 0..0 |-> IF k = 0 THEN EmptyTable(n) ELSE Moved(g[k - 1], old[k - 1])]
    OBVIOUS
  <2> QED BY <1>2, <1>3, <2>1 DEF Moving
<1>4. CASE m # 0
  <2>1. m - 1 \in 0..o /\ ~(m <= m - 1)
    BY <1>2, <1>4
  <2>2. m - 1 \notin B
    BY <1>1, <2>1
  <2>3. PICK f : Moving(old, m - 1, n, f)
    BY <2>1, <2>2
  <2> DEFINE g == [k \in 0..m |-> IF k = m THEN Moved(f[m - 1], old[m - 1]) ELSE f[k]]
  <2>4. \A k \in 0..(m - 1) :
          f[k] = IF k = 0 THEN EmptyTable(n) ELSE Moved(f[k - 1], old[k - 1])
    BY <2>3 DEF Moving
  <2>5. ASSUME NEW k \in 0..m
        PROVE  g[k] = IF k = 0 THEN EmptyTable(n) ELSE Moved(g[k - 1], old[k - 1])
    <3>1. CASE k = 0
      BY <1>2, <1>4, <2>4, <3>1
    <3>2. CASE k # 0
      <4>1. k - 1 \in 0..m /\ k - 1 # m /\ g[k - 1] = f[k - 1]
        BY <1>2, <3>2
      <4>2. CASE k = m
        BY <3>2, <4>1, <4>2
      <4>3. CASE k # m
        <5>1. k \in 0..(m - 1) /\ g[k] = f[k]
          BY <1>2, <4>3
        <5> QED BY <2>4, <3>2, <4>1, <5>1
      <4> QED BY <4>2, <4>3
    <3> QED BY <3>1, <3>2
  <2>6. Moving(old, m, n, g)
    BY <2>5 DEF Moving
  <2> QED BY <1>2, <2>6
<1> QED BY <1>3, <1>4

\* The used slots before slot k.
Before(old, o, k) == {j \in Used(old, o) : j < k}

\* The table new holds what the first k slots of old do.
Rebuilt(old, o, k, new, n) ==
  /\ Ordered(new, n)
  /\ Cardinality(Used(new, n)) = Cardinality(Before(old, o, k))
  /\ \A e \in Entry : Has(new, n, e) <=> \E j \in Ring(o) : j < k /\ old[j] = e

\* One iteration of rehash.
LEMMA MovedKeeps ==
  ASSUME HashInv, NEW o \in Nat \ {0}, NEW n \in Nat \ {0}, NEW old, Ordered(old, o),
         Cardinality(Used(old, o)) < n, NEW j \in Ring(o), NEW new, Rebuilt(old, o, j, new, n)
  PROVE  Rebuilt(old, o, j + 1, Moved(new, old[j]), n)
<1>1. IsFiniteSet(Used(old, o)) /\ Cardinality(Used(old, o)) \in Nat
  BY UsedFinite
<1>2. Before(old, o, j) \in SUBSET Used(old, o)
  BY DEF Before
<1>3. /\ IsFiniteSet(Before(old, o, j)) /\ Cardinality(Before(old, o, j)) \in Nat
      /\ Cardinality(Before(old, o, j)) <= Cardinality(Used(old, o))
  BY <1>1, <1>2, FS_Subset, FS_CardinalityType
<1>4. \A i \in Ring(o) : i < j + 1 <=> i < j \/ i = j
  BY DEF Ring
<1>5. old \in TableOf(o)
  BY DEF Ordered
<1>6. CASE old[j] = Empty
  <2>1. Moved(new, old[j]) = new
    BY <1>6 DEF Moved
  <2>2. Before(old, o, j + 1) = Before(old, o, j)
    BY <1>4, <1>6 DEF Before, Used
  <2>3. \A e \in Entry : e # old[j]
    BY <1>6, IdsAssumption DEF Entry, Empty
  <2>4. ASSUME NEW e \in Entry
        PROVE  (\E i \in Ring(o) : i < j + 1 /\ old[i] = e) <=> (\E i \in Ring(o) : i < j /\ old[i] = e)
    BY <1>4, <2>3
  <2> QED BY <2>1, <2>2, <2>4 DEF Rebuilt
<1>7. CASE old[j] # Empty
  <2>1. PICK e \in Entry : e = old[j] /\ e.key \in Ids
    BY <1>5, <1>7, EntryOrEmpty
  <2>2. Ordered(new, n) /\ new \in TableOf(n)
    BY DEF Rebuilt, Ordered
  <2>3. PICK f \in Ring(n) : new[f] = Empty
    <3>1. Cardinality(Used(new, n)) < n
      BY <1>1, <1>3 DEF Rebuilt
    <3> QED BY <3>1, UsedFinite
  <2>4. Absent(new, n, e.key)
    <3> SUFFICES ASSUME NEW k \in Ring(n), new[k].key = e.key PROVE FALSE
      BY DEF Absent
    <3>1. new[k] # Empty
      BY <2>1, IdsAssumption DEF Empty
    <3>2. PICK x \in Entry : x = new[k]
      BY <2>2, <3>1, EntryOrEmpty
    <3>3. Has(new, n, x)
      BY <3>2 DEF Has
    <3>4. PICK i \in Ring(o) : i < j /\ old[i] = x
      BY <3>3 DEF Rebuilt
    <3>5. old[i].key = old[j].key /\ i # j
      BY <2>1, <3>2, <3>4 DEF Ring
    <3> QED BY <1>7, <3>5 DEF Ordered, Unique
  <2>5. PICK s \in Ring(n) : /\ s = Stop(new, e.key)
                             /\ new[s] = Empty \/ new[s].key = e.key
                             /\ Filled(new, n, Ideal(n, e.key), s)
    BY <2>1, <2>2, <2>3, StopIs
  <2>6. new[s] = Empty
    BY <2>4, <2>5 DEF Absent
  <2>7. PICK made : made = Placed(new, s, e) /\ made = Moved(new, old[j])
    BY <1>7, <2>1, <2>5 DEF Moved, Placed
  <2>8. /\ Ordered(made, n)
        /\ Used(made, n) = Used(new, n) \cup {s} /\ s \notin Used(new, n)
        /\ \A x \in Entry : Has(made, n, x) <=> Has(new, n, x) \/ x = e
    <3>1. n \in Nat \ {0} /\ Ordered(new, n) /\ s \in Ring(n) /\ e \in Entry
      BY <2>2
    <3>2. new[s] = Empty /\ Absent(new, n, e.key) /\ Filled(new, n, Ideal(n, e.key), s)
      BY <2>4, <2>5, <2>6
    <3>3. /\ Ordered(Placed(new, s, e), n)
          /\ Used(Placed(new, s, e), n) = Used(new, n) \cup {s} /\ s \notin Used(new, n)
          /\ \A x \in Entry : Has(Placed(new, s, e), n, x) <=> Has(new, n, x) \/ x = e
      BY <3>1, <3>2, PlaceKeeps
    <3> QED BY <2>7, <3>3
  <2>9. Cardinality(Used(made, n)) = Cardinality(Before(old, o, j + 1))
    <3>1. Before(old, o, j + 1) = Before(old, o, j) \cup {j} /\ j \notin Before(old, o, j)
      BY <1>4, <1>7 DEF Before, Used, Ring
    <3>2. Cardinality(Before(old, o, j + 1)) = Cardinality(Before(old, o, j)) + 1
      BY <1>3, <3>1, FS_AddElement
    <3>3. Cardinality(Used(made, n)) = Cardinality(Used(new, n)) + 1
      BY <2>8, UsedFinite, FS_AddElement
    <3> QED BY <3>2, <3>3 DEF Rebuilt
  <2>10. ASSUME NEW x \in Entry
         PROVE  Has(made, n, x) <=> \E i \in Ring(o) : i < j + 1 /\ old[i] = x
    <3>1. Has(new, n, x) <=> \E i \in Ring(o) : i < j /\ old[i] = x
      BY DEF Rebuilt
    <3> QED BY <1>4, <2>1, <2>8, <3>1
  <2> QED BY <2>7, <2>8, <2>9, <2>10 DEF Rebuilt
<1> QED BY <1>6, <1>7

\* Growing keeps every entry, and each where it is found.
LEMMA RehashKeeps ==
  ASSUME HashInv, NEW o \in Nat \ {0}, NEW n \in Nat \ {0}, NEW old, Ordered(old, o),
         Cardinality(Used(old, o)) < n
  PROVE  /\ Ordered(Rehashed(old, n), n)
         /\ Cardinality(Used(Rehashed(old, n), n)) = Cardinality(Used(old, o))
         /\ \A e \in Entry : Has(Rehashed(old, n), n, e) <=> Has(old, o, e)
<1> DEFINE new == CHOOSE f : Moving(old, o, n, f)
<1>1. Moving(old, o, n, new)
  <2>1. \E f : Moving(old, o, n, f)
    BY MovingExists
  <2> QED BY <2>1
<1>2. Rehashed(old, n) = new[o]
  <2>1. Capacity(old) = o
    BY CapacityIs DEF Ordered
  <2> QED BY <2>1 DEF Rehashed, Moving
<1> HIDE DEF new
<1>3. \A k \in 0..o : new[k] = IF k = 0 THEN EmptyTable(n) ELSE Moved(new[k - 1], old[k - 1])
  BY <1>1 DEF Moving
<1> DEFINE B == {k \in 0..o : ~Rebuilt(old, o, k, new[k], n)}
<1>4. B = {}
  <2> SUFFICES ASSUME B # {} PROVE FALSE
    OBVIOUS
  <2>1. PICK k \in B : \A l \in B : k <= l
    <3>1. B \in SUBSET Nat
      OBVIOUS
    <3> HIDE DEF B
    <3> QED BY <3>1, Least
  <2>2. CASE k = 0
    <3>1. new[0] = EmptyTable(n)
      BY <1>3
    <3>2. Before(old, o, 0) = {}
      BY DEF Before, Used, Ring
    <3>3. \A j \in Ring(o) : ~(j < 0)
      BY DEF Ring
    <3>4. Rebuilt(old, o, 0, new[0], n)
      BY <3>1, <3>2, <3>3, EmptyOrdered DEF Rebuilt
    <3> QED BY <2>1, <2>2, <3>4
  <2>3. CASE k # 0
    <3>1. k - 1 \in 0..o /\ ~(k <= k - 1) /\ k - 1 \in Ring(o) /\ (k - 1) + 1 = k
      BY <2>1, <2>3 DEF Ring
    <3>2. k - 1 \notin B
      BY <2>1, <3>1
    <3>3. Rebuilt(old, o, k - 1, new[k - 1], n)
      BY <3>1, <3>2
    <3>4. PICK j \in Ring(o) : j = k - 1
      BY <3>1
    <3>5. Rebuilt(old, o, j + 1, Moved(new[j], old[j]), n)
      BY <3>3, <3>4, MovedKeeps
    <3>6. new[k] = Moved(new[j], old[j])
      BY <1>3, <2>1, <2>3, <3>4
    <3> QED BY <2>1, <3>1, <3>4, <3>5, <3>6
  <2> QED BY <2>2, <2>3
<1>5. Rebuilt(old, o, o, new[o], n)
  <2>1. o \in 0..o
    OBVIOUS
  <2> QED BY <1>4, <2>1
<1>6. Before(old, o, o) = Used(old, o) /\ \A j \in Ring(o) : j < o
  BY DEF Before, Used, Ring
<1> QED BY <1>2, <1>5, <1>6 DEF Rebuilt, Has

-----------------------------------------------------------------------------
(* The backward shift.                                                     *)

\* A table with a hole at h, looked at up to c: what lies between is used, and
\* only what lies behind c may be missing the hole on its way.
Shifting(table, n, h, c) ==
  /\ table \in TableOf(n) /\ Unique(table, n)
  /\ h \in Ring(n) /\ c \in Ring(n) /\ table[h] = Empty
  /\ \A m \in Ring(n) : m # h /\ Dist(n, h, m) <= Dist(n, h, c) => table[m] # Empty
  /\ \A k, m \in Ring(n) :
       /\ table[k] # Empty /\ table[m] = Empty
       /\ Dist(n, Ideal(n, table[k].key), m) < Dist(n, Ideal(n, table[k].key), k)
       => m = h /\ Dist(n, h, c) < Dist(n, h, k)

\* The same entries, in equally many slots.
SameEntries(new, table, n) ==
  /\ Cardinality(Used(new, n)) = Cardinality(Used(table, n))
  /\ \A x \in Entry : Has(new, n, x) <=> Has(table, n, x)

\* A slot with its key in it is no more, a hole is.
LEMMA EmptyingKeeps ==
  ASSUME HashInv, NEW n \in Nat \ {0}, NEW table, Ordered(table, n),
         NEW s \in Ring(n), table[s] # Empty
  PROVE  /\ Shifting(Placed(table, s, Empty), n, s, s)
         /\ Cardinality(Used(table, n)) = Cardinality(Used(Placed(table, s, Empty), n)) + 1
         /\ \A x \in Entry : Has(Placed(table, s, Empty), n, x) <=> Has(table, n, x) /\ x # table[s]
<1> DEFINE new == Placed(table, s, Empty)
<1>1. table \in TableOf(n)
  BY DEF Ordered
<1>2. \A k \in Ring(n) : new[k] = IF k = s THEN Empty ELSE table[k]
  BY <1>1 DEF TableOf, Placed
<1>3. new \in TableOf(n)
  BY <1>1 DEF TableOf, Placed
<1> HIDE DEF new
<1>4. Unique(new, n)
  <2>1. \A k \in Ring(n) : new[k] # Empty => table[k] # Empty /\ new[k] = table[k] /\ new[k].key # Empty.key
    <3>1. Empty.key = 0
      BY DEF Empty
    <3>2. \A k \in Ring(n) : table[k] # Empty => table[k].key # 0
      BY <1>1, EntryOrEmpty
    <3> QED BY <1>2, <3>1, <3>2
  <2>2. \A k \in Ring(n) : new[k] = Empty => new[k].key = Empty.key
    OBVIOUS
  <2> QED BY <2>1, <2>2 DEF Ordered, Unique
<1>5. \A m \in Ring(n) : Dist(n, s, m) \in Ring(n) /\ (Dist(n, s, m) = 0 <=> s = m)
  BY DEF Ring, Dist
<1>6. Dist(n, s, s) = 0
  BY DEF Dist, Ring
<1>7. \A m \in Ring(n) : m # s => ~(Dist(n, s, m) <= Dist(n, s, s)) /\ Dist(n, s, s) < Dist(n, s, m)
  BY <1>5, <1>6 DEF Ring
<1>8. ASSUME NEW k \in Ring(n), NEW m \in Ring(n), new[k] # Empty, new[m] = Empty,
             Dist(n, Ideal(n, new[k].key), m) < Dist(n, Ideal(n, new[k].key), k)
      PROVE  m = s /\ k # s
  <2>1. k # s /\ new[k] = table[k]
    BY <1>2, <1>8
  <2>2. table[m] # Empty
    BY <1>8, <2>1 DEF Ordered, Filled
  <2> QED BY <1>2, <1>8, <2>1, <2>2
<1>9. Shifting(new, n, s, s)
  BY <1>2, <1>3, <1>4, <1>7, <1>8 DEF Shifting
<1>10. Used(new, n) = Used(table, n) \ {s} /\ s \in Used(table, n)
  BY <1>2 DEF Used
<1>11. Cardinality(Used(table, n)) = Cardinality(Used(new, n)) + 1
  <2>1. IsFiniteSet(Used(table, n)) /\ Cardinality(Used(table, n)) \in Nat
    BY UsedFinite
  <2>2. Cardinality(Used(table, n) \ {s}) = Cardinality(Used(table, n)) - 1
    BY <1>10, <2>1, FS_RemoveElement
  <2> QED BY <1>10, <2>1, <2>2
<1>12. ASSUME NEW x \in Entry PROVE Has(new, n, x) <=> Has(table, n, x) /\ x # table[s]
  <2>1. x # Empty /\ x.key \in Ids /\ x.key # 0
    BY IdsAssumption DEF Entry, Empty
  <2>2. \A k \in Ring(n) : table[k] = x /\ table[s] = x => k = s
    BY <2>1 DEF Ordered, Unique
  <2> QED BY <1>2, <2>1, <2>2 DEF Has
<1> QED BY <1>9, <1>11, <1>12 DEF new

\* An entry that may fill the hole does, and leaves one where it was.
LEMMA BackKeeps ==
  ASSUME HashInv, NEW n \in Nat \ {0}, NEW table, NEW h \in Ring(n), NEW c \in Ring(n),
         Shifting(table, n, h, c), NEW j \in Ring(n), table[j] # Empty,
         Dist(n, Ideal(n, table[j].key), h) <= Dist(n, Ideal(n, table[j].key), j)
  PROVE  /\ Shifting(Placed(Placed(table, h, table[j]), j, Empty), n, j, j)
         /\ SameEntries(Placed(Placed(table, h, table[j]), j, Empty), table, n)
<1> DEFINE new == Placed(Placed(table, h, table[j]), j, Empty)
<1>1. table \in TableOf(n) /\ table[h] = Empty /\ h # j
  BY DEF Shifting
<1>2. \A k \in Ring(n) : new[k] = IF k = j THEN Empty ELSE IF k = h THEN table[j] ELSE table[k]
  BY <1>1 DEF TableOf, Placed
<1>3. new \in TableOf(n)
  BY <1>1 DEF TableOf, Placed
<1> HIDE DEF new
<1>4. Unique(new, n)
  BY <1>1, <1>2 DEF Shifting, Unique
<1>5. \A m \in Ring(n) : m # j => ~(Dist(n, j, m) <= Dist(n, j, j)) /\ Dist(n, j, j) < Dist(n, j, m)
  <2>1. \A m \in Ring(n) : Dist(n, j, m) \in Ring(n) /\ (Dist(n, j, m) = 0 <=> j = m)
    BY DEF Ring, Dist
  <2> QED BY <2>1 DEF Ring
<1>6. ASSUME NEW k \in Ring(n), NEW m \in Ring(n), new[k] # Empty, new[m] = Empty,
             Dist(n, Ideal(n, new[k].key), m) < Dist(n, Ideal(n, new[k].key), k), m # j
      PROVE  FALSE
  <2>1. m # h /\ table[m] = Empty /\ k # j
    BY <1>2, <1>6
  <2>2. CASE k # h
    BY <1>2, <1>6, <2>1, <2>2 DEF Shifting
  <2>3. CASE k = h
    <3>1. PICK a \in Ring(n) : a = Ideal(n, table[j].key)
      <4>1. table[j].key \in Ids
        BY <1>1, EntryOrEmpty
      <4> QED BY <4>1, IdealIsSlot
    <3>2. new[k] = table[j]
      BY <1>1, <1>2, <2>3
    <3>3. Dist(n, a, m) < Dist(n, a, h) /\ Dist(n, a, h) <= Dist(n, a, j)
      BY <1>6, <2>3, <3>1, <3>2
    <3>4. Dist(n, a, m) \in Ring(n) /\ Dist(n, a, h) \in Ring(n) /\ Dist(n, a, j) \in Ring(n)
      BY RingFacts
    <3>5. Dist(n, a, m) < Dist(n, a, j)
      BY <3>3, <3>4 DEF Ring
    <3> QED BY <2>1, <3>1, <3>5 DEF Shifting
  <2> QED BY <2>2, <2>3
<1>7. Shifting(new, n, j, j)
  BY <1>2, <1>3, <1>4, <1>5, <1>6 DEF Shifting
<1>8. Cardinality(Used(new, n)) = Cardinality(Used(table, n))
  <2>1. IsFiniteSet(Used(table, n)) /\ Cardinality(Used(table, n)) \in Nat
    BY UsedFinite
  <2> DEFINE rest == Used(table, n) \ {j}
  <2>2. j \in Used(table, n) /\ h \notin rest /\ Used(new, n) = rest \cup {h}
    BY <1>1, <1>2 DEF Used
  <2>3. IsFiniteSet(rest) /\ Cardinality(rest) = Cardinality(Used(table, n)) - 1
    BY <2>1, <2>2, FS_RemoveElement
  <2> HIDE DEF rest
  <2>4. Cardinality(rest \cup {h}) = Cardinality(rest) + 1
    BY <2>2, <2>3, FS_AddElement
  <2> QED BY <2>1, <2>2, <2>3, <2>4
<1>9. ASSUME NEW x \in Entry PROVE Has(new, n, x) <=> Has(table, n, x)
  <2>1. x # Empty
    BY IdsAssumption DEF Entry, Empty
  <2>2. ASSUME NEW k \in Ring(n), new[k] = x PROVE Has(table, n, x)
    BY <1>2, <2>1, <2>2 DEF Has
  <2>3. ASSUME NEW k \in Ring(n), table[k] = x PROVE Has(new, n, x)
    <3>1. CASE k = j
      BY <1>1, <1>2, <2>3, <3>1 DEF Has
    <3>2. CASE k # j
      BY <1>1, <1>2, <2>1, <2>3, <3>2 DEF Has
    <3> QED BY <3>1, <3>2
  <2> QED BY <2>2, <2>3 DEF Has
<1> QED BY <1>7, <1>8, <1>9 DEF new, SameEntries

\* An entry that may not fill the hole does not have it on its way.
LEMMA PassKeeps ==
  ASSUME HashInv, NEW n \in Nat \ {0}, NEW table, NEW h \in Ring(n), NEW c \in Ring(n),
         Shifting(table, n, h, c), table[Step(n, c, 1)] # Empty,
         ~(Dist(n, Ideal(n, table[Step(n, c, 1)].key), h)
             <= Dist(n, Ideal(n, table[Step(n, c, 1)].key), Step(n, c, 1)))
  PROVE  Shifting(table, n, h, Step(n, c, 1))
<1>1. PICK j \in Ring(n) : j = Step(n, c, 1) /\ (j # h => Dist(n, h, j) = Dist(n, h, c) + 1)
  BY DistNext
<1>2. j # h /\ table[h] = Empty /\ table \in TableOf(n)
  BY <1>1 DEF Shifting
<1>3. Dist(n, h, j) = Dist(n, h, c) + 1
  BY <1>1, <1>2
<1>4. \A m \in Ring(n) : Dist(n, h, m) \in Int /\ (Dist(n, h, m) = Dist(n, h, j) => m = j)
  <2>1. \A m \in Ring(n) : Dist(n, h, m) \in Ring(n)
    BY RingFacts
  <2>2. \A m \in Ring(n) : Dist(n, h, m) = Dist(n, h, j) => m = j
    BY DistInjective
  <2> QED BY <2>1, <2>2 DEF Ring
<1>5. ASSUME NEW m \in Ring(n), m # h, Dist(n, h, m) <= Dist(n, h, j)
      PROVE  table[m] # Empty
  <2>1. CASE m = j
    BY <1>1, <2>1
  <2>2. CASE m # j
    <3>1. Dist(n, h, m) <= Dist(n, h, c)
      BY <1>3, <1>4, <1>5, <2>2
    <3> QED BY <1>5, <3>1 DEF Shifting
  <2> QED BY <2>1, <2>2
<1>6. ASSUME NEW k \in Ring(n), NEW m \in Ring(n), table[k] # Empty, table[m] = Empty,
             Dist(n, Ideal(n, table[k].key), m) < Dist(n, Ideal(n, table[k].key), k)
      PROVE  m = h /\ Dist(n, h, j) < Dist(n, h, k)
  <2>1. m = h /\ Dist(n, h, c) < Dist(n, h, k)
    BY <1>6 DEF Shifting
  <2>2. k # j
    <3> SUFFICES ASSUME k = j PROVE FALSE
      OBVIOUS
    <3>1. PICK a \in Ring(n) : a = Ideal(n, table[j].key)
      <4>1. table[j].key \in Ids
        BY <1>1, <1>2, EntryOrEmpty
      <4> QED BY <4>1, IdealIsSlot
    <3>2. Dist(n, a, h) < Dist(n, a, j) /\ ~(Dist(n, a, h) <= Dist(n, a, j))
      BY <1>1, <1>6, <2>1, <3>1
    <3>3. Dist(n, a, h) \in Ring(n) /\ Dist(n, a, j) \in Ring(n)
      BY RingFacts
    <3> QED BY <3>2, <3>3 DEF Ring
  <2> QED BY <1>3, <1>4, <2>1, <2>2
<1> QED BY <1>1, <1>2, <1>5, <1>6 DEF Shifting

\* Behind the last slot of the cluster nothing has the hole on its way.
LEMMA DoneKeeps ==
  ASSUME HashInv, NEW n \in Nat \ {0}, NEW table, NEW h \in Ring(n), NEW c \in Ring(n),
         Shifting(table, n, h, c), table[Step(n, c, 1)] = Empty
  PROVE  Ordered(table, n)
<1>1. PICK j \in Ring(n) : /\ j = Step(n, c, 1) /\ (j # h => Dist(n, h, j) = Dist(n, h, c) + 1)
                           /\ j = h => Dist(n, h, c) = n - 1
  BY DistNext
<1>2. table \in TableOf(n) /\ Unique(table, n) /\ table[j] = Empty
  BY <1>1 DEF Shifting
<1>3. ASSUME NEW k \in Ring(n), table[k] # Empty, NEW m \in Ring(n), table[m] = Empty,
             Dist(n, Ideal(n, table[k].key), m) < Dist(n, Ideal(n, table[k].key), k)
      PROVE  FALSE
  <2>1. m = h /\ Dist(n, h, c) < Dist(n, h, k)
    BY <1>3 DEF Shifting
  <2>2. PICK a \in Ring(n) : a = Ideal(n, table[k].key)
    <3>1. table[k].key \in Ids
      BY <1>2, <1>3, EntryOrEmpty
    <3> QED BY <3>1, IdealIsSlot
  <2>3. Dist(n, h, c) \in Ring(n) /\ Dist(n, h, k) \in Ring(n) /\ Dist(n, h, j) \in Ring(n)
    BY RingFacts
  <2>4. j # h
    BY <1>1, <2>1, <2>3 DEF Ring
  <2>5. Dist(n, h, j) # Dist(n, h, k)
    BY <1>2, <1>3, DistInjective
  <2>6. Dist(n, h, j) < Dist(n, h, k)
    BY <1>1, <2>1, <2>3, <2>4, <2>5 DEF Ring
  <2>7. Dist(n, a, h) < Dist(n, a, k)
    BY <1>3, <2>1, <2>2
  <2>8. Dist(n, a, j) < Dist(n, a, k)
    BY <2>6, <2>7, DistBefore
  <2> QED BY <1>2, <1>3, <2>2, <2>4, <2>8 DEF Shifting
<1> QED BY <1>2, <1>3 DEF Ordered, Filled

-----------------------------------------------------------------------------
(* The function a table is.                                                *)

ContentsOf(table, n) ==
  [i \in Ids |-> IF \E k \in Ring(n) : table[k].key = i
                 THEN table[CHOOSE k \in Ring(n) : table[k].key = i].value ELSE NoValue]

\* Its values are those of the entries.
LEMMA ContentsAre ==
  ASSUME NEW n \in Nat \ {0}, NEW table \in TableOf(n), Unique(table, n)
  PROVE  /\ ContentsOf(table, n) \in [Ids -> Values \cup {NoValue}]
         /\ \A k \in Ring(n), i \in Ids : table[k].key = i => ContentsOf(table, n)[i] = table[k].value
         /\ \A i \in Ids : Absent(table, n, i) <=> ContentsOf(table, n)[i] = NoValue
         /\ \A x \in Entry : Has(table, n, x) <=> ContentsOf(table, n)[x.key] = x.value
<1> DEFINE c == ContentsOf(table, n)
<1>1. ASSUME NEW k \in Ring(n), NEW i \in Ids, table[k].key = i
      PROVE  c[i] = table[k].value /\ table[k] \in Entry /\ c[i] \in Values /\ c[i] # NoValue
  <2>1. PICK j \in Ring(n) : j = CHOOSE l \in Ring(n) : table[l].key = i
    BY <1>1
  <2>2. table[j].key = i
    BY <1>1, <2>1
  <2>3. table[k] # Empty
    BY <1>1, IdsAssumption DEF Empty
  <2>4. j = k
    BY <1>1, <2>2, <2>3 DEF Unique
  <2>5. c[i] = table[k].value
    BY <1>1, <2>1, <2>4 DEF ContentsOf
  <2>6. table[k] \in Entry /\ table[k].value \in Values
    BY <2>3, EntryOrEmpty
  <2> QED BY <2>5, <2>6, NoValueAssumption
<1>2. ASSUME NEW i \in Ids, Absent(table, n, i) PROVE c[i] = NoValue
  BY <1>2 DEF ContentsOf, Absent
<1>3. ASSUME NEW i \in Ids, ~Absent(table, n, i) PROVE \E k \in Ring(n) : table[k].key = i
  BY <1>3 DEF Absent
<1>4. \A i \in Ids : c[i] \in Values \cup {NoValue}
  <2> HIDE DEF c
  <2> QED BY <1>1, <1>2, <1>3
<1>5. c \in [Ids -> Values \cup {NoValue}]
  <2>1. c = [i \in Ids |-> c[i]]
    BY DEF ContentsOf
  <2> HIDE DEF c
  <2> QED BY <1>4, <2>1
<1> HIDE DEF c
<1>6. \A i \in Ids : Absent(table, n, i) <=> c[i] = NoValue
  BY <1>1, <1>2, <1>3
<1>7. ASSUME NEW x \in Entry PROVE Has(table, n, x) <=> c[x.key] = x.value
  <2>1. x.key \in Ids /\ x.value \in Values /\ x = [key |-> x.key, value |-> x.value]
    BY DEF Entry
  <2>2. ASSUME Has(table, n, x) PROVE c[x.key] = x.value
    BY <1>1, <2>1, <2>2 DEF Has
  <2>3. ASSUME c[x.key] = x.value PROVE Has(table, n, x)
    <3>1. ~Absent(table, n, x.key)
      BY <1>2, <2>1, <2>3, NoValueAssumption
    <3>2. PICK k \in Ring(n) : table[k].key = x.key
      BY <1>3, <2>1, <3>1
    <3>3. table[k] \in Entry /\ table[k].value = x.value
      BY <1>1, <2>1, <2>3, <3>2
    <3>4. table[k] = [key |-> table[k].key, value |-> table[k].value]
      BY <3>3 DEF Entry
    <3>5. table[k] = x
      BY <2>1, <3>2, <3>3, <3>4
    <3> QED BY <3>5 DEF Has
  <2> QED BY <2>2, <2>3
<1> QED BY <1>1, <1>5, <1>6, <1>7 DEF c

\* A table of n slots with every id once at most.
Proper(table, n) == n \in Nat \ {0} /\ table \in TableOf(n) /\ Unique(table, n)

LEMMA ProperIs ==
  ASSUME NEW n \in Nat \ {0}, NEW table
  PROVE  /\ Ordered(table, n) => Proper(table, n)
         /\ \A h, c : Shifting(table, n, h, c) => Proper(table, n)
  BY DEF Ordered, Shifting, Proper

\* Functions of the same entries are the same; one entry more or less is one
\* value set or unset.
LEMMA ContentsFollow ==
  ASSUME NEW n, NEW table, Proper(table, n), NEW m, NEW new, Proper(new, m)
  PROVE  /\ (\A x \in Entry : Has(new, m, x) <=> Has(table, n, x))
              => ContentsOf(new, m) = ContentsOf(table, n)
         /\ \A e \in Entry :
              /\ Absent(table, n, e.key)
              /\ \A x \in Entry : Has(new, m, x) <=> Has(table, n, x) \/ x = e
              => ContentsOf(new, m) = [ContentsOf(table, n) EXCEPT ![e.key] = e.value]
         /\ \A e \in Entry :
              /\ Has(table, n, e)
              /\ \A x \in Entry : Has(new, m, x) <=> Has(table, n, x) /\ x # e
              => ContentsOf(new, m) = [ContentsOf(table, n) EXCEPT ![e.key] = NoValue]
<1>1. PICK c \in [Ids -> Values \cup {NoValue}] :
        /\ c = ContentsOf(table, n)
        /\ \A i \in Ids : Absent(table, n, i) <=> c[i] = NoValue
        /\ \A x \in Entry : Has(table, n, x) <=> c[x.key] = x.value
  BY ContentsAre DEF Proper
<1>2. PICK d \in [Ids -> Values \cup {NoValue}] :
        /\ d = ContentsOf(new, m)
        /\ \A x \in Entry : Has(new, m, x) <=> d[x.key] = x.value
  BY ContentsAre DEF Proper
<1>3. ASSUME NEW f \in [Ids -> Values \cup {NoValue}], NEW g \in [Ids -> Values \cup {NoValue}],
             \A i \in Ids, v \in Values : f[i] = v <=> g[i] = v
      PROVE  f = g
  <2>1. \A i \in Ids : f[i] = g[i]
    BY <1>3, NoValueAssumption
  <2> QED BY <2>1
<1>4. ASSUME NEW i \in Ids, NEW v \in Values
      PROVE  \E x \in Entry : /\ x = [key |-> i, value |-> v]
                              /\ Has(table, n, x) <=> c[i] = v
                              /\ Has(new, m, x) <=> d[i] = v
  <2>1. [key |-> i, value |-> v] \in Entry
    BY DEF Entry
  <2>2. PICK x \in Entry : x = [key |-> i, value |-> v]
    BY <2>1
  <2>3. x.key = i /\ x.value = v
    BY <2>2
  <2> QED BY <1>1, <1>2, <2>2, <2>3
<1>5. ASSUME \A x \in Entry : Has(new, m, x) <=> Has(table, n, x)
      PROVE  d = c
  <2>1. ASSUME NEW i \in Ids, NEW v \in Values PROVE d[i] = v <=> c[i] = v
    BY <1>4, <1>5
  <2> QED BY <1>3, <2>1
<1>6. ASSUME NEW e \in Entry, Absent(table, n, e.key),
             \A x \in Entry : Has(new, m, x) <=> Has(table, n, x) \/ x = e
      PROVE  d = [c EXCEPT ![e.key] = e.value]
  <2>1. e.key \in Ids /\ e.value \in Values /\ e = [key |-> e.key, value |-> e.value]
    BY DEF Entry
  <2>2. c[e.key] = NoValue
    BY <1>1, <1>6, <2>1
  <2> DEFINE f == [c EXCEPT ![e.key] = e.value]
  <2>3. f \in [Ids -> Values \cup {NoValue}]
    BY <2>1
  <2>4. \A i \in Ids : f[i] = IF i = e.key THEN e.value ELSE c[i]
    BY <2>1
  <2> HIDE DEF f
  <2>5. \A i \in Ids, v \in Values : [key |-> i, value |-> v] = e <=> i = e.key /\ v = e.value
    BY <2>1
  <2>6. ASSUME NEW i \in Ids, NEW v \in Values
        PROVE  d[i] = v <=> c[i] = v \/ (i = e.key /\ v = e.value)
    BY <1>4, <1>6, <2>5
  <2>7. \A i \in Ids, v \in Values : d[i] = v <=> f[i] = v
    BY <2>2, <2>4, <2>6, NoValueAssumption
  <2>8. d = f
    BY <1>3, <2>3, <2>7
  <2> QED BY <2>8 DEF f
<1>7. ASSUME NEW e \in Entry, Has(table, n, e),
             \A x \in Entry : Has(new, m, x) <=> Has(table, n, x) /\ x # e
      PROVE  d = [c EXCEPT ![e.key] = NoValue]
  <2>1. e.key \in Ids /\ e.value \in Values /\ e = [key |-> e.key, value |-> e.value]
    BY DEF Entry
  <2>2. c[e.key] = e.value
    BY <1>1, <1>7
  <2> DEFINE f == [c EXCEPT ![e.key] = NoValue]
  <2>3. f \in [Ids -> Values \cup {NoValue}]
    BY <2>1
  <2>4. \A i \in Ids : f[i] = IF i = e.key THEN NoValue ELSE c[i]
    BY <2>1
  <2> HIDE DEF f
  <2>5. \A i \in Ids, v \in Values : [key |-> i, value |-> v] = e <=> i = e.key /\ v = e.value
    BY <2>1
  <2>6. ASSUME NEW i \in Ids, NEW v \in Values
        PROVE  d[i] = v <=> c[i] = v /\ ~(i = e.key /\ v = e.value)
    BY <1>4, <1>7, <2>5
  <2>7. \A i \in Ids, v \in Values : d[i] = v <=> f[i] = v
    BY <2>2, <2>4, <2>6, NoValueAssumption
  <2>8. d = f
    BY <1>3, <2>3, <2>7
  <2> QED BY <2>8 DEF f
<1> QED BY <1>1, <1>2, <1>5, <1>6, <1>7

\* What probing an ordered table with room finds.
LEMMA Probing ==
  ASSUME HashInv, NEW n \in Nat \ {0}, NEW table, Ordered(table, n),
         Cardinality(Used(table, n)) < n, NEW i \in Ids
  PROVE  /\ Stop(table, i) \in Ring(n)
         /\ Filled(table, n, Ideal(n, i), Stop(table, i))
         /\ Holds(table, i) => /\ table[Stop(table, i)].key = i /\ table[Stop(table, i)] # Empty
                               /\ table[Stop(table, i)] \in Entry
         /\ ~Holds(table, i) => table[Stop(table, i)] = Empty
         /\ Holds(table, i) <=> ~Absent(table, n, i)
         /\ table[Stop(table, i)].value = ContentsOf(table, n)[i]
<1>1. PICK e \in Ring(n) : table[e] = Empty
  BY UsedFinite
<1>2. PICK s \in Ring(n) : /\ s = Stop(table, i)
                           /\ table[s] = Empty \/ table[s].key = i
                           /\ Filled(table, n, Ideal(n, i), s)
                           /\ \A k \in Ring(n) : table[k].key = i => k = s
  BY <1>1, StopIs
<1>3. table \in TableOf(n) /\ Unique(table, n) /\ Empty.key # i /\ Empty.value = NoValue
  BY IdsAssumption DEF Ordered, Empty
<1>4. Holds(table, i) <=> table[s].key = i
  BY <1>2 DEF Holds
<1>5. CASE table[s].key = i
  <2>1. table[s] # Empty /\ table[s] \in Entry
    BY <1>3, <1>5, EntryOrEmpty
  <2>2. ContentsOf(table, n)[i] = table[s].value
    BY <1>3, <1>5, ContentsAre
  <2>3. ~Absent(table, n, i)
    BY <1>5 DEF Absent
  <2> QED BY <1>2, <1>4, <1>5, <2>1, <2>2, <2>3
<1>6. CASE table[s].key # i
  <2>1. Absent(table, n, i)
    BY <1>2, <1>6 DEF Absent
  <2>2. ContentsOf(table, n)[i] = NoValue
    BY <1>3, <2>1, ContentsAre
  <2> QED BY <1>2, <1>3, <1>4, <1>6, <2>1, <2>2
<1> QED BY <1>5, <1>6

\* The keys of a table are as many as its used slots.
LEMMA KeysCounted ==
  ASSUME NEW n \in Nat \ {0}, NEW table \in TableOf(n), Unique(table, n)
  PROVE  Cardinality({table[k].key : k \in Ring(n)} \ {0}) = Cardinality(Used(table, n))
<1> DEFINE U == Used(table, n)
           K == {table[k].key : k \in Ring(n)} \ {0}
           f == [k \in U |-> table[k].key]
<1>1. \A k \in Ring(n) : k \in U <=> table[k].key # 0
  BY EntryOrEmpty DEF Used
<1>2. f \in [U -> K] /\ \A y \in K : \E k \in U : f[k] = y
  BY <1>1 DEF Used
<1>3. \A j, k \in U : f[j] = f[k] => j = k
  BY DEF Used, Unique
<1>4. IsFiniteSet(U)
  BY UsedFinite
<1> HIDE DEF U, K, f
<1>5. f \in Bijection(U, K)
  BY <1>2, <1>3 DEF Bijection, Injection, Surjection, IsInjective
<1>6. ExistsBijection(U, K)
  BY <1>5 DEF ExistsBijection
<1>7. Cardinality(K) = Cardinality(U)
  BY <1>4, <1>6, FS_Bijection
<1> QED BY <1>7 DEF U, K

-----------------------------------------------------------------------------
(* The invariant.                                                          *)

N == Capacity(slots)

\* size_ counts the used slots, one more while an erase is shifting; less than
\* 70% of the slots are used; the table is in order but for the hole.
TableInv ==
  /\ HashInv /\ N \in Nat \ {0}
  /\ size = Cardinality(Used(slots, N)) + (IF Idle THEN 0 ELSE 1)
  /\ size * 10 < N * 7
  /\ Idle => Ordered(slots, N)
  /\ ~Idle => Shifting(slots, N, hole, scan)

\* There is always room, and the map's function is that of the table.
LEMMA TableFacts ==
  ASSUME TableInv
  PROVE  /\ HashInv /\ N \in Nat \ {0} /\ Proper(slots, N)
         /\ Cardinality(Used(slots, N)) \in Nat /\ Cardinality(Used(slots, N)) < N
         /\ Contents = ContentsOf(slots, N)
<1>1. HashInv /\ N \in Nat \ {0} /\ Proper(slots, N)
  BY ProperIs DEF TableInv
<1>2. Cardinality(Used(slots, N)) \in Nat
  BY <1>1, UsedFinite
<1>3. Cardinality(Used(slots, N)) < N
  <2>1. size = Cardinality(Used(slots, N)) \/ size = Cardinality(Used(slots, N)) + 1
    BY <1>2 DEF TableInv
  <2> QED BY <1>1, <1>2, <2>1 DEF TableInv
<1>4. DOMAIN slots = Ring(N)
  BY <1>1 DEF Proper, TableOf
<1>5. \A i \in Ids : i \in Keys <=> \E k \in Ring(N) : slots[k].key = i
  BY <1>4, IdsAssumption DEF Keys
<1>6. Contents = ContentsOf(slots, N)
  BY <1>4, <1>5 DEF Contents, ContentsOf
<1> QED BY <1>1, <1>2, <1>3, <1>6

\* The state after a step that leaves a table in order, or with a hole.
LEMMA Between ==
  ASSUME HashInv, hash' = hash, NEW n \in Nat \ {0}, NEW table, Ordered(table, n),
         slots' = table, hole' = None,
         size' = Cardinality(Used(table, n)), size' * 10 < n * 7
  PROVE  TableInv' /\ N' = n /\ Idle'
<1>1. Capacity(table) = n
  BY CapacityIs DEF Ordered
<1>2. N' = n /\ Idle'
  BY <1>1 DEF N, Idle
<1>3. Ordered(slots, N)'
  BY <1>2 DEF Ordered, Ideal
<1>4. HashInv'
  BY DEF HashInv
<1>5. size' = Cardinality(Used(slots', N')) + 0
  BY <1>2, UsedFinite
<1> QED BY <1>2, <1>3, <1>4, <1>5 DEF TableInv

LEMMA During ==
  ASSUME HashInv, hash' = hash, NEW n \in Nat \ {0}, NEW table, NEW h, NEW c, Shifting(table, n, h, c),
         slots' = table, hole' = h, scan' = c,
         size' = Cardinality(Used(table, n)) + 1, size' * 10 < n * 7
  PROVE  TableInv' /\ N' = n /\ ~Idle'
<1>1. Capacity(table) = n
  BY CapacityIs DEF Shifting
<1>2. N' = n /\ ~Idle'
  BY <1>1 DEF N, Idle, None, Shifting, Ring
<1>3. Shifting(slots, N, hole, scan)'
  BY <1>2 DEF Shifting, Ideal
<1>4. HashInv'
  BY DEF HashInv
<1>5. size' = Cardinality(Used(slots', N')) + 1
  BY <1>2
<1> QED BY <1>2, <1>3, <1>4, <1>5 DEF TableInv

\* Nothing the invariant is about has changed.
LEMMA Stays ==
  ASSUME TableInv, UNCHANGED <<hash, slots, size, hole, scan>>
  PROVE  TableInv' /\ Contents' = Contents /\ Idle' = Idle
  BY DEF TableInv, N, HashInv, Idle, Ordered, Shifting, Ideal, Contents, Keys

\* How the function of the table in the next state is obtained.
LEMMA Mapped ==
  ASSUME TableInv, TableInv'
  PROVE  /\ (\A x \in Entry : Has(slots', N', x) <=> Has(slots, N, x)) => Contents' = Contents
         /\ \A e \in Entry :
              /\ Absent(slots, N, e.key)
              /\ \A x \in Entry : Has(slots', N', x) <=> Has(slots, N, x) \/ x = e
              => Contents' = [Contents EXCEPT ![e.key] = e.value]
         /\ \A e \in Entry :
              /\ Has(slots, N, e)
              /\ \A x \in Entry : Has(slots', N', x) <=> Has(slots, N, x) /\ x # e
              => Contents' = [Contents EXCEPT ![e.key] = NoValue]
<1>1. Proper(slots, N) /\ Contents = ContentsOf(slots, N)
  BY TableFacts
<1>2. Proper(slots', N') /\ Contents' = ContentsOf(slots', N')
  <2>1. TableInv' => (Proper(slots, N) /\ Contents = ContentsOf(slots, N))'
    BY TableFacts, PTL
  <2> QED BY <2>1
<1> QED BY <1>1, <1>2, ContentsFollow

LEMMA InitFacts ==
  ASSUME Init
  PROVE  TableInv /\ Map!Init
<1>1. InitialCapacity \in Nat \ {0} /\ slots = EmptyTable(InitialCapacity) /\ size = 0
  BY CapacityAssumption DEF Init
<1>2. /\ Ordered(slots, InitialCapacity) /\ Used(slots, InitialCapacity) = {}
      /\ \A e \in Entry : ~Has(slots, InitialCapacity, e)
  BY <1>1, EmptyOrdered
<1>3. N = InitialCapacity
  BY <1>1, <1>2, CapacityIs DEF N, Ordered
<1>4. Cardinality(Used(slots, N)) = 0
  BY <1>2, <1>3, FS_EmptySet
<1>5. HashInv /\ Idle
  BY DEF Init, HashInv, Idle
<1>6. TableInv
  BY <1>1, <1>2, <1>3, <1>4, <1>5 DEF TableInv
<1>7. Contents = [i \in Ids |-> NoValue]
  <2>1. \A k \in Ring(InitialCapacity) : slots[k] = Empty
    BY <1>1 DEF EmptyTable, Ring
  <2>2. DOMAIN slots = Ring(InitialCapacity)
    BY <1>2 DEF Ordered, TableOf
  <2>3. Keys = {}
    BY <2>1, <2>2 DEF Keys, Empty
  <2> QED BY <2>3 DEF Contents
<1> QED BY <1>5, <1>6, <1>7 DEF Map!Init, Init

LEMMA FindMaps ==
  ASSUME TableInv, NEW i \in Ids, Find(i)
  PROVE  TableInv' /\ Map!Find(i)
<1>1. Idle /\ UNCHANGED <<hash, slots, size, hole, scan>> /\ answer' = slots[Stop(slots, i)].value
  BY DEF Find
<1>2. TableInv' /\ Contents' = Contents /\ Idle'
  BY <1>1, Stays
<1>3. slots[Stop(slots, i)].value = Contents[i]
  BY <1>1, TableFacts, Probing DEF TableInv
<1> QED BY <1>1, <1>2, <1>3 DEF Map!Find

LEMMA EraseAbsentMaps ==
  ASSUME TableInv, NEW i \in Ids, EraseAbsent(i)
  PROVE  TableInv' /\ Map!Erase(i)
<1>1. /\ Idle /\ UNCHANGED <<hash, slots, size, hole, scan>>
      /\ ~Holds(slots, i) /\ answer' = FALSE
  BY DEF EraseAbsent
<1>2. TableInv' /\ Contents' = Contents /\ Idle'
  BY <1>1, Stays
<1>3. Ordered(slots, N)
  BY <1>1 DEF TableInv
<1>4. Absent(slots, N, i)
  BY <1>1, <1>3, TableFacts, Probing
<1>5. Contents \in [Ids -> Values \cup {NoValue}] /\ Contents[i] = NoValue
  BY <1>4, TableFacts, ContentsAre DEF Proper
<1>6. [Contents EXCEPT ![i] = NoValue] = Contents
  BY <1>5
<1> QED BY <1>1, <1>2, <1>5, <1>6 DEF Map!Erase

LEMMA EraseFoundMaps ==
  ASSUME TableInv, NEW i \in Ids, EraseFound(i)
  PROVE  TableInv' /\ Map!Erase(i)
<1>1. /\ Idle /\ UNCHANGED <<hash, size>> /\ Holds(slots, i)
      /\ slots' = Placed(slots, Stop(slots, i), Empty)
      /\ hole' = Stop(slots, i) /\ scan' = Stop(slots, i)
  BY DEF EraseFound, Placed
<1>2. Ordered(slots, N) /\ HashInv /\ N \in Nat \ {0} /\ Cardinality(Used(slots, N)) \in Nat
  BY <1>1, TableFacts DEF TableInv
<1>3. PICK s \in Ring(N) : /\ s = Stop(slots, i) /\ slots[s] # Empty /\ slots[s].key = i
                           /\ slots[s] \in Entry
  BY <1>1, <1>2, TableFacts, Probing
<1>4. PICK new : new = Placed(slots, s, Empty)
  OBVIOUS
<1>5. /\ Shifting(new, N, s, s)
      /\ Cardinality(Used(slots, N)) = Cardinality(Used(new, N)) + 1
      /\ \A x \in Entry : Has(new, N, x) <=> Has(slots, N, x) /\ x # slots[s]
  BY <1>2, <1>3, <1>4, EmptyingKeeps
<1>6. TableInv' /\ N' = N /\ ~Idle'
  <2>1. size' = Cardinality(Used(new, N)) + 1 /\ size' * 10 < N * 7
    <3>1. size = Cardinality(Used(slots, N))
      BY <1>1, <1>2 DEF TableInv
    <3> QED BY <1>1, <1>5, <3>1 DEF TableInv
  <2>2. slots' = new /\ hole' = s /\ scan' = s /\ hash' = hash
    BY <1>1, <1>3, <1>4
  <2> QED BY <1>2, <1>5, <2>1, <2>2, During
<1>7. Contents' = [Contents EXCEPT ![i] = NoValue]
  <2>1. PICK e \in Entry : e = slots[s] /\ e.key = i
    BY <1>3
  <2>2. Has(slots, N, e)
    BY <2>1 DEF Has
  <2>3. \A x \in Entry : Has(slots', N', x) <=> Has(slots, N, x) /\ x # e
    BY <1>1, <1>3, <1>4, <1>5, <1>6, <2>1
  <2>4. Contents' = [Contents EXCEPT ![e.key] = NoValue]
    BY <1>6, <2>2, <2>3, Mapped
  <2> QED BY <2>1, <2>4
<1>8. Contents[i] # NoValue
  <2>1. ~Absent(slots, N, i)
    BY <1>3 DEF Absent
  <2> QED BY <2>1, TableFacts, ContentsAre DEF Proper
<1> QED BY <1>6, <1>7, <1>8 DEF Map!Erase

\* Following and Offset are the ring's Step and Dist.
LEMMA ShiftingIs ==
  ASSUME TableInv, ~Idle
  PROVE  /\ Shifting(slots, N, hole, scan) /\ hole \in Ring(N) /\ scan \in Ring(N)
         /\ Following(scan) = Step(N, scan, 1) /\ Following(scan) \in Ring(N)
         /\ \A j \in Ring(N) :
              slots[j] # Empty =>
                (MayFill(j) <=> Dist(N, Ideal(N, slots[j].key), hole) <= Dist(N, Ideal(N, slots[j].key), j))
<1>1. /\ HashInv /\ N \in Nat \ {0} /\ Shifting(slots, N, hole, scan)
      /\ hole \in Ring(N) /\ scan \in Ring(N) /\ slots \in TableOf(N)
  BY DEF TableInv, Shifting
<1>a. PICK n \in Nat \ {0} : n = N
  BY <1>1
<1>2. PICK c \in Ring(n), h \in Ring(n) : n = N /\ c = scan /\ h = hole
  BY <1>1, <1>a
<1>3. (c + 1) % n = Step(n, c, 1) /\ Step(n, c, 1) \in Ring(n)
  <2>1. c = n - 1 \/ c + 1 \in Ring(n)
    BY DEF Ring
  <2>2. CASE c + 1 \in Ring(n)
    <3>1. c + 1 \in Int
      BY DEF Ring
    <3>2. (c + 1) % n = c + 1
      BY <2>2, <3>1, RemainderNear
    <3> QED BY <2>2, <3>2 DEF Step, Ring
  <2>3. CASE c = n - 1
    <3>1. (c + 1) - n \in Ring(n) /\ c + 1 \in Int
      BY <2>3 DEF Ring
    <3>2. (c + 1) % n = (c + 1) - n
      BY <3>1, RemainderNear
    <3> QED BY <2>3, <3>1, <3>2 DEF Step, Ring
  <2> QED BY <2>1, <2>2, <2>3
<1>4. ASSUME NEW a \in Ring(n), NEW b \in Ring(n)
      PROVE  (b - a) % n = Dist(n, a, b)
  <2>1. b - a \in Int
    BY DEF Ring
  <2>2. CASE a <= b
    <3>1. b - a \in Ring(n)
      BY <2>2 DEF Ring
    <3>2. (b - a) % n = b - a
      BY <2>1, <3>1, RemainderNear
    <3> QED BY <2>2, <3>2 DEF Dist
  <2>3. CASE ~(a <= b)
    <3>1. (b - a) + n \in Ring(n)
      BY <2>3 DEF Ring
    <3>2. (b - a) % n = (b - a) + n
      BY <2>1, <3>1, RemainderNear
    <3> QED BY <2>3, <3>2 DEF Dist
  <2> QED BY <2>2, <2>3
<1>5. ASSUME NEW j \in Ring(n), slots[j] # Empty
      PROVE  MayFill(j) <=> Dist(n, Ideal(n, slots[j].key), h) <= Dist(n, Ideal(n, slots[j].key), j)
  <2>1. slots[j].key \in Ids
    BY <1>1, <1>2, <1>5, EntryOrEmpty
  <2>2. PICK a \in Ring(n) : a = Ideal(n, slots[j].key)
    BY <1>1, <2>1, IdealIsSlot
  <2>3. hash[slots[j].key] % Capacity(slots) = a /\ Capacity(slots) = n
    BY <1>2, <2>2 DEF Ideal, N
  <2>4. Offset(a, hole) = Dist(n, a, h) /\ Offset(a, j) = Dist(n, a, j)
    BY <1>2, <1>4, <2>3 DEF Offset
  <2> QED BY <2>2, <2>3, <2>4 DEF MayFill
<1>6. Following(scan) = (c + 1) % n
  BY <1>2 DEF Following, N
<1> QED BY <1>1, <1>2, <1>3, <1>5, <1>6

\* While the shift lasts the map stutters.
LEMMA ShiftBackMaps ==
  ASSUME TableInv, ShiftBack
  PROVE  TableInv' /\ UNCHANGED Map!vars
<1> DEFINE j == Following(scan)
<1>1. /\ ~Idle /\ slots[j] # Empty /\ MayFill(j) /\ UNCHANGED <<hash, size>>
      /\ slots' = [slots EXCEPT ![hole] = slots[j], ![j] = Empty]
      /\ hole' = j /\ scan' = j
  BY DEF ShiftBack
<1>2. HashInv /\ N \in Nat \ {0} /\ Shifting(slots, N, hole, scan) /\ hole \in Ring(N)
      /\ scan \in Ring(N) /\ j \in Ring(N)
  BY <1>1, ShiftingIs, TableFacts
<1>3. Dist(N, Ideal(N, slots[j].key), hole) <= Dist(N, Ideal(N, slots[j].key), j)
  BY <1>1, <1>2, ShiftingIs
<1>4. PICK new : new = Placed(Placed(slots, hole, slots[j]), j, Empty)
  OBVIOUS
<1>5. slots' = new
  BY <1>1, <1>4 DEF Placed
<1> HIDE DEF j
<1>6. Shifting(new, N, j, j) /\ SameEntries(new, slots, N)
  BY <1>1, <1>2, <1>3, <1>4, BackKeeps
<1>7. size' = Cardinality(Used(new, N)) + 1 /\ size' * 10 < N * 7
  BY <1>1, <1>6 DEF TableInv, SameEntries
<1>8. TableInv' /\ N' = N /\ ~Idle'
  BY <1>1, <1>2, <1>5, <1>6, <1>7, During
<1>9. \A x \in Entry : Has(slots', N', x) <=> Has(slots, N, x)
  BY <1>5, <1>6, <1>8 DEF SameEntries
<1>10. Contents' = Contents
  BY <1>8, <1>9, Mapped
<1> QED BY <1>1, <1>8, <1>10 DEF Map!vars

LEMMA PassOverMaps ==
  ASSUME TableInv, PassOver
  PROVE  TableInv' /\ UNCHANGED Map!vars
<1> DEFINE j == Following(scan)
<1>1. /\ ~Idle /\ slots[j] # Empty /\ ~MayFill(j)
      /\ scan' = j /\ UNCHANGED <<hash, slots, size, hole, answer>>
  BY DEF PassOver
<1>2. HashInv /\ N \in Nat \ {0} /\ Shifting(slots, N, hole, scan) /\ hole \in Ring(N)
      /\ scan \in Ring(N) /\ j \in Ring(N) /\ j = Step(N, scan, 1)
  BY <1>1, ShiftingIs, TableFacts
<1>3. ~(Dist(N, Ideal(N, slots[j].key), hole) <= Dist(N, Ideal(N, slots[j].key), j))
  BY <1>1, <1>2, ShiftingIs
<1> HIDE DEF j
<1>4. Shifting(slots, N, hole, j)
  BY <1>1, <1>2, <1>3, PassKeeps
<1>5. size' = Cardinality(Used(slots, N)) + 1 /\ size' * 10 < N * 7
  BY <1>1 DEF TableInv
<1>6. TableInv' /\ ~Idle'
  BY <1>1, <1>2, <1>4, <1>5, During
<1>7. Contents' = Contents
  BY <1>1 DEF Contents, Keys
<1> QED BY <1>1, <1>6, <1>7 DEF Map!vars

LEMMA EraseDoneMaps ==
  ASSUME TableInv, EraseDone
  PROVE  TableInv' /\ UNCHANGED Map!vars
<1>1. /\ ~Idle /\ slots[Following(scan)] = Empty /\ size' = size - 1
      /\ hole' = None /\ answer' = TRUE /\ UNCHANGED <<hash, slots>>
  BY DEF EraseDone
<1>2. HashInv /\ N \in Nat \ {0} /\ Shifting(slots, N, hole, scan) /\ hole \in Ring(N)
      /\ scan \in Ring(N) /\ Following(scan) = Step(N, scan, 1)
      /\ Cardinality(Used(slots, N)) \in Nat
  BY <1>1, ShiftingIs, TableFacts
<1>3. Ordered(slots, N)
  BY <1>1, <1>2, DoneKeeps
<1>4. size' = Cardinality(Used(slots, N)) /\ size' * 10 < N * 7
  BY <1>1, <1>2 DEF TableInv
<1>5. TableInv' /\ Idle'
  BY <1>1, <1>2, <1>3, <1>4, Between
<1>6. Contents' = Contents
  BY <1>1 DEF Contents, Keys
<1> QED BY <1>1, <1>5, <1>6 DEF Map!vars

\* Growing keeps what the table holds, and the next entry fits.
LEMMA GrownIs ==
  ASSUME TableInv, Idle
  PROVE  \E n \in Nat \ {0} :
           /\ Ordered(Grown(slots), n) /\ Cardinality(Used(Grown(slots), n)) = size
           /\ (size + 1) * 10 < n * 7
           /\ \A x \in Entry : Has(Grown(slots), n, x) <=> Has(slots, N, x)
<1>1. /\ HashInv /\ N \in Nat \ {0} /\ Ordered(slots, N) /\ size \in Nat /\ size * 10 < N * 7
      /\ size = Cardinality(Used(slots, N)) /\ Cardinality(Used(slots, N)) < N
  BY TableFacts DEF TableInv
<1>2. PICK m \in Nat \ {0} : m = 2 * N /\ N < m
  BY <1>1
<1>3. CASE (size + 1) * 10 >= N * 7
  <2>1. Grown(slots) = Rehashed(slots, m)
    BY <1>2, <1>3 DEF Grown, N
  <2>2. Cardinality(Used(slots, N)) < m
    BY <1>1, <1>2
  <2>3. /\ Ordered(Rehashed(slots, m), m)
        /\ Cardinality(Used(Rehashed(slots, m), m)) = Cardinality(Used(slots, N))
        /\ \A x \in Entry : Has(Rehashed(slots, m), m, x) <=> Has(slots, N, x)
    BY <1>1, <1>2, <2>2, RehashKeeps
  <2>4. (size + 1) * 10 < m * 7
    BY <1>1, <1>2
  <2> QED BY <1>1, <2>1, <2>3, <2>4
<1>4. CASE ~((size + 1) * 10 >= N * 7)
  <2>1. Grown(slots) = slots
    BY <1>4 DEF Grown, N
  <2>2. (size + 1) * 10 < N * 7
    BY <1>1, <1>4
  <2> QED BY <1>1, <2>1, <2>2
<1> QED BY <1>3, <1>4

LEMMA InsertMaps ==
  ASSUME TableInv, NEW i \in Ids, NEW v \in Values, Insert(i, v)
  PROVE  TableInv' /\ Map!Insert(i, v)
<1>1. PICK T : T = Grown(slots)
  OBVIOUS
<1>2. /\ Idle /\ UNCHANGED <<hash, hole, scan>> /\ answer' = ~Holds(T, i)
      /\ Holds(T, i) => slots' = T /\ size' = size
      /\ ~Holds(T, i) => slots' = Placed(T, Stop(T, i), [key |-> i, value |-> v]) /\ size' = size + 1
  BY <1>1 DEF Insert, Placed
<1>3. PICK n \in Nat \ {0} :
           /\ Ordered(T, n) /\ Cardinality(Used(T, n)) = size /\ (size + 1) * 10 < n * 7
           /\ \A x \in Entry : Has(T, n, x) <=> Has(slots, N, x)
  BY <1>1, <1>2, GrownIs
<1>4. HashInv /\ size \in Nat /\ hole' = None
  BY <1>2, TableFacts DEF TableInv, Idle
<1>5. Cardinality(Used(T, n)) < n
  BY <1>3, <1>4
<1>6. PICK s \in Ring(n) :
        /\ s = Stop(T, i) /\ Filled(T, n, Ideal(n, i), s)
        /\ ~Holds(T, i) => T[s] = Empty
        /\ Holds(T, i) <=> ~Absent(T, n, i)
  BY <1>3, <1>4, <1>5, Probing
<1>7. ContentsOf(T, n) = Contents
  <2>1. Proper(T, n) /\ Proper(slots, N) /\ Contents = ContentsOf(slots, N)
    BY <1>3, ProperIs, TableFacts
  <2> QED BY <1>3, <2>1, ContentsFollow
<1>8. Absent(T, n, i) <=> Contents[i] = NoValue
  <2>1. T \in TableOf(n) /\ Unique(T, n)
    BY <1>3 DEF Ordered
  <2> QED BY <1>7, <2>1, ContentsAre
<1>9. CASE Holds(T, i)
  <2>1. size' = Cardinality(Used(T, n)) /\ size' * 10 < n * 7
    BY <1>2, <1>3, <1>4, <1>9
  <2>2. TableInv' /\ N' = n /\ Idle'
    BY <1>2, <1>3, <1>4, <1>9, <2>1, Between
  <2>3. Contents' = Contents
    <3>1. \A x \in Entry : Has(slots', N', x) <=> Has(slots, N, x)
      BY <1>2, <1>3, <1>9, <2>2
    <3> QED BY <2>2, <3>1, Mapped
  <2>4. Contents[i] # NoValue /\ answer' = FALSE
    BY <1>2, <1>6, <1>8, <1>9
  <2> QED BY <2>2, <2>3, <2>4 DEF Map!Insert
<1>10. CASE ~Holds(T, i)
  <2>1. PICK e \in Entry : e = [key |-> i, value |-> v]
    <3>1. [key |-> i, value |-> v] \in Entry
      BY DEF Entry
    <3> QED BY <3>1
  <2>2. e.key = i /\ e.value = v
    BY <2>1
  <2>3. T[s] = Empty /\ Absent(T, n, e.key) /\ Filled(T, n, Ideal(n, e.key), s)
    BY <1>6, <1>10, <2>2
  <2>4. PICK new : new = Placed(T, s, e)
    OBVIOUS
  <2>5. /\ Ordered(new, n)
        /\ Used(new, n) = Used(T, n) \cup {s} /\ s \notin Used(T, n)
        /\ \A x \in Entry : Has(new, n, x) <=> Has(T, n, x) \/ x = e
    BY <1>3, <1>4, <2>3, <2>4, PlaceKeeps
  <2>6. Cardinality(Used(new, n)) = size + 1
    <3>1. IsFiniteSet(Used(T, n))
      BY UsedFinite
    <3> QED BY <1>3, <2>5, <3>1, FS_AddElement
  <2>7. slots' = new /\ size' = Cardinality(Used(new, n)) /\ size' * 10 < n * 7
    BY <1>2, <1>3, <1>6, <1>10, <2>1, <2>4, <2>6
  <2>8. TableInv' /\ N' = n /\ Idle'
    BY <1>2, <1>4, <2>5, <2>7, Between
  <2>9. Contents' = [Contents EXCEPT ![i] = v]
    <3>1. \A x \in Entry : Has(slots', N', x) <=> Has(slots, N, x) \/ x = e
      BY <1>3, <2>5, <2>7, <2>8
    <3>2. Absent(slots, N, e.key)
      <4>1. Contents[i] = NoValue
        BY <1>8, <2>2, <2>3
      <4> QED BY <2>2, <4>1, TableFacts, ContentsAre DEF Proper
    <3>3. Contents' = [Contents EXCEPT ![e.key] = e.value]
      BY <2>8, <3>1, <3>2, Mapped
    <3> QED BY <2>2, <3>3
  <2>10. Contents[i] = NoValue /\ answer' = TRUE
    BY <1>2, <1>8, <1>10, <2>2, <2>3
  <2> QED BY <2>8, <2>9, <2>10 DEF Map!Insert
<1> QED BY <1>9, <1>10

LEMMA ReserveMaps ==
  ASSUME TableInv, NEW k \in 1..MaxReserve, Reserve(k)
  PROVE  TableInv' /\ UNCHANGED Map!vars
<1>1. PICK c \in Nat \ {0} : c > N /\ slots' = Rehashed(slots, c)
  BY DEF Reserve, Sizes, N
<1>2. Idle /\ hole' = None /\ UNCHANGED <<hash, size, answer>>
  BY DEF Reserve, Idle
<1>3. /\ HashInv /\ N \in Nat \ {0} /\ Ordered(slots, N) /\ size * 10 < N * 7 /\ size \in Nat
      /\ size = Cardinality(Used(slots, N)) /\ Cardinality(Used(slots, N)) < c
  BY <1>1, <1>2, TableFacts DEF TableInv
<1>4. PICK new : new = Rehashed(slots, c)
  OBVIOUS
<1>5. /\ Ordered(new, c) /\ Cardinality(Used(new, c)) = size
      /\ \A x \in Entry : Has(new, c, x) <=> Has(slots, N, x)
  BY <1>1, <1>3, <1>4, RehashKeeps
<1>6. size' = Cardinality(Used(new, c)) /\ size' * 10 < c * 7
  BY <1>1, <1>2, <1>3, <1>5
<1>7. TableInv' /\ N' = c /\ Idle'
  BY <1>1, <1>2, <1>3, <1>4, <1>5, <1>6, Between
<1>8. Contents' = Contents
  <2>1. \A x \in Entry : Has(slots', N', x) <=> Has(slots, N, x)
    BY <1>1, <1>4, <1>5, <1>7
  <2> QED BY <1>7, <2>1, Mapped
<1> QED BY <1>2, <1>7, <1>8 DEF Map!vars

-----------------------------------------------------------------------------
(* The theorems.                                                           *)

\* Every step keeps the invariant and is one of the map's, or none.
LEMMA StepMaps ==
  ASSUME TableInv, [Next]_vars
  PROVE  TableInv' /\ [Map!Next]_(Map!vars)
<1>1. ASSUME NEW i \in Ids, Find(i) \/ EraseAbsent(i) \/ EraseFound(i)
      PROVE  TableInv' /\ Map!Next
  <2>1. TableInv' /\ (Map!Find(i) \/ Map!Erase(i))
    BY <1>1, FindMaps, EraseAbsentMaps, EraseFoundMaps
  <2> QED BY <2>1 DEF Map!Next
<1>2. ASSUME NEW i \in Ids, NEW v \in Values, Insert(i, v)
      PROVE  TableInv' /\ Map!Next
  BY <1>2, InsertMaps DEF Map!Next
<1>3. ASSUME ShiftBack \/ PassOver \/ EraseDone
      PROVE  TableInv' /\ UNCHANGED Map!vars
  BY <1>3, ShiftBackMaps, PassOverMaps, EraseDoneMaps
<1>4. ASSUME NEW k \in 1..MaxReserve, Reserve(k)
      PROVE  TableInv' /\ UNCHANGED Map!vars
  BY <1>4, ReserveMaps
<1>5. ASSUME UNCHANGED vars
      PROVE  TableInv' /\ UNCHANGED Map!vars
  <2>1. UNCHANGED <<hash, slots, size, hole, scan>> /\ answer' = answer
    BY <1>5 DEF vars
  <2>2. TableInv' /\ Contents' = Contents /\ Idle' = Idle
    BY <2>1, Stays
  <2> QED BY <2>1, <2>2 DEF Map!vars
<1> QED BY <1>1, <1>2, <1>3, <1>4, <1>5 DEF Next

THEOREM Invariance == Spec => []TableInv
<1>1. Init => TableInv
  BY InitFacts
<1>2. TableInv /\ [Next]_vars => TableInv'
  BY StepMaps
<1> QED BY <1>1, <1>2, PTL DEF Spec

\* After any history of inserts, erases and growth every entry is found from
\* its ideal slot, size_ is the number of keys, and every probe ends.
THEOREM AlwaysReachable == Spec => []Reachable
<1>1. ASSUME TableInv PROVE Reachable
  <2>1. /\ HashInv /\ N \in Nat \ {0} /\ Proper(slots, N) /\ size * 10 < N * 7
        /\ Cardinality(Used(slots, N)) < N /\ Cardinality(Used(slots, N)) \in Nat
    BY <1>1, TableFacts DEF TableInv
  <2>2. DOMAIN slots = Ring(N) /\ slots \in TableOf(N) /\ Unique(slots, N)
    BY <2>1 DEF Proper, TableOf
  <2>3. ASSUME Idle, NEW k \in DOMAIN slots, slots[k] # Empty
        PROVE  Stop(slots, slots[k].key) = k
    <3>1. PICK i \in Ids : i = slots[k].key
      BY <2>1, <2>2, <2>3, EntryOrEmpty
    <3>2. Ordered(slots, N)
      BY <1>1, <2>3 DEF TableInv
    <3>3. PICK e \in Ring(N) : slots[e] = Empty
      BY <2>1, UsedFinite
    <3>4. \A j \in Ring(N) : slots[j].key = i => j = Stop(slots, i)
      BY <2>1, <3>2, <3>3, StopIs
    <3> QED BY <2>2, <2>3, <3>1, <3>4
  <2>4. ASSUME Idle PROVE size = Cardinality(Keys)
    <3>1. Keys = {slots[k].key : k \in Ring(N)} \ {0}
      BY <2>2 DEF Keys
    <3>2. Cardinality(Keys) = Cardinality(Used(slots, N))
      BY <2>1, <2>2, <3>1, KeysCounted
    <3> QED BY <1>1, <2>1, <2>4, <3>2 DEF TableInv
  <2> QED BY <2>1, <2>3, <2>4 DEF Reachable, N
<1> QED BY <1>1, Invariance, PTL

\* Whatever was inserted, moved and erased before, every call answers as a
\* partial function would.
THEOREM ImplementsPartialMap == Spec => ImplementsMap
<1>1. Init => Map!Init
  BY InitFacts
<1>2. TableInv /\ [Next]_vars => [Map!Next]_(Map!vars)
  BY StepMaps
<1> QED BY <1>1, <1>2, Invariance, PTL DEF Spec, ImplementsMap, Map!Spec
=============================================================================
