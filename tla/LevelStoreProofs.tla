-------------------------- MODULE LevelStoreProofs --------------------------
(***************************************************************************)
(* The lists, the free list and the ladders of LevelStore store what the   *)
(* book believes they store, for any number of nodes and prices: each list *)
(* is a queue of the orders that came and have not left (the refinement of *)
(* LevelQueues), and no node is lost, listed twice or freed while listed.  *)
(*                                                                         *)
(* The invariant says which sequences the pointers stand for.  That they   *)
(* are what is read by following the pointers is shown last.               *)
(***************************************************************************)
EXTENDS LevelStore, SequenceFacts, FiniteSetTheorems

-----------------------------------------------------------------------------
(* Lists of nodes.                                                         *)

FirstOf(q) == IF q = <<>> THEN Null ELSE q[1]
LastOf(q) == IF q = <<>> THEN Null ELSE q[Len(q)]

Distinct(q) == \A j, k \in 1..Len(q) : q[j] = q[k] => j = k

Listed(q, o) == \E k \in 1..Len(q) : q[k] = o

\* The node at place k of the doubly linked list q of a level.
Linked(q, k, t) ==
  [prev |-> IF k = 1 THEN Null ELSE q[k - 1],
   next |-> IF k = Len(q) THEN Null ELSE q[k + 1],
   level |-> t]

\* The nodes are linked into the list q of level t.
Threaded(nodes, q, t) == \A k \in 1..Len(q) : nodes[q[k]] = Linked(q, k, t)

\* The node at place k of the free list f.
Parked(f, k) ==
  [prev |-> Null, next |-> IF k = Len(f) THEN Null ELSE f[k + 1], level |-> Null]

Chained(nodes, f) == \A k \in 1..Len(f) : nodes[f[k]] = Parked(f, k)

LEMMA EmptyIs ==
  ASSUME NEW S, NEW q \in Seq(S)
  PROVE  /\ Len(q) \in Nat /\ (q = <<>> <=> Len(q) = 0)
         /\ DOMAIN q = 1..Len(q) /\ \A k \in 1..Len(q) : q[k] \in S
  BY EmptySeq, LenProperties

\* What push_back leaves of the nodes in the list q, whose last one now leads to o.
Extended(nodes, others, q, o) ==
  \A x : Listed(q, x) =>
    others[x] = IF x = LastOf(q) THEN [nodes[x] EXCEPT !.next = o] ELSE nodes[x]

\* A list grows at its end.
LEMMA AppendThreads ==
  ASSUME NEW nodes, NEW others, NEW t, NEW q \in Seq(Nodes), NEW o \in Nodes,
         Distinct(q), Threaded(nodes, q, t), ~Listed(q, o),
         others[o] = [prev |-> LastOf(q), next |-> Null, level |-> t],
         Extended(nodes, others, q, o)
  PROVE  LET r == Append(q, o)
         IN  /\ r \in Seq(Nodes) /\ Len(r) = Len(q) + 1
             /\ Distinct(r) /\ Threaded(others, r, t)
             /\ FirstOf(r) = (IF q = <<>> THEN o ELSE FirstOf(q)) /\ LastOf(r) = o
             /\ \A x : Listed(r, x) <=> Listed(q, x) \/ x = o
<1>1. PICK r : r = Append(q, o)
  OBVIOUS
<1>2. PICK n : n = Len(q)
  OBVIOUS
<1>3. /\ n \in Nat /\ (q = <<>> <=> n = 0) /\ \A k \in 1..n : q[k] \in Nodes
      /\ r \in Seq(Nodes) /\ Len(r) = n + 1 /\ r[n + 1] = o /\ \A k \in 1..n : r[k] = q[k]
  BY <1>1, <1>2, EmptyIs, AppendFacts
<1>4. \A x : Listed(r, x) <=> Listed(q, x) \/ x = o
  BY <1>2, <1>3 DEF Listed
<1>5. Distinct(r)
  <2> SUFFICES ASSUME NEW j \in 1..(n + 1), NEW k \in 1..(n + 1), r[j] = r[k] PROVE j = k
    BY <1>3 DEF Distinct
  <2>1. CASE j # n + 1 /\ k # n + 1
    <3>1. j \in 1..n /\ k \in 1..n
      BY <1>3, <2>1
    <3> QED BY <1>2, <1>3, <3>1 DEF Distinct
  <2>2. CASE j = n + 1 /\ k # n + 1
    <3>1. k \in 1..n /\ q[k] = o
      BY <1>3, <2>2
    <3> QED BY <1>2, <3>1 DEF Listed
  <2>3. CASE j # n + 1 /\ k = n + 1
    <3>1. j \in 1..n /\ q[j] = o
      BY <1>3, <2>3
    <3> QED BY <1>2, <3>1 DEF Listed
  <2> QED BY <2>1, <2>2, <2>3
<1>6. FirstOf(r) = (IF q = <<>> THEN o ELSE FirstOf(q)) /\ LastOf(r) = o
  <2>1. r # <<>>
    BY <1>3, EmptyIs
  <2>2. r[1] = IF n = 0 THEN o ELSE q[1]
    BY <1>3
  <2> QED BY <1>3, <2>1, <2>2 DEF FirstOf, LastOf
<1>7. ASSUME NEW k \in 1..(n + 1) PROVE others[r[k]] = Linked(r, k, t)
  <2>1. CASE k = n + 1
    <3>1. LastOf(q) = IF k = 1 THEN Null ELSE r[k - 1]
      <4>1. CASE n = 0
        BY <1>3, <2>1, <4>1 DEF LastOf
      <4>2. CASE n # 0
        <5>1. n \in 1..n /\ k - 1 = n /\ k # 1
          BY <1>3, <2>1, <4>2
        <5> QED BY <1>2, <1>3, <4>2, <5>1 DEF LastOf
      <4> QED BY <4>1, <4>2
    <3> QED BY <1>3, <2>1, <3>1 DEF Linked
  <2>2. CASE k # n + 1
    <3>1. k \in 1..n /\ r[k] = q[k] /\ Listed(q, q[k]) /\ nodes[q[k]] = Linked(q, k, t)
      BY <1>2, <1>3, <2>2 DEF Listed, Threaded
    <3>2. (IF k = 1 THEN Null ELSE q[k - 1]) = IF k = 1 THEN Null ELSE r[k - 1]
      BY <1>3, <3>1
    <3>3. q[k] = LastOf(q) <=> k = n
      <4>1. n \in 1..n /\ LastOf(q) = q[n]
        BY <1>2, <1>3, <3>1 DEF LastOf
      <4> QED BY <1>2, <3>1, <4>1 DEF Distinct
    <3>4. CASE k = n
      <4>1. others[r[k]] = [Linked(q, k, t) EXCEPT !.next = o]
        BY <3>1, <3>3, <3>4 DEF Extended
      <4>2. r[k + 1] = o /\ k # Len(r)
        BY <1>3, <3>4
      <4> QED BY <3>2, <4>1, <4>2 DEF Linked
    <3>5. CASE k # n
      <4>1. others[r[k]] = Linked(q, k, t)
        BY <3>1, <3>3, <3>5 DEF Extended
      <4>2. k + 1 \in 1..n /\ r[k + 1] = q[k + 1] /\ k # Len(r)
        BY <1>3, <3>1, <3>5
      <4> QED BY <1>2, <3>2, <3>5, <4>1, <4>2 DEF Linked
    <3> QED BY <3>4, <3>5
  <2> QED BY <2>1, <2>2
<1>8. Threaded(others, r, t)
  BY <1>3, <1>7 DEF Threaded
<1> QED BY <1>1, <1>2, <1>3, <1>4, <1>5, <1>6, <1>8

\* What remove leaves of the nodes in the list q, out of which x is taken.
Mended(nodes, others, q, o) ==
  \A x \in Nodes : Listed(q, x) /\ x # o =>
    others[x] = IF x = nodes[o].prev THEN [nodes[x] EXCEPT !.next = nodes[o].next]
                ELSE IF x = nodes[o].next THEN [nodes[x] EXCEPT !.prev = nodes[o].prev]
                ELSE nodes[x]

\* A node leaves a list from wherever it has got to.
LEMMA RemoveThreads ==
  ASSUME NEW nodes, NEW others, NEW t, NEW q \in Seq(Nodes), NEW k \in 1..Len(q),
         Distinct(q), Threaded(nodes, q, t),
         Mended(nodes, others, q, q[k])
  PROVE  LET r == RemoveAt(q, k)
         IN  /\ r \in Seq(Nodes) /\ Len(r) = Len(q) - 1
             /\ Distinct(r) /\ Threaded(others, r, t)
             /\ FirstOf(r) = (IF nodes[q[k]].prev = Null THEN nodes[q[k]].next ELSE FirstOf(q))
             /\ LastOf(r) = (IF nodes[q[k]].next = Null THEN nodes[q[k]].prev ELSE LastOf(q))
             /\ \A x : Listed(r, x) <=> Listed(q, x) /\ x # q[k]
<1>1. PICK r : r = RemoveAt(q, k)
  OBVIOUS
<1>2. PICK n : n = Len(q)
  OBVIOUS
<1>3. /\ n \in Nat /\ k \in 1..n /\ k \in Int /\ (q = <<>> <=> n = 0)
      /\ \A j \in 1..n : q[j] \in Nodes
  BY <1>2, EmptyIs
<1>4. /\ r \in Seq(Nodes) /\ Len(r) = n - 1
      /\ \A j \in 1..(n - 1) : r[j] = IF j < k THEN q[j] ELSE q[j + 1]
  BY <1>1, <1>2, RemoveAtIs
<1>5. \A i, j \in 1..n : q[i] = q[j] => i = j
  BY <1>2 DEF Distinct
<1>6. \A x : Listed(r, x) <=> Listed(q, x) /\ x # q[k]
  <2>1. ASSUME NEW j \in 1..(n - 1) PROVE Listed(q, r[j]) /\ r[j] # q[k]
    <3>1. CASE j < k
      <4>1. j \in 1..n /\ j # k /\ r[j] = q[j]
        BY <1>3, <1>4, <3>1
      <4> QED BY <1>2, <1>3, <1>5, <4>1 DEF Listed
    <3>2. CASE ~(j < k)
      <4>1. j + 1 \in 1..n /\ j + 1 # k /\ r[j] = q[j + 1]
        BY <1>3, <1>4, <3>2
      <4> QED BY <1>2, <1>3, <1>5, <4>1 DEF Listed
    <3> QED BY <3>1, <3>2
  <2>2. ASSUME NEW j \in 1..n, q[j] # q[k] PROVE Listed(r, q[j])
    <3>1. j # k
      BY <2>2
    <3>2. CASE j < k
      <4>1. j \in 1..(n - 1) /\ r[j] = q[j]
        BY <1>3, <1>4, <3>2
      <4> QED BY <1>4, <4>1 DEF Listed
    <3>3. CASE ~(j < k)
      <4>1. j - 1 \in 1..(n - 1) /\ ~(j - 1 < k) /\ (j - 1) + 1 = j
        BY <1>3, <3>1, <3>3
      <4>2. r[j - 1] = q[j]
        BY <1>4, <4>1
      <4> QED BY <1>4, <4>1, <4>2 DEF Listed
    <3> QED BY <3>2, <3>3
  <2>3. ASSUME NEW x, Listed(r, x) PROVE Listed(q, x) /\ x # q[k]
    BY <1>4, <2>1, <2>3 DEF Listed
  <2>4. ASSUME NEW x, Listed(q, x), x # q[k] PROVE Listed(r, x)
    BY <1>2, <2>2, <2>4 DEF Listed
  <2> QED BY <2>3, <2>4
<1>7. Distinct(r)
  <2> SUFFICES ASSUME NEW i \in 1..(n - 1), NEW j \in 1..(n - 1), r[i] = r[j] PROVE i = j
    BY <1>4 DEF Distinct
  <2>1. PICK a, b : a = (IF i < k THEN i ELSE i + 1) /\ b = (IF j < k THEN j ELSE j + 1)
    OBVIOUS
  <2>2. r[i] = q[a] /\ r[j] = q[b] /\ a \in 1..n /\ b \in 1..n
    BY <1>3, <1>4, <2>1
  <2>3. a = b
    BY <1>5, <2>2
  <2> QED BY <1>3, <2>1, <2>3
<1>8. PICK before, after :
        /\ before = (IF k = 1 THEN Null ELSE q[k - 1])
        /\ after = (IF k = n THEN Null ELSE q[k + 1])
  OBVIOUS
<1>9. nodes[q[k]].prev = before /\ nodes[q[k]].next = after
  <2>1. nodes[q[k]] = Linked(q, k, t)
    BY DEF Threaded
  <2> QED BY <1>2, <1>8, <2>1 DEF Linked
<1>10. ASSUME NEW j \in 1..(n - 1) PROVE others[r[j]] = Linked(r, j, t)
  <2>1. PICK m : m = IF j < k THEN j ELSE j + 1
    OBVIOUS
  <2>2. m \in 1..n /\ m \in Int /\ j \in Int /\ m # k /\ r[j] = q[m] /\ q[m] # q[k] /\ q[m] \in Nodes
    <3>1. m \in 1..n /\ m \in Int /\ j \in Int /\ m # k /\ r[j] = q[m]
      BY <1>3, <1>4, <2>1
    <3> QED BY <1>3, <1>5, <3>1
  <2>3. nodes[q[m]] = Linked(q, m, t)
    BY <1>2, <2>2 DEF Threaded
  <2>4. others[q[m]] = IF q[m] = before THEN [Linked(q, m, t) EXCEPT !.next = after]
                       ELSE IF q[m] = after THEN [Linked(q, m, t) EXCEPT !.prev = before]
                       ELSE Linked(q, m, t)
    <3>1. Listed(q, q[m])
      BY <1>2, <2>2 DEF Listed
    <3> QED BY <1>9, <2>2, <2>3, <3>1 DEF Mended
  <2>5. q[m] = before <=> m = k - 1
    <3>1. CASE k = 1
      <4>1. q[m] # Null /\ m # k - 1
        BY <1>3, <2>2, <3>1, NullAssumption
      <4> QED BY <1>8, <3>1, <4>1
    <3>2. CASE k # 1
      <4>1. k - 1 \in 1..n
        BY <1>3, <3>2
      <4> QED BY <1>5, <1>8, <2>2, <3>2, <4>1
    <3> QED BY <3>1, <3>2
  <2>6. q[m] = after <=> m = k + 1
    <3>1. CASE k = n
      <4>1. q[m] # Null /\ m # k + 1
        BY <1>3, <2>2, <3>1, NullAssumption
      <4> QED BY <1>8, <3>1, <4>1
    <3>2. CASE k # n
      <4>1. k + 1 \in 1..n
        BY <1>3, <3>2
      <4> QED BY <1>5, <1>8, <2>2, <3>2, <4>1
    <3> QED BY <3>1, <3>2
  <2>7. PICK P, N : /\ P = (IF m = 1 THEN Null ELSE q[m - 1])
                    /\ N = (IF m = n THEN Null ELSE q[m + 1])
    OBVIOUS
  <2>8. others[r[j]] = [prev |-> IF m = k + 1 THEN before ELSE P,
                        next |-> IF m = k - 1 THEN after ELSE N, level |-> t]
    <3>1. Linked(q, m, t) = [prev |-> P, next |-> N, level |-> t]
      BY <1>2, <2>7 DEF Linked
    <3>2. ~(m = k - 1 /\ m = k + 1)
      BY <1>3
    <3> QED BY <2>2, <2>4, <2>5, <2>6, <3>1, <3>2
  <2>9. (IF m = k + 1 THEN before ELSE P) = IF j = 1 THEN Null ELSE r[j - 1]
    <3>1. CASE m = k + 1
      <4>1. j = k
        BY <1>3, <2>1, <3>1
      <4>2. k # 1 => k - 1 \in 1..(n - 1) /\ k - 1 < k
        BY <1>3
      <4> QED BY <1>4, <1>8, <3>1, <4>1, <4>2
    <3>2. CASE m # k + 1 /\ j < k
      <4>1. j = m /\ (j # 1 => j - 1 \in 1..(n - 1) /\ j - 1 < k)
        BY <1>3, <2>1, <3>2
      <4> QED BY <1>4, <2>7, <3>2, <4>1
    <3>3. CASE m # k + 1 /\ ~(j < k)
      <4>1. m = j + 1 /\ j # 1 /\ m # 1 /\ j - 1 \in 1..(n - 1) /\ ~(j - 1 < k) /\ (j - 1) + 1 = m - 1
        BY <1>3, <2>1, <3>3
      <4>2. r[j - 1] = q[m - 1]
        BY <1>4, <4>1
      <4> QED BY <2>7, <3>3, <4>1, <4>2
    <3> QED BY <3>1, <3>2, <3>3
  <2>10. (IF m = k - 1 THEN after ELSE N) = IF j = n - 1 THEN Null ELSE r[j + 1]
    <3>1. CASE m = k - 1
      <4>1. j = k - 1 /\ (k # n => k \in 1..(n - 1) /\ ~(k < k)) /\ j + 1 = k
        BY <1>3, <2>1, <3>1
      <4>2. j = n - 1 <=> k = n
        BY <1>3, <4>1
      <4>3. k # n => r[k] = q[k + 1]
        BY <1>4, <4>1
      <4> QED BY <1>8, <3>1, <4>1, <4>2, <4>3
    <3>2. CASE m # k - 1 /\ j < k
      <4>1. j = m /\ j # n - 1 /\ m # n /\ j + 1 \in 1..(n - 1) /\ j + 1 < k
        BY <1>3, <2>1, <3>2
      <4>2. r[j + 1] = q[m + 1]
        BY <1>4, <4>1
      <4> QED BY <2>7, <3>2, <4>1, <4>2
    <3>3. CASE m # k - 1 /\ ~(j < k)
      <4>1. m = j + 1 /\ (m = n <=> j = n - 1)
            /\ (j # n - 1 => j + 1 \in 1..(n - 1) /\ ~(j + 1 < k))
        BY <1>3, <2>1, <3>3
      <4>2. j # n - 1 => r[j + 1] = q[m + 1]
        BY <1>4, <4>1
      <4> QED BY <2>7, <3>3, <4>1, <4>2
    <3> QED BY <3>1, <3>2, <3>3
  <2> QED BY <1>4, <2>8, <2>9, <2>10 DEF Linked
<1>11. Threaded(others, r, t)
  BY <1>4, <1>10 DEF Threaded
<1>12. before = Null <=> k = 1
  BY <1>3, <1>8, NullAssumption
<1>13. after = Null <=> k = n
  BY <1>3, <1>8, NullAssumption
<1>14. r = <<>> <=> n = 1
  BY <1>3, <1>4, EmptyIs
<1>15. FirstOf(r) = (IF before = Null THEN after ELSE FirstOf(q))
  <2>1. FirstOf(q) = q[1]
    BY <1>3 DEF FirstOf
  <2>2. CASE n = 1
    BY <1>3, <1>8, <1>12, <1>14, <2>2 DEF FirstOf
  <2>3. CASE n # 1
    <3>1. 1 \in 1..(n - 1) /\ (1 < k <=> k # 1)
      BY <1>3, <2>3
    <3>2. r[1] = IF k = 1 THEN q[2] ELSE q[1]
      BY <1>4, <3>1
    <3>3. FirstOf(r) = r[1]
      BY <1>14, <2>3 DEF FirstOf
    <3> QED BY <1>8, <1>12, <2>1, <2>3, <3>2, <3>3
  <2> QED BY <2>2, <2>3
<1>16. LastOf(r) = (IF after = Null THEN before ELSE LastOf(q))
  <2>1. LastOf(q) = q[n]
    BY <1>2, <1>3 DEF LastOf
  <2>2. CASE n = 1
    BY <1>3, <1>8, <1>13, <1>14, <2>2 DEF LastOf
  <2>3. CASE n # 1
    <3>1. n - 1 \in 1..(n - 1) /\ (n - 1 < k <=> k = n) /\ (n - 1) + 1 = n
      BY <1>3, <2>3
    <3>2. r[n - 1] = IF k = n THEN q[n - 1] ELSE q[n]
      BY <1>4, <3>1
    <3>3. LastOf(r) = r[n - 1]
      BY <1>4, <1>14, <2>3 DEF LastOf
    <3> QED BY <1>8, <1>13, <2>1, <2>3, <3>2, <3>3
  <2> QED BY <2>2, <2>3
<1> QED BY <1>1, <1>2, <1>4, <1>6, <1>7, <1>9, <1>11, <1>15, <1>16

\* The free list loses its first node.
LEMMA TailChains ==
  ASSUME NEW nodes, NEW others, NEW f \in Seq(Nodes), f # <<>>, Distinct(f), Chained(nodes, f),
         \A x : Listed(f, x) /\ x # f[1] => others[x] = nodes[x]
  PROVE  /\ Tail(f) \in Seq(Nodes) /\ Distinct(Tail(f)) /\ Chained(others, Tail(f))
         /\ FirstOf(Tail(f)) = nodes[f[1]].next
         /\ \A x : Listed(Tail(f), x) <=> Listed(f, x) /\ x # f[1]
<1>1. PICK r, n : r = Tail(f) /\ n = Len(f)
  OBVIOUS
<1>2. /\ n \in Nat \ {0} /\ r \in Seq(Nodes) /\ Len(r) = n - 1
      /\ \A k \in 1..(n - 1) : r[k] = f[k + 1]
  BY <1>1, TailFacts
<1>3. \A j, k \in 1..n : f[j] = f[k] => j = k
  BY <1>1 DEF Distinct
<1>4. Distinct(r)
  <2> SUFFICES ASSUME NEW j \in 1..(n - 1), NEW k \in 1..(n - 1), r[j] = r[k] PROVE j = k
    BY <1>2 DEF Distinct
  <2>1. j + 1 \in 1..n /\ k + 1 \in 1..n
    BY <1>2
  <2>2. j + 1 = k + 1
    BY <1>2, <1>3, <2>1
  <2> QED BY <2>2
<1>5. \A x : Listed(r, x) <=> Listed(f, x) /\ x # f[1]
  <2>1. ASSUME NEW k \in 1..(n - 1) PROVE Listed(f, r[k]) /\ r[k] # f[1]
    <3>1. k + 1 \in 1..n /\ 1 \in 1..n /\ k + 1 # 1 /\ r[k] = f[k + 1]
      BY <1>2
    <3> QED BY <1>1, <1>3, <3>1 DEF Listed
  <2>2. ASSUME NEW k \in 1..n, f[k] # f[1] PROVE Listed(r, f[k])
    <3>1. k - 1 \in 1..(n - 1) /\ (k - 1) + 1 = k
      BY <1>2, <2>2
    <3>2. r[k - 1] = f[k]
      BY <1>2, <3>1
    <3> QED BY <1>2, <3>1, <3>2 DEF Listed
  <2>3. ASSUME NEW x, Listed(r, x) PROVE Listed(f, x) /\ x # f[1]
    BY <1>2, <2>1, <2>3 DEF Listed
  <2>4. ASSUME NEW x, Listed(f, x), x # f[1] PROVE Listed(r, x)
    BY <1>1, <2>2, <2>4 DEF Listed
  <2> QED BY <2>3, <2>4
<1>6. ASSUME NEW k \in 1..(n - 1) PROVE others[r[k]] = Parked(r, k)
  <2>1. k + 1 \in 1..n /\ r[k] = f[k + 1]
    BY <1>2
  <2>2. others[r[k]] = nodes[f[k + 1]]
    <3>1. Listed(f, r[k]) /\ r[k] # f[1]
      <4>1. Listed(r, r[k])
        BY <1>2 DEF Listed
      <4> QED BY <1>5, <4>1
    <3> QED BY <2>1, <3>1
  <2>3. nodes[f[k + 1]] = Parked(f, k + 1)
    BY <1>1, <2>1 DEF Chained
  <2>4. /\ k + 1 = n <=> k = n - 1
        /\ k # n - 1 => k + 1 \in 1..(n - 1)
    BY <1>2
  <2>5. k # n - 1 => r[k + 1] = f[(k + 1) + 1]
    BY <1>2, <2>4
  <2> QED BY <1>1, <1>2, <2>2, <2>3, <2>4, <2>5 DEF Parked
<1>7. Chained(others, r)
  BY <1>2, <1>6 DEF Chained
<1>8. FirstOf(r) = nodes[f[1]].next
  <2>1. nodes[f[1]] = Parked(f, 1)
    BY <1>1, <1>2 DEF Chained
  <2>2. r = <<>> <=> n = 1
    BY <1>2, EmptyIs
  <2>3. n # 1 => 1 \in 1..(n - 1)
    BY <1>2
  <2>4. n # 1 => r[1] = f[1 + 1]
    BY <1>2, <2>3
  <2> QED BY <1>1, <2>1, <2>2, <2>4 DEF FirstOf, Parked
<1> QED BY <1>1, <1>2, <1>4, <1>5, <1>7, <1>8

Untouched(nodes, others, f) == \A x : Listed(f, x) => others[x] = nodes[x]

\* A node is put in front of the free list.
LEMMA PushChains ==
  ASSUME NEW nodes, NEW others, NEW f \in Seq(Nodes), NEW o \in Nodes,
         Distinct(f), Chained(nodes, f), ~Listed(f, o),
         others[o] = [prev |-> Null, next |-> FirstOf(f), level |-> Null],
         Untouched(nodes, others, f)
  PROVE  \E g \in Seq(Nodes) : /\ Distinct(g) /\ Chained(others, g) /\ FirstOf(g) = o
                               /\ \A x : Listed(g, x) <=> Listed(f, x) \/ x = o
<1>1. PICK g, n : g = <<o>> \o f /\ n = Len(f)
  OBVIOUS
<1>2. /\ n \in Nat /\ g \in Seq(Nodes) /\ Len(g) = n + 1 /\ g[1] = o
      /\ \A k \in 1..n : g[1 + k] = f[k]
      /\ f = <<>> <=> n = 0
  <2>1. <<o>> \in Seq(Nodes) /\ Len(<<o>>) = 1 /\ <<o>>[1] = o
    OBVIOUS
  <2> QED BY <1>1, <2>1, ConcatFacts, EmptyIs
<1>3. \A k \in 1..(n + 1) : IF k = 1 THEN g[k] = o ELSE k - 1 \in 1..n /\ g[k] = f[k - 1]
  <2> SUFFICES ASSUME NEW k \in 1..(n + 1), k # 1 PROVE k - 1 \in 1..n /\ g[k] = f[k - 1]
    BY <1>2
  <2>1. k - 1 \in 1..n /\ 1 + (k - 1) = k
    BY <1>2
  <2> QED BY <1>2, <2>1
<1>4. \A x : Listed(g, x) <=> Listed(f, x) \/ x = o
  <2>1. ASSUME NEW x, Listed(g, x) PROVE Listed(f, x) \/ x = o
    BY <1>1, <1>2, <1>3, <2>1 DEF Listed
  <2>2. ASSUME NEW k \in 1..n PROVE Listed(g, f[k])
    <3>1. 1 + k \in 1..(n + 1)
      BY <1>2
    <3> QED BY <1>2, <3>1 DEF Listed
  <2>3. Listed(g, o)
    <3>1. 1 \in 1..(n + 1)
      BY <1>2
    <3> QED BY <1>2, <3>1 DEF Listed
  <2>4. ASSUME NEW x, Listed(f, x) PROVE Listed(g, x)
    BY <1>1, <2>2, <2>4 DEF Listed
  <2> QED BY <2>1, <2>3, <2>4
<1>5. Distinct(g)
  <2> SUFFICES ASSUME NEW j \in 1..(n + 1), NEW k \in 1..(n + 1), g[j] = g[k] PROVE j = k
    BY <1>2 DEF Distinct
  <2>1. \A m \in 1..n : f[m] # o
    BY <1>1 DEF Listed
  <2>2. CASE j = 1 \/ k = 1
    BY <1>3, <2>1, <2>2
  <2>3. CASE j # 1 /\ k # 1
    <3>1. j - 1 \in 1..n /\ k - 1 \in 1..n /\ f[j - 1] = f[k - 1]
      BY <1>3, <2>3
    <3>2. j - 1 = k - 1
      BY <1>1, <3>1 DEF Distinct
    <3> QED BY <3>2
  <2> QED BY <2>2, <2>3
<1>6. ASSUME NEW k \in 1..(n + 1) PROVE others[g[k]] = Parked(g, k)
  <2>1. CASE k = 1
    <3>1. FirstOf(f) = IF k = n + 1 THEN Null ELSE g[k + 1]
      <4>1. CASE n = 0
        BY <1>2, <2>1, <4>1 DEF FirstOf
      <4>2. CASE n # 0
        <5>1. 1 \in 1..n /\ k # n + 1 /\ k + 1 = 1 + 1
          BY <1>2, <2>1, <4>2
        <5>2. g[k + 1] = f[1]
          BY <1>2, <5>1
        <5> QED BY <1>2, <4>2, <5>1, <5>2 DEF FirstOf
      <4> QED BY <4>1, <4>2
    <3> QED BY <1>2, <2>1, <3>1 DEF Parked
  <2>2. CASE k # 1
    <3>1. k - 1 \in 1..n /\ g[k] = f[k - 1]
      BY <1>3, <2>2
    <3>2. others[g[k]] = Parked(f, k - 1)
      BY <1>1, <3>1 DEF Listed, Chained, Untouched
    <3>3. /\ k - 1 = n <=> k = n + 1
          /\ k # n + 1 => k \in 1..n /\ 1 + k = k + 1 /\ (k - 1) + 1 = k
      BY <1>2, <3>1
    <3>4. k # n + 1 => g[k + 1] = f[(k - 1) + 1]
      BY <1>2, <3>3
    <3> QED BY <1>1, <1>2, <3>2, <3>3, <3>4 DEF Parked
  <2> QED BY <2>1, <2>2
<1>7. Chained(others, g)
  BY <1>2, <1>6 DEF Chained
<1>8. FirstOf(g) = o
  <2>1. g # <<>>
    BY <1>2, EmptyIs
  <2> QED BY <1>2, <2>1 DEF FirstOf
<1> QED BY <1>2, <1>4, <1>5, <1>7, <1>8

-----------------------------------------------------------------------------
(* The invariant.                                                          *)

Tags == Sides \X Prices

NodeRecords ==
  [prev : Nodes \cup {Null}, next : Nodes \cup {Null}, level : Tags \cup {Null}]

\* An array always has its levels; a tree has none without orders.
StoreOK ==
  /\ ladder \in {"map", "dense", "pooled"}
  /\ node \in [Nodes -> NodeRecords]
  /\ unused \in SUBSET Nodes
  /\ level \in [Sides -> [Prices -> LevelRecords \cup {NoLevel}]]
  /\ \A s \in Sides, p \in Prices :
       IF ladder = "dense" THEN level[s][p] # NoLevel
       ELSE level[s][p] # NoLevel => level[s][p].count # 0

\* Parked levels have no orders any more, and there are not too many of them.
IsParked(l) == l = [Level EXCEPT !.price = l.price]

CacheIs(c) ==
  c \in Seq(LevelRecords) /\ Len(c) <= MaxCached /\ \A k \in 1..Len(c) : IsParked(c[k])

ParkedOK == cache \in [Sides -> Seq(LevelRecords)] /\ \A s \in Sides : CacheIs(cache[s])

\* The level record l stands for the queue q at price p.
StandsFor(l, q, p) ==
  IF l = NoLevel THEN q = <<>>
  ELSE /\ l.head = FirstOf(q) /\ l.tail = LastOf(q) /\ l.count = Len(q)
       /\ q # <<>> => l.price = p

\* The store stands for the queues q and the free list f.
Queued(q) ==
  \A s \in Sides, p \in Prices :
    /\ StandsFor(level[s][p], q[s][p], p)
    /\ Distinct(q[s][p]) /\ Threaded(node, q[s][p], <<s, p>>)

Freed(f) == Distinct(f) /\ Chained(node, f) /\ free = FirstOf(f)

Unused(f) == \A o \in unused : node[o] = Order /\ ~Listed(f, o)

Complete(q, f) ==
  \A o \in Nodes : o \in unused \/ Listed(f, o) \/ \E s \in Sides, p \in Prices : Listed(q[s][p], o)

QueueSpace == [Sides -> [Prices -> Seq(Nodes)]]

Shape(q, f) == Queued(q) /\ Freed(f) /\ Unused(f) /\ Complete(q, f)

\* A node is in one queue at most, and then it is neither free nor unused.
LEMMA ListedKnowsLevel ==
  ASSUME NEW q \in QueueSpace, NEW f \in Seq(Nodes), Shape(q, f)
  PROVE  /\ \A s \in Sides, p \in Prices : \A o :
              Listed(q[s][p], o) => o \in Nodes /\ node[o].level = <<s, p>> /\ <<s, p>> # Null
         /\ \A o : Listed(f, o) => o \in Nodes /\ node[o].level = Null
         /\ \A o \in unused : node[o].level = Null
<1>1. ASSUME NEW s \in Sides, NEW p \in Prices, NEW o, Listed(q[s][p], o)
      PROVE  o \in Nodes /\ node[o].level = <<s, p>> /\ <<s, p>> # Null
  <2>1. PICK k \in 1..Len(q[s][p]) : q[s][p][k] = o
    BY <1>1 DEF Listed
  <2>2. q[s][p] \in Seq(Nodes)
    BY DEF QueueSpace
  <2>3. o \in Nodes
    BY <2>1, <2>2, EmptyIs
  <2>4. node[o] = Linked(q[s][p], k, <<s, p>>)
    BY <2>1 DEF Shape, Queued, Threaded
  <2> QED BY <2>3, <2>4, NullAssumption DEF Linked
<1>2. ASSUME NEW o, Listed(f, o) PROVE o \in Nodes /\ node[o].level = Null
  <2>1. PICK k \in 1..Len(f) : f[k] = o
    BY <1>2 DEF Listed
  <2>2. node[o] = Parked(f, k)
    BY <2>1 DEF Shape, Freed, Chained
  <2> QED BY <2>1, <2>2, EmptyIs DEF Parked
<1>3. \A o \in unused : node[o].level = Null
  BY DEF Shape, Unused, Order
<1> QED BY <1>1, <1>2, <1>3

\* What get_or_create returns.
Got(s, p) ==
  CASE ladder = "dense" -> DenseGot(s, p)
    [] ladder = "pooled" -> PooledGot(s, p)
    [] ladder = "map" -> MapGot(s, p)

LEMMA LevelUpdated ==
  ASSUME NEW l \in LevelRecords, NEW h, NEW t, NEW c
  PROVE  [l EXCEPT !.head = h, !.tail = t, !.count = c] =
           [price |-> l.price, head |-> h, tail |-> t, count |-> c]
<1>1. PICK a : a = [l EXCEPT !.head = h]
  OBVIOUS
<1>2. a = [price |-> l.price, head |-> h, tail |-> l.tail, count |-> l.count]
  BY <1>1 DEF LevelRecords
<1>3. PICK b : b = [a EXCEPT !.tail = t]
  OBVIOUS
<1>4. b = [price |-> l.price, head |-> h, tail |-> t, count |-> l.count]
  BY <1>2, <1>3
<1>5. PICK d : d = [b EXCEPT !.count = c]
  OBVIOUS
<1>6. d = [price |-> l.price, head |-> h, tail |-> t, count |-> c]
  BY <1>4, <1>5
<1>7. [l EXCEPT !.head = h, !.tail = t, !.count = c] = d
  BY <1>1, <1>3, <1>5
<1> QED BY <1>6, <1>7

\* Whatever level is reused, it is made new.
LEMMA RenewedIs ==
  ASSUME NEW l \in LevelRecords, NEW p \in Prices
  PROVE  Renewed(l, p) = [Level EXCEPT !.price = p]
<1>1. PICK a : a = [l EXCEPT !.price = p]
  OBVIOUS
<1>2. a \in LevelRecords /\ a.price = p
  BY <1>1 DEF LevelRecords
<1>3. Renewed(l, p) = [a EXCEPT !.head = Null, !.tail = Null, !.count = 0]
  BY <1>1 DEF Renewed
<1>4. Renewed(l, p) = [price |-> p, head |-> Null, tail |-> Null, count |-> 0]
  BY <1>2, <1>3, LevelUpdated
<1> QED BY <1>4 DEF Level

LEMMA GotStands ==
  ASSUME StoreOK, ParkedOK, NEW q \in Seq(Nodes), NEW s \in Sides, NEW p \in Prices,
         StandsFor(level[s][p], q, p)
  PROVE  /\ Got(s, p) \in LevelRecords
         /\ Got(s, p).head = FirstOf(q) /\ Got(s, p).tail = LastOf(q)
         /\ Got(s, p).count = Len(q) /\ Got(s, p).price = p
<1> DEFINE l == level[s][p]
<1>1. l \in LevelRecords \cup {NoLevel} /\ Len(q) \in Nat /\ (q = <<>> <=> Len(q) = 0)
  BY EmptyIs DEF StoreOK
<1>2. [Level EXCEPT !.price = p] \in LevelRecords
      /\ [Level EXCEPT !.price = p] = [price |-> p, head |-> Null, tail |-> Null, count |-> 0]
  BY DEF Level, LevelRecords
<1>3. CASE ladder = "dense"
  <2>1. l # NoLevel /\ l \in LevelRecords
    BY <1>1, <1>3 DEF StoreOK
  <2>2. Got(s, p) = IF l.count = 0 THEN [l EXCEPT !.price = p] ELSE l
    BY <1>3 DEF Got, DenseGot
  <2>3. CASE l.count = 0
    BY <2>1, <2>2, <2>3 DEF StandsFor, LevelRecords
  <2>4. CASE l.count # 0
    BY <1>1, <2>1, <2>2, <2>4 DEF StandsFor
  <2> QED BY <2>3, <2>4
<1>4. CASE ladder # "dense"
  <2>1. Got(s, p) = IF l # NoLevel THEN l ELSE [Level EXCEPT !.price = p]
    <3>1. cache[s] # <<>> => Renewed(Last(cache[s]), p) = [Level EXCEPT !.price = p]
      <4>1. cache[s] \in Seq(LevelRecords)
        BY DEF ParkedOK
      <4>2. cache[s] # <<>> => Last(cache[s]) \in LevelRecords
        BY <4>1, EmptySeq, LenProperties DEF Last
      <4> QED BY <4>2, RenewedIs
    <3>2. p \in Tree(s) <=> l # NoLevel
      BY DEF Tree
    <3> QED BY <1>4, <3>1, <3>2 DEF Got, PooledGot, MapGot, StoreOK
  <2>2. CASE l = NoLevel
    <3>1. q = <<>> /\ FirstOf(q) = Null /\ LastOf(q) = Null
      BY <2>2 DEF StandsFor, FirstOf, LastOf
    <3> QED BY <1>1, <1>2, <2>1, <2>2, <3>1
  <2>3. CASE l # NoLevel
    <3>1. l.count # 0
      BY <1>4, <2>3 DEF StoreOK
    <3> QED BY <1>1, <2>1, <2>3, <3>1 DEF StandsFor
  <2> QED BY <2>2, <2>3
<1> QED BY <1>3, <1>4

LEMMA NodesElsewhere ==
  ASSUME NEW nodes, NEW others, NEW t, NEW q, \A x : Listed(q, x) => others[x] = nodes[x]
  PROVE  /\ Threaded(nodes, q, t) => Threaded(others, q, t)
         /\ Chained(nodes, q) => Chained(others, q)
<1>1. \A k \in 1..Len(q) : others[q[k]] = nodes[q[k]]
  BY DEF Listed
<1> QED BY <1>1 DEF Threaded, Chained

\* The node alloc hands out is in no queue, and the free list goes on.
LEMMA AllocIsNew ==
  ASSUME StoreOK, NEW q \in QueueSpace, NEW f \in Seq(Nodes), Shape(q, f),
         NEW o \in Nodes, Alloc(o)
  PROVE  /\ node[o].level = Null
         /\ \A t \in Sides, r \in Prices : ~Listed(q[t][r], o)
         /\ \/ f # <<>> /\ o = f[1] /\ free' = node[o].next /\ unused' = unused
            \/ o \in unused /\ ~Listed(f, o) /\ free' = free /\ unused' = unused \ {o}
<1>1. CASE free # Null
  <2>1. f # <<>> /\ o = f[1] /\ free' = node[o].next /\ unused' = unused
    BY <1>1 DEF Alloc, Shape, Freed, FirstOf
  <2>2. Listed(f, o)
    <3>1. Len(f) \in Nat /\ Len(f) # 0
      BY <2>1, EmptyIs
    <3>2. 1 \in 1..Len(f)
      BY <3>1
    <3> QED BY <2>1, <3>2 DEF Listed
  <2>3. node[o].level = Null
    BY <2>2, ListedKnowsLevel
  <2> QED BY <2>1, <2>3, ListedKnowsLevel
<1>2. CASE free = Null
  <2>1. o \in unused /\ free' = free /\ unused' = unused \ {o}
    BY <1>2 DEF Alloc
  <2>2. node[o].level = Null /\ ~Listed(f, o)
    BY <2>1, ListedKnowsLevel DEF Shape, Unused
  <2> QED BY <2>1, <2>2, ListedKnowsLevel
<1> QED BY <1>1, <1>2

LEMMA PushedStands ==
  ASSUME NEW l \in LevelRecords, NEW q \in Seq(Nodes), NEW r \in Seq(Nodes), NEW o \in Nodes,
         NEW p, l.head = FirstOf(q), l.tail = LastOf(q), l.count = Len(q), l.price = p,
         Len(r) = Len(q) + 1, FirstOf(r) = (IF q = <<>> THEN o ELSE FirstOf(q)), LastOf(r) = o
  PROVE  /\ PushedBack(l, o) \in LevelRecords /\ PushedBack(l, o) # NoLevel
         /\ PushedBack(l, o).count # 0 /\ StandsFor(PushedBack(l, o), r, p)
<1>1. Len(q) \in Nat /\ (q = <<>> <=> Len(q) = 0) /\ \A k \in 1..Len(q) : q[k] \in Nodes
  BY EmptyIs
<1>2. l.tail = Null <=> q = <<>>
  <2>1. q # <<>> => Len(q) \in 1..Len(q)
    BY <1>1
  <2> QED BY <1>1, <2>1, NullAssumption DEF LastOf
<1>3. PushedBack(l, o) = [price |-> l.price, head |-> IF q = <<>> THEN o ELSE l.head,
                          tail |-> o, count |-> l.count + 1]
  <2>1. PICK h : h = IF q = <<>> THEN o ELSE l.head
    OBVIOUS
  <2>2. PushedBack(l, o) = [l EXCEPT !.head = h, !.tail = o, !.count = @ + 1]
    BY <1>2, <2>1 DEF PushedBack
  <2>3. [l EXCEPT !.head = h, !.tail = o, !.count = l.count + 1] =
          [price |-> l.price, head |-> h, tail |-> o, count |-> l.count + 1]
    BY LevelUpdated
  <2> QED BY <2>1, <2>2, <2>3
<1>4. PushedBack(l, o) \in LevelRecords
  BY <1>1, <1>3 DEF LevelRecords
<1>5. PushedBack(l, o) # NoLevel
  BY <1>4, NoLevelAssumption
<1>6. /\ PushedBack(l, o).count = Len(r) /\ PushedBack(l, o).count # 0
      /\ PushedBack(l, o).head = FirstOf(r)
      /\ PushedBack(l, o).tail = LastOf(r)
      /\ PushedBack(l, o).price = p
  BY <1>1, <1>3
<1> QED BY <1>4, <1>5, <1>6 DEF StandsFor

\* The node that was parked last is taken back.
LEMMA RestParks ==
  ASSUME StoreOK, ParkedOK, NEW o, NEW s \in Sides, NEW p \in Prices, Rest(o, s, p)
  PROVE  ParkedOK'
<1>1. PICK c : c = cache[s]
  OBVIOUS
<1>2. c \in Seq(LevelRecords) /\ CacheIs(c)
  BY <1>1 DEF ParkedOK
<1>3. c # <<>> => Front(c) \in Seq(LevelRecords) /\ CacheIs(Front(c))
  <2> SUFFICES ASSUME c # <<>> PROVE Front(c) \in Seq(LevelRecords) /\ CacheIs(Front(c))
    OBVIOUS
  <2>1. PICK n : n = Len(c) - 1
    OBVIOUS
  <2>2. n \in Nat /\ Len(c) = n + 1 /\ \A k \in 1..n : k \in 1..Len(c) /\ c[k] \in LevelRecords
    BY <1>2, <2>1, EmptySeq, LenProperties
  <2>3. Front(c) = SubSeq(c, 1, n)
    BY <2>1 DEF Front
  <2>4. /\ Front(c) \in Seq(LevelRecords) /\ Len(Front(c)) = n
        /\ \A k \in 1..n : Front(c)[k] = c[k]
    BY <1>2, <2>2, <2>3, SubSeqProperties
  <2> QED BY <1>2, <2>2, <2>4, CacheAssumption DEF CacheIs
<1>4. \/ cache' = cache
      \/ c # <<>> /\ cache' = [cache EXCEPT ![s] = Front(c)]
  BY <1>1 DEF Rest, DenseGet, PooledGet, StoreOK
<1> QED BY <1>3, <1>4 DEF ParkedOK

\* An order rests.
LEMMA RestKeeps ==
  ASSUME StoreOK, ParkedOK, NEW q \in QueueSpace, NEW f \in Seq(Nodes), Shape(q, f),
         NEW o \in Nodes, NEW s \in Sides, NEW p \in Prices, Rest(o, s, p),
         NEW q2, q2 = [q EXCEPT ![s][p] = Append(@, o)]
  PROVE  /\ StoreOK' /\ q2 \in QueueSpace
         /\ \A t \in Sides, r \in Prices : ~Listed(q[t][r], o)
         /\ \E g \in Seq(Nodes) : Shape(q2, g)'
<1>1. PICK l : l = Got(s, p)
  OBVIOUS
<1>2. /\ Alloc(o) /\ ladder' = ladder
      /\ level' = [level EXCEPT ![s][p] = PushedBack(l, o)]
      /\ node' = LinkedIn(l, o, s, p)
  BY <1>1 DEF Rest, Got
<1>3. PICK a : a = q[s][p]
  OBVIOUS
<1>4. a \in Seq(Nodes) /\ Distinct(a) /\ Threaded(node, a, <<s, p>>) /\ StandsFor(level[s][p], a, p)
  BY <1>3 DEF QueueSpace, Shape, Queued
<1>5. l \in LevelRecords /\ l.head = FirstOf(a) /\ l.tail = LastOf(a) /\ l.count = Len(a) /\ l.price = p
  BY <1>1, <1>4, GotStands
<1>6. /\ node[o].level = Null
      /\ \A t \in Sides, r \in Prices : ~Listed(q[t][r], o)
      /\ \/ f # <<>> /\ o = f[1] /\ free' = node[o].next /\ unused' = unused
         \/ o \in unused /\ ~Listed(f, o) /\ free' = free /\ unused' = unused \ {o}
  BY <1>2, AllocIsNew
<1>7. /\ node'[o] = [prev |-> l.tail, next |-> Null, level |-> <<s, p>>]
      /\ \A x \in Nodes : x # o =>
           node'[x] = IF x = l.tail THEN [node[x] EXCEPT !.next = o] ELSE node[x]
      /\ node' \in [Nodes -> NodeRecords]
  <2>1. [prev |-> l.tail, next |-> Null, level |-> <<s, p>>] \in NodeRecords
    BY <1>5 DEF LevelRecords, NodeRecords, Tags
  <2>2. ASSUME NEW x \in Nodes PROVE [node[x] EXCEPT !.next = o] \in NodeRecords /\ node[x] \in NodeRecords
    <3>1. node[x] \in NodeRecords
      BY DEF StoreOK
    <3> QED BY <3>1 DEF NodeRecords
  <2> QED BY <1>2, <2>1, <2>2 DEF LinkedIn
<1>8. \A x \in Nodes : x = l.tail => node[x].level = <<s, p>> /\ <<s, p>> # Null
  <2> SUFFICES ASSUME NEW x \in Nodes, x = LastOf(a) PROVE node[x].level = <<s, p>> /\ <<s, p>> # Null
    BY <1>5
  <2>1. a # <<>>
    BY NullAssumption DEF LastOf
  <2>2. Len(a) \in 1..Len(a)
    BY <1>4, <2>1, EmptyIs
  <2>3. Listed(a, x)
    BY <2>1, <2>2 DEF LastOf, Listed
  <2> QED BY <1>3, <2>3, ListedKnowsLevel
<1>9. \A x \in Nodes : x # o /\ node[x].level # <<s, p>> => node'[x] = node[x]
  BY <1>7, <1>8
<1>10. PICK b : b = Append(a, o)
  OBVIOUS
<1>11. /\ b \in Seq(Nodes) /\ Len(b) = Len(a) + 1 /\ Distinct(b) /\ Threaded(node', b, <<s, p>>)
       /\ FirstOf(b) = (IF a = <<>> THEN o ELSE FirstOf(a)) /\ LastOf(b) = o
       /\ \A x : Listed(b, x) <=> Listed(a, x) \/ x = o
  <2>1. ~Listed(a, o)
    BY <1>3, <1>6
  <2>2. ASSUME NEW x, Listed(a, x)
        PROVE  node'[x] = IF x = LastOf(a) THEN [node[x] EXCEPT !.next = o] ELSE node[x]
    <3>1. x \in Nodes /\ x # o
      BY <1>3, <2>1, <2>2, ListedKnowsLevel
    <3> QED BY <1>5, <1>7, <3>1
  <2>3. node'[o] = [prev |-> LastOf(a), next |-> Null, level |-> <<s, p>>]
    BY <1>5, <1>7
  <2>4. PICK others : others = node'
    OBVIOUS
  <2>5. /\ others[o] = [prev |-> LastOf(a), next |-> Null, level |-> <<s, p>>]
        /\ Extended(node, others, a, o)
    BY <2>2, <2>3, <2>4 DEF Extended
  <2>6. /\ Append(a, o) \in Seq(Nodes) /\ Len(Append(a, o)) = Len(a) + 1
        /\ Distinct(Append(a, o)) /\ Threaded(others, Append(a, o), <<s, p>>)
        /\ FirstOf(Append(a, o)) = (IF a = <<>> THEN o ELSE FirstOf(a))
        /\ LastOf(Append(a, o)) = o
        /\ \A x : Listed(Append(a, o), x) <=> Listed(a, x) \/ x = o
    BY <1>4, <2>1, <2>5, AppendThreads
  <2> QED BY <1>10, <2>4, <2>6
<1>12. /\ PushedBack(l, o) \in LevelRecords /\ PushedBack(l, o) # NoLevel
       /\ PushedBack(l, o).count # 0 /\ StandsFor(PushedBack(l, o), b, p)
  BY <1>4, <1>5, <1>11, PushedStands
<1>13. \A t \in Sides, r \in Prices : q2[t][r] = IF t = s /\ r = p THEN b ELSE q[t][r]
  BY <1>3, <1>10 DEF QueueSpace
<1>14. q2 \in QueueSpace
  BY <1>3, <1>10, <1>11 DEF QueueSpace
<1>15. \A t \in Sides, r \in Prices :
         level'[t][r] = IF t = s /\ r = p THEN PushedBack(l, o) ELSE level[t][r]
  BY <1>2 DEF StoreOK
<1>16. level' \in [Sides -> [Prices -> LevelRecords \cup {NoLevel}]]
  BY <1>2, <1>12 DEF StoreOK
<1>17. StoreOK'
  <2>1. ladder' \in {"map", "dense", "pooled"} /\ unused' \in SUBSET Nodes
    BY <1>2, <1>6 DEF StoreOK
  <2>2. ASSUME NEW t \in Sides, NEW r \in Prices
        PROVE  IF ladder' = "dense" THEN level'[t][r] # NoLevel
               ELSE level'[t][r] # NoLevel => level'[t][r].count # 0
    BY <1>2, <1>12, <1>15 DEF StoreOK
  <2> QED BY <1>7, <1>16, <2>1, <2>2 DEF StoreOK
<1>18. Queued(q2)'
  <2> SUFFICES ASSUME NEW t \in Sides, NEW r \in Prices
               PROVE  /\ StandsFor(level'[t][r], q2[t][r], r)
                      /\ Distinct(q2[t][r]) /\ Threaded(node', q2[t][r], <<t, r>>)
    BY DEF Queued
  <2>1. CASE t = s /\ r = p
    BY <1>11, <1>12, <1>13, <1>15, <2>1
  <2>2. CASE ~(t = s /\ r = p)
    <3>1. q2[t][r] = q[t][r] /\ level'[t][r] = level[t][r]
      BY <1>13, <1>15, <2>2
    <3>2. ASSUME NEW x, Listed(q[t][r], x) PROVE node'[x] = node[x]
      <4>1. x \in Nodes /\ x # o /\ node[x].level = <<t, r>>
        BY <1>6, <3>2, ListedKnowsLevel
      <4> QED BY <1>9, <2>2, <4>1
    <3>3. Threaded(node, q[t][r], <<t, r>>) /\ Distinct(q[t][r]) /\ StandsFor(level[t][r], q[t][r], r)
      BY DEF Shape, Queued
    <3>4. Threaded(node', q[t][r], <<t, r>>)
      BY <3>2, <3>3, NodesElsewhere
    <3> QED BY <3>1, <3>3, <3>4
  <2> QED BY <2>1, <2>2
<1>19. \A x : Listed(f, x) /\ x # o => node'[x] = node[x]
  <2>1. <<s, p>> # Null
    BY NullAssumption
  <2> QED BY <1>9, <2>1, ListedKnowsLevel
<1>20. \A x \in unused : x # o => node'[x] = node[x]
  <2>1. <<s, p>> # Null
    BY NullAssumption
  <2> QED BY <1>9, <2>1, ListedKnowsLevel DEF StoreOK
<1>21. Distinct(f) /\ Chained(node, f) /\ free = FirstOf(f) /\ \A x \in unused : node[x] = Order /\ ~Listed(f, x)
  BY DEF Shape, Freed, Unused
<1>22. \A t \in Sides, r \in Prices : \A x : Listed(q2[t][r], x) <=> Listed(q[t][r], x) \/ (t = s /\ r = p /\ x = o)
  BY <1>3, <1>11, <1>13
<1>23. CASE f # <<>> /\ o = f[1] /\ free' = node[o].next /\ unused' = unused
  <2>1. PICK g : g = Tail(f)
    OBVIOUS
  <2>2. /\ g \in Seq(Nodes) /\ Distinct(g) /\ Chained(node', g) /\ FirstOf(g) = node[f[1]].next
        /\ \A x : Listed(g, x) <=> Listed(f, x) /\ x # f[1]
    BY <1>19, <1>21, <1>23, <2>1, TailChains
  <2>3. Freed(g)'
    BY <1>23, <2>2 DEF Freed
  <2>4. Listed(f, o)
    <3>1. 1 \in 1..Len(f)
      BY <1>23, EmptyIs
    <3> QED BY <1>23, <3>1 DEF Listed
  <2>5. Unused(g)'
    BY <1>20, <1>21, <1>23, <2>2, <2>4 DEF Unused
  <2>6. Complete(q2, g)'
    BY <1>22, <1>23, <2>2 DEF Complete, Shape
  <2> QED BY <1>6, <1>14, <1>17, <1>18, <2>2, <2>3, <2>5, <2>6 DEF Shape
<1>24. CASE o \in unused /\ ~Listed(f, o) /\ free' = free /\ unused' = unused \ {o}
  <2>1. \A x : Listed(f, x) => node'[x] = node[x]
    BY <1>19, <1>24
  <2>2. Chained(node', f)
    BY <1>21, <2>1, NodesElsewhere
  <2>3. Freed(f)'
    BY <1>21, <1>24, <2>2 DEF Freed
  <2>4. Unused(f)'
    BY <1>20, <1>21, <1>24 DEF Unused
  <2>5. Complete(q2, f)'
    BY <1>22, <1>24 DEF Complete, Shape
  <2> QED BY <1>6, <1>14, <1>17, <1>18, <2>3, <2>4, <2>5 DEF Shape
<1> QED BY <1>6, <1>23, <1>24

LEMMA RemovedStands ==
  ASSUME NEW l \in LevelRecords, NEW q \in Seq(Nodes), NEW r \in Seq(Nodes), NEW o \in Nodes,
         NEW p, l # NoLevel, StandsFor(l, q, p), q # <<>>, Len(r) = Len(q) - 1,
         FirstOf(r) = (IF node[o].prev = Null THEN node[o].next ELSE FirstOf(q)),
         LastOf(r) = (IF node[o].next = Null THEN node[o].prev ELSE LastOf(q))
  PROVE  /\ Removed(l, o) \in LevelRecords /\ Removed(l, o) # NoLevel
         /\ Removed(l, o).price = p /\ Removed(l, o).count = Len(r)
         /\ StandsFor(Removed(l, o), r, p)
<1>1. PICK h, t : /\ h = (IF node[o].prev = Null THEN node[o].next ELSE l.head)
                  /\ t = (IF node[o].next = Null THEN node[o].prev ELSE l.tail)
  OBVIOUS
<1>2. l.head = FirstOf(q) /\ l.tail = LastOf(q) /\ l.count = Len(q) /\ l.price = p
  BY DEF StandsFor
<1>3. Removed(l, o) = [l EXCEPT !.head = h, !.tail = t, !.count = l.count - 1]
  BY <1>1 DEF Removed
<1>4. Removed(l, o) = [price |-> l.price, head |-> h, tail |-> t, count |-> l.count - 1]
  BY <1>3, LevelUpdated
<1>5. h = FirstOf(r) /\ t = LastOf(r) /\ l.count - 1 = Len(r)
  BY <1>1, <1>2
<1>6. Len(r) \in Nat /\ (r = <<>> <=> Len(r) = 0) /\ \A k \in 1..Len(r) : r[k] \in Nodes
  BY EmptyIs
<1>7. FirstOf(r) \in Nodes \cup {Null} /\ LastOf(r) \in Nodes \cup {Null}
  <2>1. r # <<>> => 1 \in 1..Len(r) /\ Len(r) \in 1..Len(r)
    BY <1>6
  <2> QED BY <1>6, <2>1 DEF FirstOf, LastOf
<1>8. Removed(l, o) \in LevelRecords
  <2>1. l.price \in Prices \cup {0}
    BY DEF LevelRecords
  <2> QED BY <1>4, <1>5, <1>6, <1>7, <2>1 DEF LevelRecords
<1>9. Removed(l, o) # NoLevel
  BY <1>8, NoLevelAssumption
<1> QED BY <1>2, <1>4, <1>5, <1>8, <1>9 DEF StandsFor

\* Which order is taken off, out of which queue.
LEMMA TakenFrom ==
  ASSUME StoreOK, NEW q \in QueueSpace, NEW f \in Seq(Nodes), Shape(q, f),
         NEW o \in Nodes, node[o].level # Null
  PROVE  \E s \in Sides, p \in Prices : \E k \in 1..Len(q[s][p]) :
           q[s][p][k] = o /\ node[o].level[1] = s /\ node[o].level[2] = p
<1>1. o \notin unused /\ ~Listed(f, o)
  BY ListedKnowsLevel
<1>2. PICK s \in Sides, p \in Prices : Listed(q[s][p], o)
  BY <1>1 DEF Shape, Complete
<1>3. PICK k \in 1..Len(q[s][p]) : q[s][p][k] = o
  BY <1>2 DEF Listed
<1>4. node[o].level = <<s, p>>
  BY <1>2, ListedKnowsLevel
<1> QED BY <1>3, <1>4

\* What becomes of the level an order is taken off.
LEMMA LevelsAfterTakeOff ==
  ASSUME StoreOK, NEW o \in Nodes, TakeOff(o), NEW s \in Sides, NEW p \in Prices,
         node[o].level[1] = s, node[o].level[2] = p,
         Removed(level[s][p], o).price = p, Removed(level[s][p], o) \in LevelRecords
  PROVE  /\ level' \in [Sides -> [Prices -> LevelRecords \cup {NoLevel}]]
         /\ \A t \in Sides, r \in Prices :
              level'[t][r] = IF t = s /\ r = p
                             THEN IF Removed(level[s][p], o).count = 0 /\ ladder # "dense"
                                  THEN NoLevel ELSE Removed(level[s][p], o)
                             ELSE level[t][r]
<1>1. PICK l : l = Removed(level[s][p], o)
  OBVIOUS
<1>2. PICK levels : levels = [level[s] EXCEPT ![p] = l]
  OBVIOUS
<1>3. IF l.count = 0
      THEN CASE ladder = "dense" -> DenseEmptied(s, l, levels)
             [] ladder = "pooled" -> PooledEmptied(s, l, levels)
             [] ladder = "map" -> MapEmptied(s, l, levels)
      ELSE level' = [level EXCEPT ![s] = levels] /\ UNCHANGED <<active, best, cache>>
  BY <1>1, <1>2 DEF TakeOff
<1>4. level' = [level EXCEPT ![s] = IF l.count = 0 /\ ladder # "dense"
                                    THEN [levels EXCEPT ![p] = NoLevel] ELSE levels]
  <2>1. CASE l.count # 0
    BY <1>3, <2>1
  <2>2. CASE l.count = 0 /\ ladder = "dense"
    BY <1>3, <2>2 DEF DenseEmptied
  <2>3. CASE l.count = 0 /\ ladder # "dense"
    <3>1. level' = [level EXCEPT ![s] = [levels EXCEPT ![l.price] = NoLevel]]
      BY <1>3, <2>3 DEF PooledEmptied, MapEmptied, StoreOK
    <3> QED BY <1>1, <2>3, <3>1
  <2> QED BY <2>1, <2>2, <2>3
<1>5. \A t \in Sides, r \in Prices :
        level'[t][r] = IF t = s /\ r = p THEN IF l.count = 0 /\ ladder # "dense" THEN NoLevel ELSE l
                       ELSE level[t][r]
  BY <1>2, <1>4 DEF StoreOK
<1>6. level' \in [Sides -> [Prices -> LevelRecords \cup {NoLevel}]]
  BY <1>1, <1>2, <1>4 DEF StoreOK
<1> QED BY <1>1, <1>5, <1>6

\* An order is taken off.
\* A level that is parked has run empty.
LEMMA TakeOffParks ==
  ASSUME StoreOK, ParkedOK, NEW o \in Nodes, TakeOff(o), NEW s \in Sides, NEW p \in Prices,
         node[o].level[1] = s, node[o].level[2] = p,
         NEW l, l = Removed(level[s][p], o), l \in LevelRecords, l.price = p,
         NEW b \in Seq(Nodes), StandsFor(l, b, p), l.count = Len(b)
  PROVE  ParkedOK'
<1>1. PICK levels : levels = [level[s] EXCEPT ![p] = l]
  OBVIOUS
<1>2. levels[l.price] = l
  BY <1>1 DEF StoreOK
<1>3. \/ cache' = cache
      \/ l.count = 0 /\ Len(cache[s]) < MaxCached /\ cache' = [cache EXCEPT ![s] = Append(@, l)]
  BY <1>1, <1>2 DEF TakeOff, DenseEmptied, PooledEmptied, MapEmptied, StoreOK
<1>4. ASSUME l.count = 0, Len(cache[s]) < MaxCached PROVE CacheIs(Append(cache[s], l))
  <2>1. PICK c, d : c = cache[s] /\ d = Append(c, l)
    OBVIOUS
  <2>2. c \in Seq(LevelRecords) /\ CacheIs(c) /\ Len(c) < MaxCached
    BY <1>4, <2>1 DEF ParkedOK
  <2>3. /\ d \in Seq(LevelRecords) /\ Len(c) \in Nat /\ Len(d) = Len(c) + 1
        /\ d[Len(c) + 1] = l /\ \A k \in 1..Len(c) : d[k] = c[k]
    BY <2>1, <2>2, AppendFacts
  <2>4. IsParked(l)
    <3>1. b = <<>>
      BY <1>4, EmptyIs
    <3>2. l.head = Null /\ l.tail = Null
      BY <3>1, NoLevelAssumption DEF StandsFor, FirstOf, LastOf
    <3>3. l = [price |-> l.price, head |-> l.head, tail |-> l.tail, count |-> l.count]
      BY DEF LevelRecords
    <3> QED BY <1>4, <3>2, <3>3 DEF IsParked, Level
  <2>5. \A k \in 1..Len(d) : IsParked(d[k])
    BY <2>2, <2>3, <2>4 DEF CacheIs
  <2> QED BY <2>1, <2>2, <2>3, <2>5, CacheAssumption DEF CacheIs
<1> QED BY <1>3, <1>4 DEF ParkedOK, CacheIs

LEMMA TakeOffKeeps ==
  ASSUME StoreOK, ParkedOK, NEW q \in QueueSpace, NEW f \in Seq(Nodes), Shape(q, f),
         NEW o \in Nodes, TakeOff(o),
         NEW s \in Sides, NEW p \in Prices, NEW k \in 1..Len(q[s][p]),
         q[s][p][k] = o, node[o].level[1] = s, node[o].level[2] = p,
         NEW q2, q2 = [q EXCEPT ![s][p] = RemoveAt(@, k)]
  PROVE  /\ StoreOK' /\ ParkedOK' /\ q2 \in QueueSpace
         /\ \E g \in Seq(Nodes) : Shape(q2, g)'
<1>1. /\ node' = Released(o) /\ free' = o /\ ladder' = ladder /\ unused' = unused
  BY DEF TakeOff
<1>2. PICK a : a = q[s][p]
  OBVIOUS
<1>3. a \in Seq(Nodes) /\ Distinct(a) /\ Threaded(node, a, <<s, p>>) /\ StandsFor(level[s][p], a, p)
  BY <1>2 DEF QueueSpace, Shape, Queued
<1>4. /\ k \in 1..Len(a) /\ a[k] = o /\ Listed(a, o) /\ a # <<>> /\ level[s][p] # NoLevel
      /\ level[s][p] \in LevelRecords
  <2>1. k \in 1..Len(a) /\ a[k] = o /\ Listed(a, o) /\ a # <<>>
    BY <1>2, <1>3, EmptyIs DEF Listed
  <2>2. level[s][p] # NoLevel
    BY <1>3, <2>1 DEF StandsFor
  <2> QED BY <2>1, <2>2 DEF StoreOK
<1>5. o \in Nodes /\ node[o].level = <<s, p>> /\ <<s, p>> # Null
  BY <1>2, <1>4, ListedKnowsLevel
<1>6. /\ node'[o] = [Order EXCEPT !.next = free]
      /\ \A x \in Nodes : x # o =>
           node'[x] = IF x = node[o].prev THEN [node[x] EXCEPT !.next = node[o].next]
                      ELSE IF x = node[o].next THEN [node[x] EXCEPT !.prev = node[o].prev]
                      ELSE node[x]
  BY <1>1 DEF Released
<1>7. \A x \in Nodes : x = node[o].prev \/ x = node[o].next => node[x].level = <<s, p>>
  <2> SUFFICES ASSUME NEW x \in Nodes, x = node[o].prev \/ x = node[o].next
               PROVE  Listed(a, x)
    BY <1>2, ListedKnowsLevel
  <2>1. node[o] = Linked(a, k, <<s, p>>) /\ Len(a) \in Nat
    BY <1>3, <1>4, EmptyIs DEF Threaded
  <2>2. /\ x = node[o].prev => k # 1 /\ x = a[k - 1]
        /\ x = node[o].next => k # Len(a) /\ x = a[k + 1]
    BY <2>1, NullAssumption DEF Linked
  <2>3. /\ k # 1 => k - 1 \in 1..Len(a)
        /\ k # Len(a) => k + 1 \in 1..Len(a)
    BY <1>4, <2>1
  <2> QED BY <2>2, <2>3 DEF Listed
<1>8. \A x \in Nodes : x # o /\ node[x].level # <<s, p>> => node'[x] = node[x]
  BY <1>6, <1>7
<1>9. PICK b : b = RemoveAt(a, k)
  OBVIOUS
<1>10. /\ b \in Seq(Nodes) /\ Len(b) = Len(a) - 1 /\ Distinct(b) /\ Threaded(node', b, <<s, p>>)
       /\ FirstOf(b) = (IF node[o].prev = Null THEN node[o].next ELSE FirstOf(a))
       /\ LastOf(b) = (IF node[o].next = Null THEN node[o].prev ELSE LastOf(a))
       /\ \A x : Listed(b, x) <=> Listed(a, x) /\ x # o
  <2>1. PICK others : others = node'
    OBVIOUS
  <2>2. Mended(node, others, a, a[k])
    BY <1>4, <1>6, <2>1 DEF Mended
  <2>3. /\ RemoveAt(a, k) \in Seq(Nodes) /\ Len(RemoveAt(a, k)) = Len(a) - 1
        /\ Distinct(RemoveAt(a, k)) /\ Threaded(others, RemoveAt(a, k), <<s, p>>)
        /\ FirstOf(RemoveAt(a, k)) = (IF node[a[k]].prev = Null THEN node[a[k]].next ELSE FirstOf(a))
        /\ LastOf(RemoveAt(a, k)) = (IF node[a[k]].next = Null THEN node[a[k]].prev ELSE LastOf(a))
        /\ \A x : Listed(RemoveAt(a, k), x) <=> Listed(a, x) /\ x # a[k]
    BY <1>3, <1>4, <2>2, RemoveThreads
  <2> QED BY <1>4, <1>9, <2>1, <2>3
<1>11. PICK l : l = Removed(level[s][p], o)
  OBVIOUS
<1>12. l \in LevelRecords /\ l # NoLevel /\ l.price = p /\ l.count = Len(b) /\ StandsFor(l, b, p)
  BY <1>3, <1>4, <1>10, <1>11, RemovedStands
<1>13. PICK m : m = IF l.count = 0 /\ ladder # "dense" THEN NoLevel ELSE l
  OBVIOUS
<1>14. \A t \in Sides, r \in Prices : level'[t][r] = IF t = s /\ r = p THEN m ELSE level[t][r]
  BY <1>11, <1>12, <1>13, LevelsAfterTakeOff
<1>15. level' \in [Sides -> [Prices -> LevelRecords \cup {NoLevel}]]
  BY <1>11, <1>12, LevelsAfterTakeOff
<1>16. StandsFor(m, b, p)
  <2>1. b = <<>> <=> Len(b) = 0
    BY <1>10, EmptyIs
  <2> QED BY <1>12, <1>13, <2>1 DEF StandsFor
<1>17. /\ \A t \in Sides, r \in Prices : q2[t][r] = IF t = s /\ r = p THEN b ELSE q[t][r]
       /\ q2 \in QueueSpace
  BY <1>2, <1>9, <1>10 DEF QueueSpace
<1>18. node' \in [Nodes -> NodeRecords]
  <2>1. node[o] \in NodeRecords /\ node[o].prev \in Nodes \cup {Null} /\ node[o].next \in Nodes \cup {Null}
    BY DEF StoreOK, NodeRecords
  <2>2. free \in Nodes \cup {Null}
    <3>1. f # <<>> => 1 \in 1..Len(f) /\ f[1] \in Nodes
      BY EmptyIs
    <3> QED BY <3>1 DEF Shape, Freed, FirstOf
  <2>3. [Order EXCEPT !.next = free] \in NodeRecords
    BY <2>2 DEF Order, NodeRecords
  <2>4. ASSUME NEW x \in Nodes
        PROVE  /\ node[x] \in NodeRecords
               /\ [node[x] EXCEPT !.next = node[o].next] \in NodeRecords
               /\ [node[x] EXCEPT !.prev = node[o].prev] \in NodeRecords
    <3>1. node[x] \in NodeRecords
      BY DEF StoreOK
    <3> QED BY <2>1, <3>1 DEF NodeRecords
  <2> QED BY <1>1, <2>3, <2>4 DEF Released
<1>19. StoreOK'
  <2>1. ladder' \in {"map", "dense", "pooled"} /\ unused' \in SUBSET Nodes
    BY <1>1 DEF StoreOK
  <2>2. ASSUME NEW t \in Sides, NEW r \in Prices
        PROVE  IF ladder' = "dense" THEN level'[t][r] # NoLevel
               ELSE level'[t][r] # NoLevel => level'[t][r].count # 0
    BY <1>1, <1>12, <1>13, <1>14 DEF StoreOK
  <2> QED BY <1>15, <1>18, <2>1, <2>2 DEF StoreOK
<1>20. Queued(q2)'
  <2> SUFFICES ASSUME NEW t \in Sides, NEW r \in Prices
               PROVE  /\ StandsFor(level'[t][r], q2[t][r], r)
                      /\ Distinct(q2[t][r]) /\ Threaded(node', q2[t][r], <<t, r>>)
    BY DEF Queued
  <2>1. CASE t = s /\ r = p
    BY <1>10, <1>14, <1>16, <1>17, <2>1
  <2>2. CASE ~(t = s /\ r = p)
    <3>1. q2[t][r] = q[t][r] /\ level'[t][r] = level[t][r]
      BY <1>14, <1>17, <2>2
    <3>2. ASSUME NEW x, Listed(q[t][r], x) PROVE node'[x] = node[x]
      <4>1. x \in Nodes /\ node[x].level = <<t, r>>
        BY <3>2, ListedKnowsLevel
      <4>2. <<t, r>> # <<s, p>>
        BY <2>2
      <4> QED BY <1>5, <1>8, <4>1, <4>2
    <3>3. Threaded(node, q[t][r], <<t, r>>) /\ Distinct(q[t][r]) /\ StandsFor(level[t][r], q[t][r], r)
      BY DEF Shape, Queued
    <3>4. Threaded(node', q[t][r], <<t, r>>)
      BY <3>2, <3>3, NodesElsewhere
    <3> QED BY <3>1, <3>3, <3>4
  <2> QED BY <2>1, <2>2
<1>21. Distinct(f) /\ Chained(node, f) /\ free = FirstOf(f) /\ \A x \in unused : node[x] = Order /\ ~Listed(f, x)
  BY DEF Shape, Freed, Unused
<1>22. o \notin unused /\ ~Listed(f, o)
  BY <1>5, ListedKnowsLevel
<1>23. \A x : Listed(f, x) => node'[x] = node[x]
  BY <1>5, <1>8, <1>22, ListedKnowsLevel
<1>24. \A x \in unused : node'[x] = node[x]
  BY <1>5, <1>8, <1>22, ListedKnowsLevel DEF StoreOK
<1>25. node'[o] = [prev |-> Null, next |-> FirstOf(f), level |-> Null]
  BY <1>6, <1>21 DEF Order
<1>26. PICK g \in Seq(Nodes) : /\ Distinct(g) /\ Chained(node', g) /\ FirstOf(g) = o
                               /\ \A x : Listed(g, x) <=> Listed(f, x) \/ x = o
  <2>1. PICK nodes, others : nodes = node /\ others = node'
    OBVIOUS
  <2>2. /\ others[o] = [prev |-> Null, next |-> FirstOf(f), level |-> Null]
        /\ Untouched(nodes, others, f)
    BY <1>23, <1>25, <2>1 DEF Untouched
  <2>3. \E g \in Seq(Nodes) : /\ Distinct(g) /\ Chained(others, g) /\ FirstOf(g) = o
                              /\ \A x : Listed(g, x) <=> Listed(f, x) \/ x = o
    <3>1. Distinct(f) /\ Chained(nodes, f) /\ ~Listed(f, o)
      BY <1>21, <1>22, <2>1
    <3> QED BY <2>2, <3>1, PushChains
  <2> QED BY <2>1, <2>3
<1>27. Freed(g)'
  BY <1>1, <1>26 DEF Freed
<1>28. Unused(g)'
  BY <1>1, <1>21, <1>22, <1>24, <1>26 DEF Unused
<1>29. \A t \in Sides, r \in Prices : \A x : Listed(q[t][r], x) => Listed(q2[t][r], x) \/ x = o
  BY <1>2, <1>10, <1>17
<1>30. Complete(q2, g)'
  BY <1>1, <1>26, <1>29 DEF Complete, Shape
<1>31. ParkedOK'
  BY <1>10, <1>11, <1>12, TakeOffParks
<1> QED BY <1>17, <1>19, <1>20, <1>26, <1>27, <1>28, <1>30, <1>31 DEF Shape

-----------------------------------------------------------------------------
(* Reading the lists.                                                      *)

\* What Chain meets, place by place.
Met(from, link, f) ==
  f = [k \in 0..Cardinality(Nodes) |->
         IF k = 0 THEN from ELSE IF f[k - 1] = Null THEN Null ELSE link[f[k - 1]]]

LEMMA Counted ==
  ASSUME NEW n \in Nat
  PROVE  Cardinality(1..n) = n /\ Cardinality(0..(n - 1)) = n
<1>1. 1 \in Int /\ 0 \in Int /\ n \in Int /\ n - 1 \in Int
  OBVIOUS
<1>2. Cardinality(1..n) = (IF 1 > n THEN 0 ELSE n - 1 + 1)
  BY <1>1, FS_Interval
<1>3. Cardinality(0..(n - 1)) = (IF 0 > n - 1 THEN 0 ELSE n - 1 - 0 + 1)
  BY <1>1, FS_Interval
<1> QED BY <1>2, <1>3

\* Following the links reads the list they make, from its first node.
LEMMA ChainReads ==
  ASSUME NEW link, NEW r \in Seq(Nodes), Distinct(r),
         \A k \in 1..Len(r) : link[r[k]] = IF k = Len(r) THEN Null ELSE r[k + 1]
  PROVE  Chain(FirstOf(r), link) = r
<1>1. PICK n, c : n = Len(r) /\ c = Cardinality(Nodes)
  OBVIOUS
<1>2. n \in Nat /\ (r = <<>> <=> n = 0) /\ (\A k \in 1..n : r[k] \in Nodes) /\ r = [k \in 1..n |-> r[k]]
  BY <1>1, EmptyIs
<1>3. c \in Nat /\ n <= c
  <2>1. r \in Injection(1..n, Nodes)
    <3>1. r \in [1..n -> Nodes]
      BY <1>2
    <3>2. \A j, k \in DOMAIN r : r[j] = r[k] => j = k
      BY <1>1, <3>1 DEF Distinct
    <3> QED BY <3>1, <3>2 DEF Injection, IsInjective
  <2>2. Cardinality(1..n) <= Cardinality(Nodes)
    BY <2>1, NodesAssumption, FS_Injection
  <2>3. Cardinality(1..n) = n
    BY <1>2, Counted
  <2> QED BY <1>1, <2>2, <2>3, NodesAssumption, FS_CardinalityType
<1>4. PICK h : h = [k \in 0..c |-> IF k < n THEN r[k + 1] ELSE Null]
  OBVIOUS
<1>5. \A k \in 0..c : h[k] = Null <=> ~(k < n)
  <2>1. \A k \in 0..c : k < n => k + 1 \in 1..n
    BY <1>2, <1>3
  <2> QED BY <1>2, <1>4, <2>1, NullAssumption
<1>6. h[0] = FirstOf(r)
  <2>1. 0 \in 0..c /\ (0 < n <=> n # 0)
    BY <1>2, <1>3
  <2> QED BY <1>2, <1>4, <2>1 DEF FirstOf
<1>7. ASSUME NEW k \in 0..c, k # 0
      PROVE  h[k] = IF h[k - 1] = Null THEN Null ELSE link[h[k - 1]]
  <2>1. k - 1 \in 0..c
    BY <1>3, <1>7
  <2>2. CASE k - 1 < n
    <3>1. k \in 1..n /\ (k - 1) + 1 = k /\ (k < n <=> k # n)
      BY <1>2, <1>7, <2>2
    <3>2. h[k - 1] = r[k] /\ h[k - 1] # Null
      BY <1>4, <1>5, <2>1, <2>2, <3>1
    <3>3. h[k] = IF k = n THEN Null ELSE r[k + 1]
      BY <1>4, <3>1
    <3> QED BY <1>1, <3>1, <3>2, <3>3
  <2>3. CASE ~(k - 1 < n)
    <3>1. ~(k < n)
      BY <1>2, <1>7, <2>3
    <3> QED BY <1>5, <2>1, <2>3, <3>1
  <2> QED BY <2>2, <2>3
<1>8. Met(FirstOf(r), link, h)
  BY <1>1, <1>4, <1>6, <1>7 DEF Met
<1> DEFINE at == CHOOSE f : Met(FirstOf(r), link, f)
<1>9. Met(FirstOf(r), link, at)
  BY <1>8
<1>10. Chain(FirstOf(r), link) = [k \in 1..Cardinality({j \in DOMAIN at : at[j] # Null}) |-> at[k - 1]]
  BY DEF Chain, Met
<1> HIDE DEF at
<1>11. \A k \in 0..c : at[k] = IF k = 0 THEN FirstOf(r)
                              ELSE IF at[k - 1] = Null THEN Null ELSE link[at[k - 1]]
  BY <1>1, <1>9 DEF Met
<1>12. DOMAIN at = 0..c
  BY <1>1, <1>9 DEF Met
<1> DEFINE B == {k \in 0..c : at[k] # h[k]}
<1>13. B = {}
  <2> SUFFICES ASSUME B # {} PROVE FALSE
    OBVIOUS
  <2>1. PICK k \in B : \A l \in B : k <= l
    <3>1. B \in SUBSET Nat
      BY <1>3
    <3> HIDE DEF B
    <3> QED BY <3>1, Least
  <2>2. k # 0
    BY <1>3, <1>6, <1>11, <2>1
  <2>3. k - 1 \in 0..c /\ ~(k <= k - 1)
    BY <1>3, <2>1, <2>2
  <2>4. at[k - 1] = h[k - 1]
    BY <2>1, <2>3
  <2> QED BY <1>7, <1>11, <2>1, <2>2, <2>4
<1>14. {j \in DOMAIN at : at[j] # Null} = 0..(n - 1)
  BY <1>2, <1>3, <1>5, <1>12, <1>13
<1>15. Cardinality(0..(n - 1)) = n
  BY <1>2, Counted
<1>16. \A k \in 1..n : at[k - 1] = r[k]
  <2> SUFFICES ASSUME NEW k \in 1..n PROVE at[k - 1] = r[k]
    OBVIOUS
  <2>1. k - 1 \in 0..c /\ k - 1 < n /\ (k - 1) + 1 = k
    BY <1>2, <1>3
  <2> QED BY <1>4, <1>13, <2>1
<1>17. Chain(FirstOf(r), link) = [k \in 1..n |-> at[k - 1]]
  BY <1>10, <1>14, <1>15
<1> QED BY <1>2, <1>16, <1>17

LEMMA Fields ==
  ASSUME NEW q, NEW k, NEW t
  PROVE  /\ Linked(q, k, t).prev = IF k = 1 THEN Null ELSE q[k - 1]
         /\ Linked(q, k, t).next = IF k = Len(q) THEN Null ELSE q[k + 1]
         /\ Parked(q, k).next = IF k = Len(q) THEN Null ELSE q[k + 1]
  BY DEF Linked, Parked

\* A level's list is read the same from its head and from its tail.
LEMMA QueueReads ==
  ASSUME NEW nodes \in [Nodes -> NodeRecords], NEW t, NEW q \in Seq(Nodes), Distinct(q),
         Threaded(nodes, q, t)
  PROVE  /\ Chain(FirstOf(q), [o \in Nodes |-> nodes[o].next]) = q
         /\ Reverse(Chain(LastOf(q), [o \in Nodes |-> nodes[o].prev])) = q
<1>1. PICK n : n = Len(q)
  OBVIOUS
<1>2. n \in Nat /\ (q = <<>> <=> n = 0) /\ (\A k \in 1..n : q[k] \in Nodes) /\ q = [k \in 1..n |-> q[k]]
  BY <1>1, EmptyIs
<1>3. \A k \in 1..n : nodes[q[k]] = Linked(q, k, t)
  BY <1>1 DEF Threaded
<1>4. Chain(FirstOf(q), [o \in Nodes |-> nodes[o].next]) = q
  <2>1. PICK link : link = [o \in Nodes |-> nodes[o].next]
    OBVIOUS
  <2>2. \A k \in 1..n : link[q[k]] = IF k = n THEN Null ELSE q[k + 1]
    <3>1. \A k \in 1..n : link[q[k]] = nodes[q[k]].next
      BY <1>2, <2>1
    <3>2. \A k \in 1..n : nodes[q[k]].next = IF k = n THEN Null ELSE q[k + 1]
      BY <1>1, <1>3, Fields
    <3> QED BY <3>1, <3>2
  <2> QED BY <1>1, <2>1, <2>2, ChainReads
<1>5. PICK r : r = Reverse(q)
  OBVIOUS
<1>6. r = [k \in 1..n |-> q[(n - k) + 1]]
  BY <1>1, <1>5 DEF Reverse
<1>7. \A k \in 1..n : (n - k) + 1 \in 1..n /\ (n - ((n - k) + 1)) + 1 = k
  BY <1>2
<1>8. r \in Seq(Nodes) /\ Len(r) = n
  <2>1. r \in [1..n -> Nodes]
    BY <1>2, <1>6, <1>7
  <2> QED BY <1>2, <2>1
<1>9. Distinct(r)
  <2> SUFFICES ASSUME NEW j \in 1..n, NEW k \in 1..n, r[j] = r[k] PROVE j = k
    BY <1>8 DEF Distinct
  <2>1. (n - j) + 1 = (n - k) + 1
    BY <1>1, <1>6, <1>7 DEF Distinct
  <2> QED BY <1>2, <2>1
<1>10. FirstOf(r) = LastOf(q)
  <2>1. r = <<>> <=> n = 0
    BY <1>8, EmptyIs
  <2>2. n # 0 => 1 \in 1..n /\ (n - 1) + 1 = n
    BY <1>2
  <2> QED BY <1>1, <1>2, <1>6, <2>1, <2>2 DEF FirstOf, LastOf
<1>11. Chain(LastOf(q), [o \in Nodes |-> nodes[o].prev]) = r
  <2>1. PICK link : link = [o \in Nodes |-> nodes[o].prev]
    OBVIOUS
  <2>2. ASSUME NEW k \in 1..n PROVE link[r[k]] = IF k = n THEN Null ELSE r[k + 1]
    <3>1. PICK m \in 1..n : m = (n - k) + 1
      BY <1>7
    <3>2. r[k] = q[m] /\ link[q[m]] = IF m = 1 THEN Null ELSE q[m - 1]
      <4>1. r[k] = q[m] /\ link[q[m]] = nodes[q[m]].prev
        BY <1>2, <1>6, <2>1, <3>1
      <4>2. nodes[q[m]].prev = IF m = 1 THEN Null ELSE q[m - 1]
        BY <1>3, Fields
      <4> QED BY <4>1, <4>2
    <3>3. /\ m = 1 <=> k = n
          /\ k # n => k + 1 \in 1..n /\ (n - (k + 1)) + 1 = m - 1
      BY <1>2, <3>1
    <3> QED BY <1>6, <3>2, <3>3
  <2> QED BY <1>8, <1>9, <1>10, <2>1, <2>2, ChainReads
<1>12. Reverse(r) = q
  <2>1. Reverse(r) = [k \in 1..n |-> r[(n - k) + 1]]
    BY <1>8 DEF Reverse
  <2> QED BY <1>2, <1>6, <1>7, <2>1
<1> QED BY <1>4, <1>11, <1>12

\* The free list is read from its first node.
LEMMA FreeReads ==
  ASSUME NEW nodes \in [Nodes -> NodeRecords], NEW f \in Seq(Nodes), Distinct(f), Chained(nodes, f)
  PROVE  Chain(FirstOf(f), [o \in Nodes |-> nodes[o].next]) = f
<1>1. PICK link : link = [o \in Nodes |-> nodes[o].next]
  OBVIOUS
<1>2. \A k \in 1..Len(f) : nodes[f[k]] = Parked(f, k) /\ f[k] \in Nodes
  BY EmptyIs DEF Chained
<1>3. \A k \in 1..Len(f) : link[f[k]] = IF k = Len(f) THEN Null ELSE f[k + 1]
  <2>1. \A k \in 1..Len(f) : link[f[k]] = nodes[f[k]].next
    BY <1>1, <1>2
  <2>2. ASSUME NEW k \in 1..Len(f)
        PROVE  nodes[f[k]].next = IF k = Len(f) THEN Null ELSE f[k + 1]
    <3>1. nodes[f[k]].next = Parked(f, k).next
      BY <1>2
    <3> QED BY <3>1, Fields
  <2> QED BY <2>1, <2>2
<1> QED BY <1>1, <1>3, ChainReads

\* What is read of the levels lv, linked through the nodes.
ReadFrom(nodes, lv) ==
  [s \in Sides |-> [p \in Prices |->
     IF lv[s][p] = NoLevel THEN <<>> ELSE Chain(lv[s][p].head, [o \in Nodes |-> nodes[o].next])]]

LEMMA StoreReads ==
  ASSUME NEW nodes \in [Nodes -> NodeRecords], NEW lv, NEW q \in QueueSpace,
         \A s \in Sides, p \in Prices :
           /\ StandsFor(lv[s][p], q[s][p], p)
           /\ Distinct(q[s][p]) /\ Threaded(nodes, q[s][p], <<s, p>>)
  PROVE  ReadFrom(nodes, lv) = q
<1>1. ASSUME NEW s \in Sides, NEW p \in Prices
      PROVE  (IF lv[s][p] = NoLevel THEN <<>>
              ELSE Chain(lv[s][p].head, [o \in Nodes |-> nodes[o].next])) = q[s][p]
  <2>1. PICK a : a = q[s][p]
    OBVIOUS
  <2>2. /\ a \in Seq(Nodes) /\ StandsFor(lv[s][p], a, p)
        /\ Distinct(a) /\ Threaded(nodes, a, <<s, p>>)
    BY <2>1 DEF QueueSpace
  <2>3. Chain(FirstOf(a), [o \in Nodes |-> nodes[o].next]) = a
    BY <2>2, QueueReads
  <2> QED BY <2>1, <2>2, <2>3 DEF StandsFor
<1>2. ReadFrom(nodes, lv) = [s \in Sides |-> [p \in Prices |-> q[s][p]]]
  BY <1>1 DEF ReadFrom
<1> QED BY <1>2 DEF QueueSpace

-----------------------------------------------------------------------------
(* The dense ladder's cached best index and count of active levels.        *)

Leads(s, p, S) == p \in S /\ \A r \in S \ {p} : Better(s, p, r)

\* The best index b and the count n are those of the prices S with orders.
Cached(s, S, b, n) ==
  /\ n = Cardinality(S)
  /\ IF S = {} THEN b = None ELSE \E p \in S : b = Index(p) /\ Leads(s, p, S)

LEMMA PricesAre ==
  /\ MinPrice \in Int /\ MaxPrice \in Int
  /\ \A p \in Prices : p \in Int /\ MinPrice <= p /\ p <= MaxPrice
                       /\ Index(p) \in Int /\ 0 <= Index(p) /\ Index(p) <= Index(MaxPrice)
                       /\ Index(p) # None /\ MinPrice + Index(p) = p
  /\ \A S \in SUBSET Prices : IsFiniteSet(S) /\ Cardinality(S) \in Nat /\ (Cardinality(S) = 0 <=> S = {})
<1>1. MinPrice \in Int /\ MaxPrice \in Int
  BY RangeAssumption
<1>2. IsFiniteSet(Prices)
  BY <1>1, FS_Interval DEF Prices
<1>3. \A S \in SUBSET Prices : IsFiniteSet(S)
  BY <1>2, FS_Subset
<1>4. \A S \in SUBSET Prices : Cardinality(S) \in Nat /\ (Cardinality(S) = 0 <=> S = {})
  BY <1>3, FS_CardinalityType, FS_EmptySet
<1>5. \A p \in Prices : p \in Int /\ MinPrice <= p /\ p <= MaxPrice
                        /\ Index(p) \in Int /\ 0 <= Index(p) /\ Index(p) <= Index(MaxPrice)
                        /\ Index(p) # None /\ MinPrice + Index(p) = p
  BY RangeAssumption DEF Prices, Index, None
<1> QED BY <1>1, <1>3, <1>4, <1>5

LEMMA Leader ==
  ASSUME NEW s \in Sides, NEW S \in SUBSET Prices, S # {}
  PROVE  \E p \in S : Leads(s, p, S)
<1>1. CASE s = "Ask"
  <2> DEFINE T == {r - MinPrice : r \in S}
  <2>1. T \in SUBSET Nat /\ T # {}
    BY PricesAre
  <2>2. PICK x \in T : \A y \in T : x <= y
    <3> HIDE DEF T
    <3> QED BY <2>1, Least
  <2>3. PICK p \in S : x = p - MinPrice
    OBVIOUS
  <2>4. ASSUME NEW r \in S \ {p} PROVE p < r
    <3>1. p - MinPrice <= r - MinPrice
      BY <2>2, <2>3
    <3>2. p \in Int /\ r \in Int /\ p # r /\ MinPrice \in Int
      BY PricesAre
    <3> QED BY <3>1, <3>2
  <2> QED BY <1>1, <2>4 DEF Leads, Better
<1>2. CASE s = "Bid"
  <2> DEFINE T == {MaxPrice - r : r \in S}
  <2>1. T \in SUBSET Nat /\ T # {}
    BY PricesAre
  <2>2. PICK x \in T : \A y \in T : x <= y
    <3> HIDE DEF T
    <3> QED BY <2>1, Least
  <2>3. PICK p \in S : x = MaxPrice - p
    OBVIOUS
  <2>4. ASSUME NEW r \in S \ {p} PROVE p > r
    <3>1. MaxPrice - p <= MaxPrice - r
      BY <2>2, <2>3
    <3>2. p \in Int /\ r \in Int /\ p # r /\ MaxPrice \in Int
      BY PricesAre
    <3> QED BY <3>1, <3>2
  <2> QED BY <1>2, <2>4 DEF Leads, Better
<1> QED BY <1>1, <1>2 DEF Sides

LEMMA BestOfIs ==
  ASSUME NEW s \in Sides, NEW S \in SUBSET Int, NEW p \in S,
         \A r \in S \ {p} : Better(s, p, r)
  PROVE  BestOf(s, S) = p
<1>1. \A a \in S : (\A r \in S \ {a} : Better(s, a, r)) => a = p
  <2> SUFFICES ASSUME NEW a \in S, \A r \in S \ {a} : Better(s, a, r), a # p PROVE FALSE
    OBVIOUS
  <2>1. Better(s, a, p) /\ Better(s, p, a) /\ a \in Int /\ p \in Int
    OBVIOUS
  <2> QED BY <2>1 DEF Better
<1> QED BY <1>1 DEF BestOf

LEMMA CachedGrows ==
  ASSUME NEW s \in Sides, NEW S \in SUBSET Prices, NEW b, NEW n, Cached(s, S, b, n),
         NEW p \in Prices, p \notin S
  PROVE  Cached(s, S \cup {p}, IF b = None \/ Better(s, Index(p), b) THEN Index(p) ELSE b, n + 1)
<1>1. Cardinality(S \cup {p}) = n + 1
  BY PricesAre, FS_AddElement DEF Cached
<1>2. CASE S = {}
  <2>1. b = None
    BY <1>2 DEF Cached
  <2>2. Leads(s, p, S \cup {p})
    BY <1>2 DEF Leads
  <2> QED BY <1>1, <1>2, <2>1, <2>2 DEF Cached
<1>3. CASE S # {}
  <2>1. PICK l \in S : b = Index(l) /\ Leads(s, l, S)
    BY <1>3 DEF Cached
  <2>2. /\ b # None /\ l \in Int /\ p \in Int /\ l # p /\ MinPrice \in Int
        /\ \A r \in S : r \in Int
    BY <2>1, PricesAre
  <2>3. Better(s, Index(p), b) <=> Better(s, p, l)
    BY <2>1, <2>2 DEF Better, Index
  <2>4. CASE Better(s, p, l)
    <3>1. ASSUME NEW r \in (S \cup {p}) \ {p} PROVE Better(s, p, r)
      <4>1. r = l \/ Better(s, l, r)
        BY <2>1, <3>1 DEF Leads
      <4>2. r \in Int
        BY <2>2
      <4> QED BY <2>2, <2>4, <4>1, <4>2 DEF Better
    <3>2. Leads(s, p, S \cup {p})
      BY <3>1 DEF Leads
    <3> QED BY <1>1, <2>3, <2>4, <3>2 DEF Cached
  <2>5. CASE ~Better(s, p, l)
    <3>1. Better(s, l, p)
      BY <2>2, <2>5 DEF Better
    <3>2. Leads(s, l, S \cup {p})
      BY <2>1, <3>1 DEF Leads
    <3> QED BY <1>1, <2>1, <2>2, <2>3, <2>5, <3>2 DEF Cached
  <2> QED BY <2>4, <2>5
<1> QED BY <1>2, <1>3

\* The scan ends at a level with orders: it never leaves the array.
LEMMA ScanFinds ==
  ASSUME NEW s \in Sides, NEW levels, NEW S \in SUBSET Prices, S # {},
         \A p \in Prices : levels[p].count # 0 <=> p \in S,
         NEW l \in Prices, best[s] = Index(l), \A r \in S : Better(s, l, r)
  PROVE  \E p \in S : Scan(s, levels) = Index(p) /\ Leads(s, p, S)
<1> DEFINE beyond == IF s = "Bid" THEN -1 ELSE Index(MaxPrice) + 1
           stops == {i \in -1..(Index(MaxPrice) + 1) :
                       /\ Better(s, best[s], i)
                       /\ i = beyond \/ (i \in 0..Index(MaxPrice) /\ levels[MinPrice + i].count # 0)}
<1>1. Scan(s, levels) = BestOf(s, stops)
  BY DEF Scan
<1>2. PICK p \in S : Leads(s, p, S)
  BY Leader
<1>3. /\ p \in Prices /\ Index(p) \in Int /\ 0 <= Index(p) /\ Index(p) <= Index(MaxPrice)
      /\ MinPrice + Index(p) = p /\ p \in Int /\ l \in Int /\ MinPrice \in Int /\ MaxPrice \in Int
      /\ Index(MaxPrice) \in Int
  BY PricesAre DEF Index
<1>4. Better(s, best[s], Index(p))
  BY <1>3 DEF Better, Index
<1>5. Index(p) \in stops
  BY <1>3, <1>4
<1>6. ASSUME NEW i \in stops, i # Index(p) PROVE Better(s, Index(p), i)
  <2>1. i \in Int
    OBVIOUS
  <2>2. CASE i = beyond
    BY <1>3, <2>1, <2>2 DEF Better
  <2>3. CASE i # beyond
    <3>1. i \in 0..Index(MaxPrice) /\ levels[MinPrice + i].count # 0
      BY <2>3
    <3>2. PICK r \in Int : r = MinPrice + i
      BY <1>3, <2>1
    <3>3. r \in Prices
      BY <1>3, <3>1, <3>2 DEF Prices, Index
    <3>4. r \in S /\ r # p
      BY <1>3, <1>6, <2>1, <3>1, <3>2, <3>3 DEF Index
    <3>5. Better(s, p, r)
      BY <1>2, <3>4 DEF Leads
    <3> QED BY <1>3, <2>1, <3>2, <3>5 DEF Better, Index
  <2> QED BY <2>2, <2>3
<1>7. stops \in SUBSET Int
  OBVIOUS
<1> HIDE DEF stops
<1>8. BestOf(s, stops) = Index(p)
  <2>1. PICK x, T : x = Index(p) /\ T = stops
    OBVIOUS
  <2>2. T \in SUBSET Int /\ x \in T /\ \A r \in T \ {x} : Better(s, x, r)
    BY <1>5, <1>6, <1>7, <2>1
  <2>3. BestOf(s, T) = x
    BY <2>2, BestOfIs
  <2> QED BY <2>1, <2>3
<1> QED BY <1>1, <1>2, <1>8

\* The levels hold orders at the prices S.
Hold(levels, S) == \A r \in Prices : levels[r].count # 0 <=> r \in S

LEMMA CachedShrinks ==
  ASSUME NEW s \in Sides, NEW levels, NEW S \in SUBSET Prices, NEW n, Cached(s, S, best[s], n),
         NEW p \in S, Hold(levels, S \ {p})
  PROVE  Cached(s, S \ {p}, IF n - 1 = 0 THEN None ELSE IF Index(p) # best[s] THEN best[s]
                            ELSE Scan(s, levels), n - 1)
<1>1. PICK T \in SUBSET Prices : T = S \ {p}
  OBVIOUS
<1>2. Cardinality(T) = n - 1 /\ (n - 1 = 0 <=> T = {})
  <2>1. Cardinality(S \ {p}) = n - 1
    BY PricesAre, FS_RemoveElement DEF Cached
  <2> QED BY <1>1, <2>1, PricesAre
<1>3. PICK l \in S : best[s] = Index(l) /\ Leads(s, l, S)
  BY DEF Cached
<1>4. Index(p) = best[s] <=> p = l
  <2>1. MinPrice + Index(p) = p /\ MinPrice + Index(l) = l
    BY PricesAre
  <2> QED BY <1>3, <2>1
<1>5. CASE T = {}
  BY <1>1, <1>2, <1>5 DEF Cached
<1>6. CASE T # {} /\ p # l
  <2>1. l \in T /\ Leads(s, l, T)
    BY <1>1, <1>3, <1>6 DEF Leads
  <2> QED BY <1>1, <1>2, <1>3, <1>4, <1>6, <2>1 DEF Cached
<1>7. CASE T # {} /\ p = l
  <2>1. \A r \in T : Better(s, l, r)
    BY <1>1, <1>3, <1>7 DEF Leads
  <2>2. \E r \in T : Scan(s, levels) = Index(r) /\ Leads(s, r, T)
    <3>1. l \in Prices /\ \A r \in Prices : levels[r].count # 0 <=> r \in T
      BY <1>1 DEF Hold
    <3> QED BY <1>3, <1>7, <2>1, <3>1, ScanFinds
  <2> QED BY <1>1, <1>2, <1>4, <1>7, <2>2 DEF Cached
<1> QED BY <1>5, <1>6, <1>7

There(q, s) == {p \in Prices : q[s][p] # <<>>}

CacheOK(q) ==
  /\ best \in [Sides -> Int] /\ active \in [Sides -> Int]
  /\ ladder = "dense" => \A s \in Sides : Cached(s, There(q, s), best[s], active[s])

LEMMA CountIs ==
  ASSUME StoreOK, ladder = "dense", NEW q \in QueueSpace, Queued(q), NEW s \in Sides, NEW p \in Prices
  PROVE  /\ level[s][p] \in LevelRecords /\ level[s][p].count = Len(q[s][p])
         /\ q[s][p] \in Seq(Nodes) /\ Len(q[s][p]) \in Nat
         /\ (level[s][p].count = 0 <=> q[s][p] = <<>>)
         /\ (p \in There(q, s) <=> q[s][p] # <<>>)
<1>1. q[s][p] \in Seq(Nodes)
  BY DEF QueueSpace
<1>2. level[s][p] # NoLevel /\ level[s][p] \in LevelRecords \cup {NoLevel}
  BY DEF StoreOK
<1>3. level[s][p].count = Len(q[s][p])
  BY <1>2 DEF Queued, StandsFor
<1> QED BY <1>1, <1>2, <1>3, EmptyIs DEF There

LEMMA RestCaches ==
  ASSUME StoreOK, NEW q \in QueueSpace, Queued(q), CacheOK(q),
         NEW o \in Nodes, NEW s \in Sides, NEW p \in Prices, Rest(o, s, p),
         NEW q2, q2 = [q EXCEPT ![s][p] = Append(@, o)]
  PROVE  CacheOK(q2)'
<1>1. ladder' = ladder
  BY DEF Rest
<1>2. CASE ladder # "dense"
  <2>1. UNCHANGED <<best, active>>
    BY <1>2 DEF Rest, PooledGet, StoreOK
  <2> QED BY <1>1, <1>2, <2>1 DEF CacheOK
<1>3. CASE ladder = "dense"
  <2>1. DenseGet(s, p)
    BY <1>3 DEF Rest
  <2>2. \A t \in Sides, r \in Prices : q2[t][r] = IF t = s /\ r = p THEN Append(q[s][p], o) ELSE q[t][r]
    BY DEF QueueSpace
  <2>3. Append(q[s][p], o) # <<>>
    BY <1>3, CountIs, AppendFacts
  <2>4. \A t \in Sides : There(q2, t) = IF t = s THEN There(q, s) \cup {p} ELSE There(q, t)
    <3>1. There(q2, s) = There(q, s) \cup {p}
      BY <2>2, <2>3 DEF There
    <3>2. ASSUME NEW t \in Sides, t # s PROVE There(q2, t) = There(q, t)
      BY <2>2, <3>2 DEF There
    <3> QED BY <3>1, <3>2
  <2>5. best \in [Sides -> Int] /\ active \in [Sides -> Int]
        /\ \A t \in Sides : Cached(t, There(q, t), best[t], active[t])
    BY <1>3 DEF CacheOK
  <2>6. CASE level[s][p].count = 0
    <3>1. active' = [active EXCEPT ![s] = @ + 1]
          /\ best' = IF best[s] = None \/ Better(s, Index(p), best[s])
                     THEN [best EXCEPT ![s] = Index(p)] ELSE best
      BY <2>1, <2>6 DEF DenseGet
    <3>2. active' \in [Sides -> Int] /\ active'[s] = active[s] + 1
          /\ \A t \in Sides : t # s => active'[t] = active[t] /\ best'[t] = best[t]
      BY <2>5, <3>1
    <3>3. best'[s] = IF best[s] = None \/ Better(s, Index(p), best[s]) THEN Index(p) ELSE best[s]
      BY <2>5, <3>1
    <3>4. best' \in [Sides -> Int]
      BY <2>5, <3>1, PricesAre
    <3>5. p \notin There(q, s) /\ There(q, s) \in SUBSET Prices
      BY <1>3, <2>6, CountIs DEF There
    <3>6. Cached(s, There(q, s) \cup {p}, best'[s], active'[s])
      <4>1. PICK S, b, n : S = There(q, s) /\ b = best[s] /\ n = active[s]
        OBVIOUS
      <4>2. S \in SUBSET Prices /\ Cached(s, S, b, n) /\ p \notin S
        BY <2>5, <3>5, <4>1
      <4>3. Cached(s, S \cup {p}, IF b = None \/ Better(s, Index(p), b) THEN Index(p) ELSE b, n + 1)
        BY <4>2, CachedGrows
      <4> QED BY <3>2, <3>3, <4>1, <4>3
    <3> QED BY <2>4, <2>5, <3>2, <3>4, <3>6 DEF CacheOK
  <2>7. CASE level[s][p].count # 0
    <3>1. UNCHANGED <<active, best>>
      BY <2>1, <2>7 DEF DenseGet
    <3>2. There(q, s) \cup {p} = There(q, s)
      BY <1>3, <2>7, CountIs
    <3> QED BY <2>4, <2>5, <3>1, <3>2 DEF CacheOK
  <2> QED BY <2>6, <2>7
<1> QED BY <1>2, <1>3

LEMMA RemovedIs ==
  ASSUME NEW l \in LevelRecords, NEW o
  PROVE  Removed(l, o).price = l.price /\ Removed(l, o).count = l.count - 1
<1>1. PICK h, t : /\ h = (IF node[o].prev = Null THEN node[o].next ELSE l.head)
                  /\ t = (IF node[o].next = Null THEN node[o].prev ELSE l.tail)
  OBVIOUS
<1>2. Removed(l, o) = [l EXCEPT !.head = h, !.tail = t, !.count = l.count - 1]
  BY <1>1 DEF Removed
<1> QED BY <1>2, LevelUpdated

LEMMA TakeOffCaches ==
  ASSUME StoreOK, NEW q \in QueueSpace, Queued(q), CacheOK(q),
         NEW o \in Nodes, TakeOff(o),
         NEW s \in Sides, NEW p \in Prices, NEW k \in 1..Len(q[s][p]),
         node[o].level[1] = s, node[o].level[2] = p,
         NEW q2, q2 = [q EXCEPT ![s][p] = RemoveAt(@, k)]
  PROVE  CacheOK(q2)'
<1>1. PICK l : l = Removed(level[s][p], o)
  OBVIOUS
<1>2. PICK levels : levels = [level[s] EXCEPT ![p] = l]
  OBVIOUS
<1>3. /\ ladder' = ladder
      /\ IF l.count = 0
         THEN CASE ladder = "dense" -> DenseEmptied(s, l, levels)
                [] ladder = "pooled" -> PooledEmptied(s, l, levels)
                [] ladder = "map" -> MapEmptied(s, l, levels)
         ELSE level' = [level EXCEPT ![s] = levels] /\ UNCHANGED <<active, best, cache>>
  BY <1>1, <1>2 DEF TakeOff
<1>4. CASE ladder # "dense"
  <2>1. UNCHANGED <<best, active>>
    BY <1>3, <1>4 DEF PooledEmptied, MapEmptied, StoreOK
  <2> QED BY <1>3, <1>4, <2>1 DEF CacheOK
<1>5. CASE ladder = "dense"
  <2>1. PICK a, b : a = q[s][p] /\ b = RemoveAt(a, k)
    OBVIOUS
  <2>2. /\ a \in Seq(Nodes) /\ k \in 1..Len(a) /\ level[s][p] \in LevelRecords
        /\ level[s][p].count = Len(a) /\ Len(a) \in Nat
    BY <1>5, <2>1, CountIs
  <2>3. b \in Seq(Nodes) /\ Len(b) = Len(a) - 1 /\ a # <<>> /\ (b = <<>> <=> Len(b) = 0)
    <3>1. RemoveAt(a, k) \in Seq(Nodes) /\ Len(RemoveAt(a, k)) = Len(a) - 1
      BY <2>2, RemoveAtIs
    <3>2. a # <<>>
      BY <2>2, EmptyIs
    <3> QED BY <2>1, <3>1, <3>2, EmptyIs
  <2>4. l.price = p /\ l.count = Len(b)
    <3>1. l.price = level[s][p].price /\ l.count = Len(b)
      BY <1>1, <2>2, <2>3, RemovedIs
    <3>2. level[s][p].price = p
      <4>1. level[s][p] # NoLevel /\ StandsFor(level[s][p], a, p)
        BY <1>5, <2>1 DEF StoreOK, Queued
      <4> QED BY <2>3, <4>1 DEF StandsFor
    <3> QED BY <3>1, <3>2
  <2>5. \A t \in Sides, r \in Prices : q2[t][r] = IF t = s /\ r = p THEN b ELSE q[t][r]
    BY <2>1 DEF QueueSpace
  <2>6. \A t \in Sides : t # s => There(q2, t) = There(q, t)
    BY <2>5 DEF There
  <2>7. best \in [Sides -> Int] /\ active \in [Sides -> Int]
        /\ \A t \in Sides : Cached(t, There(q, t), best[t], active[t])
    BY <1>5 DEF CacheOK
  <2>8. p \in There(q, s) /\ There(q, s) \in SUBSET Prices
    BY <2>1, <2>3 DEF There
  <2>9. CASE l.count # 0
    <3>1. UNCHANGED <<active, best>>
      BY <1>3, <2>9
    <3>2. There(q2, s) = There(q, s)
      BY <2>3, <2>4, <2>5, <2>8, <2>9 DEF There
    <3> QED BY <2>6, <2>7, <3>1, <3>2 DEF CacheOK
  <2>10. CASE l.count = 0
    <3>1. There(q2, s) = There(q, s) \ {p}
      BY <2>3, <2>4, <2>5, <2>10 DEF There
    <3>2. DenseEmptied(s, l, levels)
      BY <1>3, <1>5, <2>10
    <3>3. active' = [active EXCEPT ![s] = @ - 1]
          /\ best' = [best EXCEPT ![s] = IF active'[s] = 0 THEN None
                                         ELSE IF Index(p) # @ THEN @ ELSE Scan(s, levels)]
      BY <2>4, <3>2 DEF DenseEmptied
    <3>4. active' \in [Sides -> Int] /\ active'[s] = active[s] - 1
          /\ \A t \in Sides : t # s => active'[t] = active[t] /\ best'[t] = best[t]
      BY <2>7, <3>3
    <3>5. best'[s] = IF active[s] - 1 = 0 THEN None
                     ELSE IF Index(p) # best[s] THEN best[s] ELSE Scan(s, levels)
      BY <2>7, <3>3, <3>4
    <3>6. \A r \in Prices : levels[r].count # 0 <=> r \in There(q, s) \ {p}
      <4> SUFFICES ASSUME NEW r \in Prices PROVE levels[r].count # 0 <=> r \in There(q, s) \ {p}
        OBVIOUS
      <4>1. levels[r] = IF r = p THEN l ELSE level[s][r]
        BY <1>2 DEF StoreOK
      <4>2. level[s][r].count = 0 <=> r \notin There(q, s)
        BY <1>5, CountIs
      <4> QED BY <2>10, <4>1, <4>2
    <3>7. Cached(s, There(q, s) \ {p}, best'[s], active'[s])
      <4>1. PICK S, n : S = There(q, s) /\ n = active[s]
        OBVIOUS
      <4>2. /\ S \in SUBSET Prices /\ Cached(s, S, best[s], n) /\ p \in S
            /\ Hold(levels, S \ {p})
        BY <2>7, <2>8, <3>6, <4>1 DEF Hold
      <4>3. Cached(s, S \ {p}, IF n - 1 = 0 THEN None ELSE IF Index(p) # best[s] THEN best[s]
                                ELSE Scan(s, levels), n - 1)
        BY <4>2, CachedShrinks
      <4> QED BY <3>4, <3>5, <4>1, <4>3
    <3>8. best'[s] \in Int
      <4>1. There(q, s) \ {p} \in SUBSET Prices
        BY <2>8
      <4> QED BY <3>7, <4>1, PricesAre DEF Cached, None
    <3>9. best' \in [Sides -> Int]
      BY <2>7, <3>3, <3>8
    <3> QED BY <2>6, <2>7, <3>1, <3>4, <3>7, <3>9 DEF CacheOK
  <2> QED BY <2>9, <2>10
<1> QED BY <1>4, <1>5

-----------------------------------------------------------------------------
(* The theorems.                                                           *)

StoreInv ==
  /\ StoreOK /\ ParkedOK
  /\ \E q \in QueueSpace, f \in Seq(Nodes) : Shape(q, f) /\ CacheOK(q)

LEMMA InitShape == Init => StoreInv
<1> SUFFICES ASSUME Init PROVE StoreInv
  OBVIOUS
<1>1. PICK q : q = [s \in Sides |-> [p \in Prices |-> <<>>]]
  OBVIOUS
<1>2. <<>> \in Seq(Nodes) /\ Len(<<>>) = 0 /\ \A o : ~Listed(<<>>, o)
  <2>1. <<>> \in Seq(Nodes)
    OBVIOUS
  <2>2. Len(<<>>) = 0
    BY <2>1, EmptyIs
  <2> QED BY <2>1, <2>2 DEF Listed
<1>3. q \in QueueSpace /\ \A s \in Sides, p \in Prices : q[s][p] = <<>>
  BY <1>1, <1>2 DEF QueueSpace
<1>4. Level \in LevelRecords
  BY DEF Level, LevelRecords
<1>5. Order \in NodeRecords
  BY DEF Order, NodeRecords
<1>6. \A s \in Sides, p \in Prices : level[s][p] = IF ladder = "dense" THEN Level ELSE NoLevel
  BY DEF Init
<1>7. StoreOK
  <2>1. node \in [Nodes -> NodeRecords] /\ unused \in SUBSET Nodes
    BY <1>5 DEF Init
  <2>2. level \in [Sides -> [Prices -> LevelRecords \cup {NoLevel}]]
    BY <1>4 DEF Init
  <2>3. ladder \in {"map", "dense", "pooled"}
    BY DEF Init
  <2> QED BY <1>4, <1>6, <2>1, <2>2, <2>3, NoLevelAssumption DEF StoreOK
<1>8. Queued(q)
  <2>1. \A p : StandsFor(Level, <<>>, p) /\ StandsFor(NoLevel, <<>>, p)
    BY <1>2 DEF StandsFor, Level, FirstOf, LastOf
  <2>2. \A t : Distinct(<<>>) /\ Threaded(node, <<>>, t)
    BY <1>2 DEF Distinct, Threaded
  <2> QED BY <1>3, <1>6, <2>1, <2>2 DEF Queued
<1>9. Freed(<<>>) /\ Unused(<<>>) /\ Complete(q, <<>>)
  <2>1. Freed(<<>>)
    BY <1>2 DEF Freed, Distinct, Chained, FirstOf, Init
  <2>2. Unused(<<>>) /\ Complete(q, <<>>)
    BY <1>2 DEF Unused, Complete, Init
  <2> QED BY <2>1, <2>2
<1>10. CacheOK(q)
  <2>1. \A s \in Sides : There(q, s) = {}
    BY <1>3 DEF There
  <2>2. Cardinality({}) = 0
    BY FS_EmptySet
  <2>3. \A s \in Sides : best[s] = None /\ active[s] = 0
    BY DEF Init
  <2>4. \A s \in Sides : Cached(s, There(q, s), best[s], active[s])
    BY <2>1, <2>2, <2>3 DEF Cached
  <2>5. best \in [Sides -> Int] /\ active \in [Sides -> Int]
    BY DEF Init, None
  <2> QED BY <2>4, <2>5 DEF CacheOK
<1>11. ParkedOK
  <2>1. \A s \in Sides : cache[s] = <<>>
    BY DEF Init
  <2>2. <<>> \in Seq(LevelRecords) /\ Len(<<>>) = 0
    BY <1>2
  <2>3. CacheIs(<<>>)
    BY <2>2, CacheAssumption DEF CacheIs
  <2>4. cache \in [Sides -> Seq(LevelRecords)]
    BY <2>2 DEF Init
  <2> QED BY <2>1, <2>3, <2>4 DEF ParkedOK
<1> QED BY <1>2, <1>3, <1>7, <1>8, <1>9, <1>10, <1>11 DEF StoreInv, Shape

LEMMA StoreIs ==
  ASSUME StoreOK, NEW q \in QueueSpace, Queued(q)
  PROVE  Stored = q
<1>1. Stored = ReadFrom(node, level)
  BY DEF Stored, ListAt, Following, ReadFrom
<1> QED BY <1>1, StoreReads DEF StoreOK, Queued

LEMMA StoreIsThen ==
  ASSUME StoreOK', NEW q \in QueueSpace, Queued(q)'
  PROVE  Stored' = q
<1>1. Stored' = ReadFrom(node', level')
  BY DEF Stored, ListAt, Following, ReadFrom
<1> QED BY <1>1, StoreReads DEF StoreOK, Queued

\* Every step of the store is a step of the queues it stands for.
LEMMA StoreStep ==
  ASSUME StoreInv, [Next]_vars
  PROVE  StoreInv' /\ [Queues!Next]_Stored
<1>1. PICK q \in QueueSpace, f \in Seq(Nodes) : Shape(q, f) /\ CacheOK(q)
  BY DEF StoreInv
<1>2. StoreOK /\ ParkedOK /\ Stored = q
  BY <1>1, StoreIs DEF StoreInv, Shape
<1>3. \A t \in Sides, r \in Prices : Stored[t][r] = q[t][r] /\ q[t][r] \in Seq(Nodes)
  BY <1>2 DEF QueueSpace
<1>4. ASSUME NEW o \in Nodes, NEW s \in Sides, NEW p \in Prices, Rest(o, s, p)
      PROVE  StoreInv' /\ Queues!Next
  <2>1. PICK q2 : q2 = [q EXCEPT ![s][p] = Append(@, o)]
    OBVIOUS
  <2>2. /\ StoreOK' /\ q2 \in QueueSpace
        /\ \A t \in Sides, r \in Prices : ~Listed(q[t][r], o)
        /\ \E g \in Seq(Nodes) : Shape(q2, g)'
    BY <1>1, <1>2, <1>4, <2>1, RestKeeps
  <2>3. Stored' = q2 /\ CacheOK(q2)'
    BY <1>1, <1>2, <1>4, <2>1, <2>2, StoreIsThen, RestCaches DEF Shape
  <2>4. Stored' = [Stored EXCEPT ![s][p] = Append(@, o)]
    BY <1>2, <2>1, <2>3
  <2>5. \A t \in Sides, r \in Prices : o \notin ToSet(Stored[t][r])
    BY <1>3, <2>2, EmptyIs DEF Listed, ToSet
  <2>6. Queues!Join(o, s, p)
    BY <2>4, <2>5 DEF Queues!Join, Queues!Queued, Queues!ToSet, Queues!Sides, ToSet, Sides
  <2>7. ParkedOK'
    BY <1>2, <1>4, RestParks
  <2>8. StoreInv'
    BY <2>2, <2>3, <2>7 DEF StoreInv
  <2> QED BY <2>6, <2>8 DEF Queues!Next, Queues!Sides, Sides
<1>5. ASSUME NEW o \in Nodes, TakeOff(o)
      PROVE  StoreInv' /\ Queues!Next
  <2>1. PICK s \in Sides, p \in Prices : \E k \in 1..Len(q[s][p]) :
          q[s][p][k] = o /\ node[o].level[1] = s /\ node[o].level[2] = p
    BY <1>1, <1>2, <1>5, TakenFrom DEF TakeOff
  <2>2. PICK k \in 1..Len(q[s][p]) :
          q[s][p][k] = o /\ node[o].level[1] = s /\ node[o].level[2] = p
    BY <2>1
  <2>3. PICK q2 : q2 = [q EXCEPT ![s][p] = RemoveAt(@, k)]
    OBVIOUS
  <2>4. /\ StoreOK' /\ ParkedOK' /\ q2 \in QueueSpace
        /\ \E g \in Seq(Nodes) : Shape(q2, g)'
    BY <1>1, <1>2, <1>5, <2>2, <2>3, TakeOffKeeps
  <2>5. Stored' = q2 /\ CacheOK(q2)'
    <3>1. Stored' = q2
      BY <2>4, StoreIsThen DEF Shape
    <3>2. Queued(q)
      BY <1>1 DEF Shape
    <3>3. CacheOK(q2)'
      BY <1>1, <1>2, <1>5, <2>2, <2>3, <3>2, TakeOffCaches
    <3> QED BY <3>1, <3>3
  <2>6. Stored' = [Stored EXCEPT ![s][p] = RemoveAt(@, k)]
    BY <1>2, <2>3, <2>5
  <2>7. k \in DOMAIN Stored[s][p] /\ Stored[s][p][k] = o
    BY <1>3, <2>2, EmptyIs
  <2>8. Queues!Leave(o, s, p)
    BY <2>6, <2>7 DEF Queues!Leave, Queues!RemoveAt, RemoveAt
  <2>9. StoreInv'
    BY <2>4, <2>5 DEF StoreInv
  <2> QED BY <2>8, <2>9 DEF Queues!Next, Queues!Sides, Sides
<1>6. CASE UNCHANGED vars
  <2>1. StoreInv'
    <3>1. StoreOK'
      BY <1>2, <1>6 DEF StoreOK, vars
    <3>2. Shape(q, f)'
      BY <1>1, <1>6 DEF Shape, Queued, Freed, Unused, Complete, vars
    <3>3. CacheOK(q)'
      BY <1>1, <1>6 DEF CacheOK, vars
    <3>4. ParkedOK'
      BY <1>2, <1>6 DEF ParkedOK, vars
    <3> QED BY <3>1, <3>2, <3>3, <3>4 DEF StoreInv
  <2>2. Stored' = Stored
    BY <1>6 DEF Stored, ListAt, Following, vars
  <2> QED BY <2>1, <2>2
<1> QED BY <1>4, <1>5, <1>6 DEF Next

LEMMA StoreInvariance == Spec => []StoreInv
<1>1. StoreInv /\ [Next]_vars => StoreInv'
  BY StoreStep
<1> QED BY <1>1, InitShape, PTL DEF Spec

\* Whatever was linked, unlinked, released and handed out again before, the
\* lists are the queues of the orders that came and have not left.
THEOREM StoreImplementsQueues == Spec => ImplementsQueues
<1>1. Init => Queues!Init
  <2> SUFFICES ASSUME Init PROVE Queues!Init
    OBVIOUS
  <2>1. \A s \in Sides, p \in Prices : ListAt(s, p) = <<>>
    <3>1. Len(<<>>) = 0
      BY EmptyIs
    <3>2. Chain(Null, Following) = <<>>
      <4>1. \A k \in 1..Len(<<>>) : Following[<<>>[k]] = IF k = Len(<<>>) THEN Null ELSE <<>>[k + 1]
        BY <3>1
      <4>2. <<>> \in Seq(Nodes) /\ Distinct(<<>>) /\ FirstOf(<<>>) = Null
        BY <3>1 DEF Distinct, FirstOf
      <4> QED BY <4>1, <4>2, ChainReads
    <3> QED BY <3>2 DEF Init, ListAt, Level
  <2> QED BY <2>1 DEF Queues!Init, Queues!Sides, Sides, Stored
<1>2. StoreInv /\ [Next]_vars => [Queues!Next]_Stored
  BY StoreStep
<1> QED BY <1>1, <1>2, StoreInvariance, PTL DEF Spec, ImplementsQueues, Queues!Spec

\* No node is lost, listed twice or free while it is listed, and each list is
\* the same from both its ends.
THEOREM NodesAlwaysAccounted == Spec => []NodesAccounted
<1>1. ASSUME StoreInv PROVE NodesAccounted
  <2>1. PICK q \in QueueSpace, f \in Seq(Nodes) : Shape(q, f)
    BY <1>1 DEF StoreInv
  <2>2. StoreOK /\ Stored = q
    BY <1>1, <2>1, StoreIs DEF StoreInv, Shape
  <2>3. \A s \in Sides, p \in Prices : ListAt(s, p) = q[s][p] /\ q[s][p] \in Seq(Nodes)
    BY <2>2 DEF Stored, QueueSpace
  <2>4. Chain(free, Following) = f
    BY <2>1, <2>2, FreeReads DEF Shape, Freed, Following, StoreOK
  <2>5. \A o : o \in ToSet(f) <=> Listed(f, o)
    BY EmptyIs DEF ToSet, Listed
  <2>6. ASSUME NEW s \in Sides, NEW p \in Prices
        PROVE  \A o : o \in ToSet(ListAt(s, p)) <=> Listed(q[s][p], o)
    BY <2>3, EmptyIs DEF ToSet, Listed
  <2> DEFINE listed == UNION {UNION {ToSet(ListAt(s, p)) : p \in Prices} : s \in Sides}
  <2>7. \A o : o \in listed <=> \E s \in Sides, p \in Prices : o \in ToSet(ListAt(s, p))
    OBVIOUS
  <2> HIDE DEF listed
  <2>8. \A o : o \in listed <=> \E s \in Sides, p \in Prices : Listed(q[s][p], o)
    BY <2>6, <2>7
  <2>9. unused \cup ToSet(f) \cup listed = Nodes
    <3>1. ASSUME NEW o \in Nodes PROVE o \in unused \cup ToSet(f) \cup listed
      BY <2>1, <2>5, <2>8 DEF Shape, Complete
    <3>2. \A o \in unused \cup ToSet(f) \cup listed : o \in Nodes
      BY <2>1, <2>2, <2>5, <2>8, ListedKnowsLevel DEF StoreOK
    <3> QED BY <3>1, <3>2
  <2>10. unused \cap ToSet(f) = {}
    BY <2>1, <2>5 DEF Shape, Unused
  <2>11. (unused \cup ToSet(f)) \cap listed = {}
    <3> SUFFICES ASSUME NEW o, o \in unused \/ o \in ToSet(f), o \in listed PROVE FALSE
      OBVIOUS
    <3>1. PICK s \in Sides, p \in Prices : Listed(q[s][p], o)
      BY <2>8
    <3>2. node[o].level = <<s, p>> /\ <<s, p>> # Null
      BY <2>1, <3>1, ListedKnowsLevel
    <3>3. node[o].level = Null
      BY <2>1, <2>5, ListedKnowsLevel
    <3> QED BY <3>2, <3>3
  <2>12. \A r \in Seq(Nodes) : Distinct(r) => IsInjective(r)
    BY EmptyIs DEF Distinct, IsInjective
  <2>13. ASSUME NEW s \in Sides, NEW p \in Prices, level[s][p] # NoLevel
         PROVE  /\ IsInjective(ListAt(s, p))
                /\ ListAt(s, p) = Reverse(Chain(level[s][p].tail, Preceding))
                /\ level[s][p].count = Len(ListAt(s, p))
                /\ \A o \in ToSet(ListAt(s, p)) : node[o].level = <<s, p>>
    <3>1. PICK a : a = q[s][p]
      OBVIOUS
    <3>2. /\ a \in Seq(Nodes) /\ Distinct(a) /\ Threaded(node, a, <<s, p>>)
          /\ StandsFor(level[s][p], a, p) /\ ListAt(s, p) = a
      BY <2>1, <2>3, <3>1 DEF Shape, Queued
    <3>3. Reverse(Chain(LastOf(a), Preceding)) = a
      BY <2>2, <3>2, QueueReads DEF StoreOK, Preceding
    <3>4. level[s][p].tail = LastOf(a) /\ level[s][p].count = Len(a)
      BY <2>13, <3>2 DEF StandsFor
    <3>5. \A o \in ToSet(ListAt(s, p)) : node[o].level = <<s, p>>
      BY <2>1, <2>6, ListedKnowsLevel
    <3> QED BY <2>12, <3>2, <3>3, <3>4, <3>5
  <2>14. IsInjective(f)
    BY <2>1, <2>12 DEF Shape, Freed
  <2> QED BY <2>4, <2>9, <2>10, <2>11, <2>13, <2>14 DEF NodesAccounted, listed
<1> QED BY <1>1, StoreInvariance, PTL

\* Best and visits are those of the prices with orders, whichever ladder keeps
\* them: the cached best index and the count of active levels stay right, no tree
\* keeps an empty level, and a parked level holds nothing that could come back.
THEOREM LaddersAlwaysAgree == Spec => []LaddersAgree
<1>1. ASSUME StoreInv PROVE LaddersAgree
  <2>1. PICK q \in QueueSpace, f \in Seq(Nodes) : Shape(q, f) /\ CacheOK(q)
    BY <1>1 DEF StoreInv
  <2>2. StoreOK /\ Queued(q) /\ Stored = q
    BY <1>1, <2>1, StoreIs DEF StoreInv, Shape
  <2> SUFFICES ASSUME NEW s \in Sides
               PROVE  LET there == {p \in Prices : ListAt(s, p) # <<>>}
                      IN /\ Visits(s) = Ranked(s, there)
                         /\ Best(s) = BestOf(s, there)
    <3>1. \A s \in Sides : /\ DOMAIN cache[s] = 1..Len(cache[s]) /\ Len(cache[s]) <= MaxCached
                          /\ \A k \in 1..Len(cache[s]) : IsParked(cache[s][k])
      BY <1>1, LenProperties DEF StoreInv, ParkedOK, CacheIs
    <3> QED BY <3>1 DEF LaddersAgree, IsParked
  <2>3. {p \in Prices : ListAt(s, p) # <<>>} = There(q, s)
    BY <2>2 DEF Stored, There
  <2>4. There(q, s) \in SUBSET Prices
    BY DEF There
  <2>5. CASE ladder # "dense"
    <3>1. ASSUME NEW p \in Prices PROVE level[s][p] # NoLevel <=> q[s][p] # <<>>
      <4>1. q[s][p] \in Seq(Nodes)
        BY DEF QueueSpace
      <4>2. StandsFor(level[s][p], q[s][p], p)
        BY <2>2 DEF Queued
      <4>3. level[s][p] # NoLevel => level[s][p].count # 0
        BY <2>2, <2>5 DEF StoreOK
      <4> QED BY <4>1, <4>2, <4>3, EmptyIs DEF StandsFor
    <3>2. Tree(s) = There(q, s)
      BY <3>1 DEF Tree, There
    <3> QED BY <2>3, <2>5, <3>2 DEF Visits, Best, TreeVisits, TreeBest
  <2>6. CASE ladder = "dense"
    <3>1. Cached(s, There(q, s), best[s], active[s])
      BY <2>1, <2>6 DEF CacheOK
    <3>2. Visits(s) = DenseVisits(s) /\ Best(s) = DenseBest(s)
      BY <2>6 DEF Visits, Best
    <3>3. CASE There(q, s) = {}
      <4>1. best[s] = None
        BY <3>1, <3>3 DEF Cached
      <4>2. Cardinality({}) = 0
        BY FS_EmptySet
      <4>3. Ranked(s, {}) = <<>>
        BY <4>2 DEF Ranked
      <4> QED BY <2>3, <3>2, <3>3, <4>1, <4>3 DEF DenseVisits, DenseBest, BestOf
    <3>4. CASE There(q, s) # {}
      <4>1. PICK l \in There(q, s) : best[s] = Index(l) /\ Leads(s, l, There(q, s))
        BY <3>1, <3>4 DEF Cached
      <4>2. /\ best[s] # None /\ MinPrice + best[s] = l /\ MinPrice \in Int
            /\ \A p \in Prices : p \in Int
        BY <2>4, <4>1, PricesAre
      <4>3. BestOf(s, There(q, s)) = l
        <5>1. There(q, s) \in SUBSET Int
          BY <2>4, <4>2
        <5> QED BY <4>1, <5>1, BestOfIs DEF Leads
      <4>4. {p \in Prices : level[s][p].count # 0 /\ ~Better(s, Index(p), best[s])} = There(q, s)
        <5>1. ASSUME NEW p \in Prices PROVE level[s][p].count # 0 <=> p \in There(q, s)
          BY <2>2, <2>6, CountIs
        <5>2. ASSUME NEW p \in There(q, s) PROVE ~Better(s, Index(p), best[s])
          <6>1. p = l \/ Better(s, l, p)
            BY <4>1 DEF Leads
          <6>2. p \in Int /\ l \in Int
            BY <2>4, <4>2
          <6> QED BY <4>1, <4>2, <6>1, <6>2 DEF Better, Index
        <5> QED BY <2>4, <5>1, <5>2
      <4>5. PICK S, n : S = There(q, s) /\ n = Cardinality(S)
        OBVIOUS
      <4>6. DOMAIN Ranked(s, S) = 1..n /\ Ranked(s, S) = [k \in 1..n |-> Ranked(s, S)[k]]
        <5>1. DOMAIN Ranked(s, S) = 1..n
          BY <4>5 DEF Ranked
        <5>2. Ranked(s, S) = [k \in DOMAIN Ranked(s, S) |-> Ranked(s, S)[k]]
          BY DEF Ranked
        <5> QED BY <5>1, <5>2
      <4>7. DenseVisits(s) = [k \in 1..n |-> IF k \in 1..n THEN Ranked(s, S)[k] ELSE NoPrice]
        <5>1. active[s] = n
          BY <3>1, <4>5 DEF Cached
        <5> QED BY <4>2, <4>4, <4>5, <4>6, <5>1 DEF DenseVisits
      <4>8. DenseVisits(s) = Ranked(s, S)
        BY <4>6, <4>7
      <4>9. DenseBest(s) = l
        BY <4>2 DEF DenseBest
      <4> QED BY <2>3, <3>2, <4>3, <4>5, <4>8, <4>9
    <3> QED BY <3>3, <3>4
  <2> QED BY <2>5, <2>6
<1> QED BY <1>1, StoreInvariance, PTL
=============================================================================
