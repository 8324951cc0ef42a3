------------------------------ MODULE LevelStore ------------------------------
(***************************************************************************)
(* include/pricetime/level.hpp, order_pool.hpp and the three ladders: the  *)
(* storage under OrderBook, which speaks of sequences where the code has   *)
(* intrusive lists, a free list threaded through the same nodes, an array  *)
(* with a cached best index or a tree whose nodes are parked and reused.   *)
(*                                                                         *)
(* Two actions: an order rests, an order is taken off.  Nothing runs       *)
(* between their steps.  Quantities are OrderBook's.                       *)
(***************************************************************************)
EXTENDS Integers, Sequences, FiniteSets, SequencesExt

CONSTANTS
  Nodes,               \* bound: the nodes the pool's chunks have room for
  MinPrice, MaxPrice,  \* min_, max_
  MaxCached,           \* kMaxCached
  Null,                \* nullptr
  NoLevel              \* a price the tree has no node for

Sides == {"Bid", "Ask"}
Prices == MinPrice..MaxPrice
LevelRecords == [price : Prices \cup {0}, head : Nodes \cup {Null}, tail : Nodes \cup {Null}, count : Nat]

ASSUME NodesAssumption == IsFiniteSet(Nodes)
ASSUME RangeAssumption == MinPrice \in Int /\ MaxPrice \in Int /\ MinPrice <= MaxPrice
ASSUME CacheAssumption == MaxCached \in Nat
ASSUME NullAssumption == Null \notin Nodes /\ Null \notin Sides \X Prices
ASSUME NoLevelAssumption == NoLevel \notin LevelRecords

VARIABLES
  ladder,   \* the ladder the book is instantiated with
  node,     \* Order::prev, next, level
  unused,   \* nodes no chunk has handed out yet
  free,     \* free_head_
  level,    \* Level by side and price: an array slot, or a tree node's value
  best,     \* DenseLadder::SideLadder::best
  active,   \* DenseLadder::SideLadder::active_levels
  cache     \* PooledMapLadder::bid_cache_, ask_cache_

vars == <<ladder, node, unused, free, level, best, active, cache>>

Order == [prev |-> Null, next |-> Null, level |-> Null]
Level == [price |-> 0, head |-> Null, tail |-> Null, count |-> 0]
None == -1               \* kNone, an index
NoPrice == MinPrice - 1  \* where best() is nullptr

Init ==
  /\ ladder \in {"map", "dense", "pooled"}
  /\ node = [o \in Nodes |-> Order]
  /\ unused = Nodes
  /\ free = Null
  /\ level = [s \in Sides |-> [p \in Prices |-> IF ladder = "dense" THEN Level ELSE NoLevel]]
  /\ best = [s \in Sides |-> None]
  /\ active = [s \in Sides |-> 0]
  /\ cache = [s \in Sides |-> <<>>]

\* Price, or index, a ranks strictly before b.
Better(s, a, b) == IF s = "Bid" THEN a > b ELSE a < b

BestOf(s, S) == IF S = {} THEN NoPrice ELSE CHOOSE a \in S : \A b \in S \ {a} : Better(s, a, b)

\* S from its best to its worst: at each place the one with so many before it.
AtPlace(s, S, k) == CHOOSE a \in S : Cardinality({b \in S : Better(s, b, a)}) = k - 1
Ranked(s, S) == [k \in 1..Cardinality(S) |-> AtPlace(s, S, k)]

-----------------------------------------------------------------------------
(* OrderPool.                                                              *)

\* alloc() hands out node o: a released one, or the next of a chunk.
Alloc(o) ==
  IF free # Null
  THEN o = free /\ free' = node[o].next /\ UNCHANGED unused
  ELSE o \in unused /\ unused' = unused \ {o} /\ UNCHANGED free

-----------------------------------------------------------------------------
(* The lists.                                                              *)

\* Level::push_back.
PushedBack(l, o) ==
  [l EXCEPT !.head = IF l.tail = Null THEN o ELSE @, !.tail = o, !.count = @ + 1]

LinkedIn(l, o, s, p) ==
  LET new == [prev |-> l.tail, next |-> Null, level |-> <<s, p>>]
  IN [x \in Nodes |-> IF x = o THEN new
                      ELSE IF x = l.tail THEN [node[x] EXCEPT !.next = o]
                      ELSE node[x]]

\* Mutant: the list keeps the removed node as its tail.
Removed_StaleTail(l, o) ==
  [l EXCEPT !.head = IF node[o].prev = Null THEN node[o].next ELSE @, !.count = @ - 1]

\* Level::remove.
Removed(l, o) ==
  [l EXCEPT !.head = IF node[o].prev = Null THEN node[o].next ELSE @,
            !.tail = IF node[o].next = Null THEN node[o].prev ELSE @,
            !.count = @ - 1]

\* Mutant: the follower's way back is not mended.
Released_OneWay(o) ==
  [x \in Nodes |-> IF x = o THEN [Order EXCEPT !.next = free]
                   ELSE IF x = node[o].prev THEN [node[x] EXCEPT !.next = node[o].next]
                   ELSE node[x]]

\* The nodes once o is out of its list and at the front of the free list.
Released(o) ==
  [x \in Nodes |-> IF x = o THEN [Order EXCEPT !.next = free]
                   ELSE IF x = node[o].prev THEN [node[x] EXCEPT !.next = node[o].next]
                   ELSE IF x = node[o].next THEN [node[x] EXCEPT !.prev = node[o].prev]
                   ELSE node[x]]

-----------------------------------------------------------------------------
(* DenseLadder.                                                            *)

Index(p) == p - MinPrice

\* get_or_create: a slot without orders is activated.
DenseGot(s, p) == IF level[s][p].count = 0 THEN [level[s][p] EXCEPT !.price = p] ELSE level[s][p]

DenseGet(s, p) ==
  /\ IF level[s][p].count = 0
     THEN /\ active' = [active EXCEPT ![s] = @ + 1]
          /\ best' = IF best[s] = None \/ Better(s, Index(p), best[s])
                     THEN [best EXCEPT ![s] = Index(p)] ELSE best
     ELSE UNCHANGED <<active, best>>
  /\ UNCHANGED cache

\* The next index on the way to worse prices with orders at it, or the first
\* one outside the array.
Scan(s, levels) ==
  LET beyond == IF s = "Bid" THEN -1 ELSE Index(MaxPrice) + 1
      stops == {i \in -1..(Index(MaxPrice) + 1) :
                  /\ Better(s, best[s], i)
                  /\ i = beyond \/ (i \in 0..Index(MaxPrice) /\ levels[MinPrice + i].count # 0)}
  IN BestOf(s, stops)

\* Mutant: the best index is repaired whichever level has run empty.
DenseEmptied_AlwaysScans(s, l, levels) ==
  /\ active' = [active EXCEPT ![s] = @ - 1]
  /\ best' = [best EXCEPT ![s] = IF active'[s] = 0 THEN None ELSE Scan(s, levels)]
  /\ level' = [level EXCEPT ![s] = levels]
  /\ UNCHANGED cache

\* on_level_empty.
DenseEmptied(s, l, levels) ==
  /\ active' = [active EXCEPT ![s] = @ - 1]
  /\ best' = [best EXCEPT ![s] = IF active'[s] = 0 THEN None
                                 ELSE IF Index(l.price) # @ THEN @
                                 ELSE Scan(s, levels)]
  /\ level' = [level EXCEPT ![s] = levels]
  /\ UNCHANGED cache

\* for_each_level: from the best index on until active_levels have been seen.
DenseVisits(s) ==
  LET ahead == {p \in Prices : level[s][p].count # 0 /\ ~Better(s, Index(p), best[s])}
      inOrder == Ranked(s, ahead)
  IN IF best[s] = None THEN <<>>
     ELSE [k \in 1..active[s] |-> IF k \in DOMAIN inOrder THEN inOrder[k] ELSE NoPrice]

DenseBest(s) == IF best[s] = None THEN NoPrice ELSE MinPrice + best[s]

-----------------------------------------------------------------------------
(* MapLadder and PooledMapLadder: a tree of levels.                        *)

Tree(s) == {p \in Prices : level[s][p] # NoLevel}

\* try_emplace.
MapGot(s, p) == IF p \in Tree(s) THEN level[s][p] ELSE [Level EXCEPT !.price = p]

MapEmptied(s, l, levels) ==
  /\ level' = [level EXCEPT ![s] = [levels EXCEPT ![l.price] = NoLevel]]
  /\ UNCHANGED <<active, best, cache>>

\* Mutant: the Level of a reused node is made new, but for its price.
Renewed_KeepsPrice(l, p) == [l EXCEPT !.head = Null, !.tail = Null, !.count = 0]

\* What a parked node's Level becomes at its next price.
Renewed(l, p) == [l EXCEPT !.price = p, !.head = Null, !.tail = Null, !.count = 0]

\* get_in: the level that is there; or the node parked last; or a fresh node.
PooledGot(s, p) ==
  IF p \in Tree(s) THEN level[s][p]
  ELSE IF cache[s] # <<>> THEN Renewed(Last(cache[s]), p)
  ELSE [Level EXCEPT !.price = p]

PooledGet(s, p) ==
  /\ cache' = IF p \in Tree(s) \/ cache[s] = <<>> THEN cache
                                                  ELSE [cache EXCEPT ![s] = Front(@)]
  /\ UNCHANGED <<active, best>>

\* Mutant: nodes are parked without end.
PooledEmptied_Unbounded(s, l, levels) ==
  /\ level' = [level EXCEPT ![s] = [levels EXCEPT ![l.price] = NoLevel]]
  /\ cache' = IF levels[l.price] # NoLevel
              THEN [cache EXCEPT ![s] = Append(@, levels[l.price])] ELSE cache
  /\ UNCHANGED <<active, best>>

\* park: extract the node with the level's own price; keep it if there is room.
PooledEmptied(s, l, levels) ==
  /\ level' = [level EXCEPT ![s] = [levels EXCEPT ![l.price] = NoLevel]]
  /\ cache' = IF Len(cache[s]) < MaxCached /\ levels[l.price] # NoLevel
              THEN [cache EXCEPT ![s] = Append(@, levels[l.price])] ELSE cache
  /\ UNCHANGED <<active, best>>

TreeVisits(s) == Ranked(s, Tree(s))

TreeBest(s) == BestOf(s, Tree(s))

-----------------------------------------------------------------------------
(* What the book does with them.                                           *)

\* rest(): get_or_create, alloc, push_back.
Rest(o, s, p) ==
  LET l == CASE ladder = "dense" -> DenseGot(s, p)
             [] ladder = "pooled" -> PooledGot(s, p)
             [] ladder = "map" -> MapGot(s, p)
  IN /\ Alloc(o)
     /\ level' = [level EXCEPT ![s][p] = PushedBack(l, o)]
     /\ node' = LinkedIn(l, o, s, p)
     /\ CASE ladder = "dense" -> DenseGet(s, p)
          [] ladder = "pooled" -> PooledGet(s, p)
          [] ladder = "map" -> UNCHANGED <<active, best, cache>>
     /\ UNCHANGED ladder

\* cancel_open() and the spent orders of match() and consume(): remove,
\* release, and on_level_empty when that was the last order.
TakeOff(o) ==
  /\ node[o].level # Null
  /\ LET s == node[o].level[1]
         p == node[o].level[2]
         l == Removed(level[s][p], o)
         levels == [level[s] EXCEPT ![p] = l]
     IN IF l.count = 0
        THEN CASE ladder = "dense" -> DenseEmptied(s, l, levels)
               [] ladder = "pooled" -> PooledEmptied(s, l, levels)
               [] ladder = "map" -> MapEmptied(s, l, levels)
        ELSE level' = [level EXCEPT ![s] = levels] /\ UNCHANGED <<active, best, cache>>
  /\ node' = Released(o)
  /\ free' = o
  /\ UNCHANGED <<ladder, unused>>

Next ==
  \/ \E o \in Nodes, s \in Sides, p \in Prices : Rest(o, s, p)
  \/ \E o \in Nodes : TakeOff(o)

Spec == Init /\ [][Next]_vars

-----------------------------------------------------------------------------
(* Properties                                                              *)

\* The nodes met on the way from a node, at most one more than there are.
Chain(from, link) ==
  LET at[k \in 0..Cardinality(Nodes)] ==
        IF k = 0 THEN from ELSE IF at[k - 1] = Null THEN Null ELSE link[at[k - 1]]
  IN [k \in 1..Cardinality({j \in DOMAIN at : at[j] # Null}) |-> at[k - 1]]

Following == [o \in Nodes |-> node[o].next]
Preceding == [o \in Nodes |-> node[o].prev]

ListAt(s, p) == IF level[s][p] = NoLevel THEN <<>> ELSE Chain(level[s][p].head, Following)

Stored == [s \in Sides |-> [p \in Prices |-> ListAt(s, p)]]

Queues == INSTANCE LevelQueues WITH queue <- Stored

\* Whatever was linked, unlinked, released and handed out again before, each
\* list read from its head is the queue of the orders that came and have not
\* left, in the order in which they came, with any of the ladders.
ImplementsQueues == Queues!Spec

\* Every node is in exactly one place and once: not yet handed out, on the free
\* list, or in the list of one level; and that list reads the same from its
\* tail, has the length its level says, and its nodes know the level.
NodesAccounted ==
  LET released == Chain(free, Following)
      listed == UNION {UNION {ToSet(ListAt(s, p)) : p \in Prices} : s \in Sides}
  IN /\ unused \cup ToSet(released) \cup listed = Nodes
     /\ unused \cap ToSet(released) = {} /\ IsInjective(released)
     /\ (unused \cup ToSet(released)) \cap listed = {}
     /\ \A s \in Sides, p \in Prices :
          level[s][p] # NoLevel =>
            /\ IsInjective(ListAt(s, p))
            /\ ListAt(s, p) = Reverse(Chain(level[s][p].tail, Preceding))
            /\ level[s][p].count = Len(ListAt(s, p))
            /\ \A o \in ToSet(ListAt(s, p)) : node[o].level = <<s, p>>

Visits(s) == IF ladder = "dense" THEN DenseVisits(s) ELSE TreeVisits(s)
Best(s) == IF ladder = "dense" THEN DenseBest(s) ELSE TreeBest(s)

\* The three ladders are one: best() is the best price with an order, and
\* for_each_level comes past every price with an order, best first, and past
\* no other; cached index, count of active levels and reused nodes included.
\* A level is parked only when its last order has left it, and no more of them
\* than the cache may hold.
LaddersAgree ==
  \A s \in Sides :
    LET there == {p \in Prices : ListAt(s, p) # <<>>}
    IN /\ Visits(s) = Ranked(s, there)
       /\ Best(s) = BestOf(s, there)
       /\ Len(cache[s]) <= MaxCached
       /\ \A k \in DOMAIN cache[s] : cache[s][k] = [Level EXCEPT !.price = cache[s][k].price]
=============================================================================
