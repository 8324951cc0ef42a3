# A TLA+ development for pricetime

pricetime (`src/`) is a header-only C++20 limit order book with the things a
venue puts around it: a matching-engine server with four threads, a binary wire
protocol, ITCH 5.0 codecs and replay, MoldUDP64 framing, and a small
market-making sandbox. This directory holds TLA+ models of its core, the TLC
instances that check them, and proofs for TLAPS.

Line numbers refer to `src/include/pricetime/` unless a path says otherwise.

## 1. Inventory

| Component | State | Operations | What makes it correct |
|---|---|---|---|
| **SPSC queue** `spsc_queue.hpp` | `slots_`, `head_`, `tail_`, and a private cached copy of the other side's index per thread | `try_push`, `try_pop` | bounded FIFO; the plain slot accesses of the two threads never meet; no lost wake-up of a spinning thread |
| **Order book** `book.hpp` | id map, two ladders of levels, each an intrusive list and a running total; share counters; self-trade policy | limit, IOC, FOK, market, cancel, replace, execute/reduce resting, insert passive | price-time priority; indexes and aggregates agree; never crossed; FOK is all or nothing; a rejected call changes nothing; shares are conserved |
| **Level, pool, types** `level.hpp`, `order_pool.hpp`, `types.hpp` | prev/next pointers, free list threaded through the same nodes | push, remove, reduce, alloc, release | list and free list are disjoint and well formed |
| **Ladders** `ladder_map.hpp`, `ladder_dense.hpp`, `ladder_pooled.hpp` | ordered map; or flat array with a cached best index; or map with a node cache | get/create, level emptied, best | the three are the same ladder |
| **Id maps** `id_map.hpp` | open addressing, linear probing | find, insert, erase with backward shift, rehash | a partial function from ids to nodes |
| **Reference book** `src/tests/reference_book.hpp` | one vector in arrival order | the same calls | it is the oracle of the differential tests |
| **Engine** `engine.hpp` | three SPSC queues, flags `stopping_`, `recv_done_`, `match_done_`, the listener, one connection, a buffer per stage | four loops, `handle`, `start`, `stop`, `wait_for_session_end` | order of responses and of the feed; drains before exit; `stop()` always returns |
| **Sockets, wire** `net.hpp`, `wire.hpp` | a socket | connect, accept, recv, send, interrupt; encode/decode | a request cut by TCP is put together again; a stream out of step is given up |
| **MoldUDP64** `moldudp64.hpp` | packer buffer; gap tracker `next_` and counts | pack, unpack, observe | sequence numbers without holes; gaps counted once |
| **ITCH** `itch.hpp`, `itch_writer.hpp`, `itch_reader.hpp`, `itch_stream.hpp` | stream carry buffer | encode, parse, chunked read | chunked read = whole-file read |
| **Replay, multi book** `itch_replay.hpp`, `multi_book.hpp` | order owner index, a book per symbol | apply a message, route by reference | the rebuilt book is the published one |
| **Order-entry client** `src/tools/engine_client.cpp` | a sending and a reading thread | send pipelined requests, read responses | knows its orders from the responses |
| **Sandbox** `queue_position.hpp`, `market_maker.hpp`, `src/tools/mm_sandbox.cpp` | quotes, queue estimates, position | place, cancel, fill, re-quote | shares ahead known exactly; fills wait their turn; position bounded |
| Tools, benches, fuzzers, tests, mapped files, hashes | | | drivers and pure helpers |

How they interact. The recv thread reads the socket, decodes requests and
pushes them into `q_in_`. The match thread pops one request at a time, calls the
book, and pushes the reply and two responses per execution into
`q_out_`, and ITCH messages into `q_md_`. The send thread batches responses and
writes them to the socket; the md thread packs each ITCH message into a
MoldUDP64 packet. No lock lies on that path: what ties the threads together is
the three queues, one atomic flag per stage that says "no more is coming", and
`stopping_`. The book is touched by the match thread only. `stop()` runs in any
other thread, and interrupts the listener and, under `conn_mu_`, the connection.

What is hard here: the interleaving of plain and atomic accesses in the queue;
the shutdown cascade, where each stage decides that it is done from a flag and
a queue that another thread is changing; full queues, which make a stage wait
for the next one; and in the book the states *inside* a call, where levels run
dry and self-trade prevention removes orders under the loop. The feed and the
file readers add unreliable delivery and messages cut by chunk boundaries; the
replay and the sandbox add state that is copied from the book and must follow
it. The hazards are listed in `PROJECT.json`, each at its line with the
properties that cover it.

## 2. The modules

| Module | Lines it models | Role |
|---|---|---|
| `BoundedFifo` | what `spsc_queue.hpp` promises | abstract specification of the queue |
| `SpscQueue` | `spsc_queue.hpp` | the ring, one action per load or store |
| `SpscQueueProofs` | | race freedom and refinement for every capacity |
| `OrderBook` | `book.hpp` with `level.hpp`, `ladder_map.hpp` | every entry point, one action per matching iteration |
| `OrderBookProofs` | | index agreement, an uncrossed book, clean rejection; running totals, conservation of shares, termination of matching, fill-or-kill; the refinement of `ReferenceBook`; client and feed of `EngineFeed` |
| `ReferenceBook` | `src/tests/reference_book.hpp` | abstract specification of order entry |
| `OrderBookArrival` | | `OrderBook` with an arrival history, and the refinement mapping to `ReferenceBook` |
| `LevelQueues` | what `book.hpp` expects of its storage | abstract specification of levels and ladders |
| `LevelStore` | `level.hpp`, `order_pool.hpp`, the three ladders | intrusive lists, free list, cached best index, parked nodes |
| `LevelStoreProofs` | | the refinement, the accounting of nodes and the ladders' agreement, for any number of nodes and prices |
| `PartialMap` | the contract at the top of `id_map.hpp` | abstract specification of an id map |
| `IdMap` | `id_map.hpp`, `OpenAddressMap` | probing, growth, and the backward shift slot by slot |
| `IdMapProofs` | | reachability of every entry, and the refinement, for every hash function |
| `Replay` | `itch_replay.hpp`, `multi_book.hpp` | books rebuilt from an ITCH stream |
| `EngineFeed` | `handle()`, `respond` and the `md_*` helpers of `engine.hpp`, `wire.hpp` responses, prices of `itch_writer.hpp` | `OrderBook` and `Replay` tied together by the feed |
| `Engine` | the rest of `engine.hpp`, the parts of `net.hpp`, `wire.hpp` and `engine_client.cpp` it meets | threads, queues, framing, shutdown |
| `EngineProofs` | | order, draining and the extent of what is dropped, for every capacity |
| `MoldFeed` | `moldudp64.hpp`, end of session in `engine.hpp` | numbered packets, and a gap tracker behind an unreliable network |
| `MoldFeedProofs` | | exactness of its count, for every history of the network |
| `ItchCodec` | `itch.hpp`, `itch_writer.hpp` | messages byte by byte at their real offsets |
| `ItchFile` | `itch_reader.hpp`, `itch_stream.hpp` | files read whole and in chunks |
| `Sandbox` | `src/tools/mm_sandbox.cpp`, `queue_position.hpp`, `market_maker.hpp` | `Replay` with a simulated market maker |
| `SandboxProofs` | | replayer's index, queue positions and position limit on every stream |
| `SequenceFacts` | | lemmas about sequences and numbers the proofs share |
| `MC…` | | TLC instances |

Composition: `EngineFeed` = `OrderBook` + `Replay`; `Sandbox` = `Replay` +
strategy and fill models; `ItchFile` = `ItchCodec` + readers. Refinement:
`SpscQueue` to `BoundedFifo`, `OrderBookArrival` to `ReferenceBook`, `IdMap` to
`PartialMap`, `LevelStore` to `LevelQueues`. Three of these abstract
specifications are what the next module up is written in terms of: `Engine`
uses bounded FIFOs, `OrderBook` a partial function and sequences.

Operators named `<Definition>_<Slip>` are not part of a model: each is a
variant of the definition after it with one plausible slip, kept to show that a
property notices it (`mutants` in `PROJECT.json`).

### SpscQueue

The producer is `push_spin` calling `try_push` (lines 68-81), the consumer a
stage calling `try_pop` (84-94). `ppc` and `cpc` separate the plain slot access
from the release store that publishes it, so the two threads interleave at
every access. Acquire loads are *not* modelled as reading the newest value:
`ReloadTail(t)` and `ReloadHead(h)` take any value the index has had since this
thread last loaded it (`Seen`), which is what the memory model promises. A
private cache is only reloaded when it shows "full" or "empty", as in the code.
`lastIn` and `lastOut` are history variables so that the refinement also says
*which* item was accepted and handed out. `size_approx` and `empty_approx` are
read-only hints that nothing acts on and are left out.

### OrderBook

`orders` is the id map with the nodes, `fifo[s][p]` the list of a level, `total`
its aggregate, `levels[s]` the set of prices the ladder has a level for.
`total` and `levels` are kept by hand, as the code does, and never computed:
whether they are right is what is checked. `Enter` is validation, the FOK
pre-scan and the start of `match()`; `Fill` and `PreventSelfTrade` are one
iteration of its inner loop; `Finish` the tail of the entry point (rest or
cancel the remainder). `call` is the running entry point, `exec` the
`Execution` given to `on_exec` by the last step. `Cancel`, `Replace`,
`InsertPassive` and `Consume` (`execute_resting`, `reduce_resting`) are single
actions, because nothing runs between their steps. `Replace` cancels the old
order and then does what `add_limit_as` does (`EnterReplacement`), which
validates a second time; that this second validation never refuses, so that no
rejected replace has cost the old order, is `RejectedLeavesNoTrace`, and `ReplaceIs`
in the proofs.
Policies may change between calls. Counters are unsigned and wrap at
`CounterModulus`. `on_exec` is called while a spent order is still linked; the
repository's callbacks never touch the book, so unlinking belongs to the step.

`Spec` leaves out `insert_passive` (a matching engine never calls it), `ApiSpec`
has every entry point.

### ReferenceBook and OrderBookArrival

`ReferenceBook` is the repository's oracle: one sequence, searched linearly. It
has no `execute`/`reduce`/`insert_passive`, and neither has the specification
that is compared with it. The real book does not record how orders at
*different* prices arrived; `arrival` is a history variable that does, by
watching ids appear and disappear. Under the mapping every step of the book is
a step of the reference book with the same call, execution, result and
counters. A call that matches is never of a kind outside `Kinds`, except that a
replacement is a limit order whatever `Kinds` is; `Started` of the reference
book says the same.

### LevelQueues and LevelStore

`OrderBook` speaks of a sequence per price; `LevelStore` has what the code has:
nodes with `prev` and `next`, a free list through the same `next`, and one of
three ladders, chosen by the variable `ladder` in the initial state and the same
ever after. There are two actions, as the book uses its storage in two ways:
`Rest` (get or create the level, take a node, append it) and `TakeOff` (unlink,
release, and repair the ladder when the level has run empty). `OrderPool`'s
chunks are the set `unused`: which fresh node is handed out does not matter, which
released one does. `MaxCached` is the code's `kMaxCached` = 4096. The pooled
ladder's cache holds the levels as they were parked, and `Renewed` is what becomes
of one that is reused. A level's
running total is `OrderBook`'s `total`. `DenseLadder::best` holds `None` where
the code has -1.

### PartialMap and IdMap

`find`, `insert` with its growth, `reserve` and the first half of `erase` are
one step each; the backward shift of `erase_at` is a step per slot it looks at
(`ShiftBack`, `PassOver`, `EraseDone`), with `hole` and `scan` its `i` and `j`.
The table is only promised to be in order when no shift is under way (`Idle`),
and no other call can run then: the map has one thread. The hash function is a
variable that never changes, any function from ids to `Hashes` — `hash.hpp`
needs to be deterministic and nothing else. Under the mapping `Contents` an
erase takes effect when its slot is emptied; the shift that follows must be
invisible. `for_each` and `prefetch` change nothing and are left out.

### Replay and EngineFeed

`Replay` has one action per handler of the replayer, each a single step (one
thread, no callbacks). `books` are the orders of each symbol in order of
arrival, `owner` the index that routes a message naming only a reference,
`anomalies` which of the two error counters have left zero.

`EngineFeed` extends `OrderBook` by `handle()`: each request of the wire
protocol calls the book (`HandleEnter`, `HandleCancel`, `HandleReduce`,
`HandleReplace`), `Match` collects the executions, and `Publish` makes the
responses and the messages once the book has returned. `Reply` is the first
response (a refusal names the order and the quantity a success would), `FillCounted` the two responses an execution causes, one for either
side; `told` is a history variable, the shares per order that a client arrives
at which goes by the responses alone (`AllCounted`). `Published` is what the feed says, executions first. An
instance of `Replay` (`Replica`) applies the messages one by one. An ITCH price
field has 32 bits and an engine price 64 (`itch_writer.hpp:62`): `FeedPrice` keeps the price modulo `PriceModulus`, so an
engine that trades at prices from 2^32 up, or at negative ones, would publish
other prices than it trades at. `PricesFit` says that it does not; the instance
meets it (`FitAssumption`), as prices of ITCH itself do.
A request of a kind the switch does not know decodes, touches neither book nor
feed and gets no answer; no client of the repository sends one, and it is left
out. The queues between the stages are `Engine`'s subject — here messages arrive
in the order in which they were made, which is `InOrder` there — and what the
network does to datagrams is `MoldFeed`'s.

### Engine

A program counter per thread, one for `stop()`, and the client as the
environment. Correspondence: `Accept`/`AssignConn` are lines 160-170 (the
window between `accept()` and the assignment under `conn_mu_` is a state);
`CheckStopping`…`Desync` the receive loop; `Handle` one call of `handle()`,
whose pushes are then made one at a time by `Push` through `push_spin`;
`NoRequest`/`RecheckRequests` the exit test of line 215; `PopResponse` to
`RecheckResponses` `send_loop`; `Publish`/`NoMarketData`/`RecheckMarketData`
`md_loop`; `StopFlag`, `InterruptListener`, `InterruptConn`, `Join` are `stop()`.

- A done flag is stored by its stage's last step and is that stage's program
  counter being at `"exited"`.
- A request travels as `Pieces` pieces, and `recv_some` hands over any number
  of them: `rbuf` is `buf[0 .. have)`, with the beginning of a request that is
  kept for the next call. `Decoded` is the magic test: what is not all the
  pieces of one request fails it. The tag is two bytes at the end of forty, so
  a misaligned read could in principle pass by accident; the model's cannot.
- Queues are FIFOs by `SpscQueue`'s refinement, but a failing `try_pop` may be
  stale: `LooksEmpty` lets a stage that has not yet acquired the previous
  stage's done flag miss what is there. Once it has (`synced`), it cannot.
- `try_pop(x) && …` on the exit path is modelled as written: what the second
  `try_pop` pops is overwritten, recorded here in `lost`.
- What `handle()` pushes is nondeterministic in number (`MaxFills` executions, a
  possible trailing feed message) and exact in order. What `handle` says of the
  book is `EngineFeed`'s subject.
- The client is `engine_client.cpp`'s pipelined mode made more general: sending
  and reading go on independently, and it may also stop reading, shut down its
  sending side only (`FinishSending`), send bytes that are no request
  (`Undecodable`), or vanish at any moment, taking along what was under way.
  `SocketRoom` is what the kernel holds for a client that does not read.
- `SigPipe` says whether `send()` on a broken connection raises a signal. The
  code passes flags 0 and installs no handler, so on POSIX it does; on Windows,
  or under a parent that ignores the signal, it does not.

`made`, `wire`, `feed` and `lost` are histories; no guard of the engine reads
them (`wire` and `read` together are the fill level of the socket).

### MoldFeed

A message is its sequence number. `SendData`, `SendHeartbeat` and `SendEnd` are
the three ways to seal a packet; the engine's `md_loop` sends one message per
packet and the end once, other users of `Packer` more. `network` is the set of
packets sent and only grows: `Receive` takes any of them at any time, so a
packet may be lost (never received), doubled, reordered, or come before the
receiver's first one. `OnPacket` is `GapTracker::on_packet`; `Carried` are the
messages `unpack` hands to the handler, of every packet, late and doubled ones
included. `heard`, `first` and `late` are histories. The bytes of a packet, and
what `unpack` rejects, are not modelled.

### ItchCodec and ItchFile

The one module in which data is not abstract: what a message *is* is its
offsets and widths, and the code has each of them twice, once in the writer and
once in the decoder. A message is a sequence of bytes at the offsets of the
source. A number field of n bytes has n digits of base `Base` (256 in the code),
and a letter is its ASCII code. `H` and `P` have an encoder and no decoder, so of
them `ReadsBack` says only that their type and length are walked over.

`ItchFile` lets the writer fill a file with records, or a later version of the
protocol write a message of a type the reader does not know. One message may be
damaged in either byte of its length or in its type (`Altered`; others may follow
it), or the last one cut short. The file
is read by `for_each_framed_stream`, one iteration of its loop per step, for any
of several chunk sizes. The state is the code's: the carried bytes, `consumed`,
`total`. The buffer ends `Spare` = 64 bytes behind a chunk; where `in.read` would
write past its end the model stops (`Overrun`), as nothing is known of a program
that does. The two walks over memory are pure functions of the bytes and are
recursive operators, so that TLC evaluates them and nothing is proved about
this module. A file that cannot be opened, and I/O errors, are left out.

### Sandbox

One step is one message: `peek_event` and the fill models before it is applied,
`apply`, then the requote (`Refresh`), as the handler in `main()` runs them. It
extends `Replay` with two symbols of which one is tracked. The stream is
arbitrary: executions of orders that are not there, repeated adds, replaces
whose new reference is taken, quantities that are too large. Both fill models
are there (`queueModel`). Prices are integers on the grid `Tick`, with the
code's truncating division in the skew. `behind` is a history: what came after
the quote. Cash and mark-outs are doubles that only the report reads.

## 3. The runs

| Run | Question | Instance | Distinct states |
|---|---|---|---|
| `spsc_ring` | Is the ring a bounded FIFO without slot races; is every item handed out, does a full ring let the producer in? | 4 slots, 2 items | 11 thousand |
| `book_api` | Do indexes, levels, totals, shares and clean rejection hold under every entry point, passive inserts that may cross the book included; does matching come to an end? | 3 ids, 3 prices (one invalid), quantities to 2, two owners, all kinds and policies, counters modulo 7 | 90 thousand |
| `book_reference` | Is matching price-time priority, step for step; is the book never crossed, a fill-or-kill all or nothing? | 3 ids, 2 prices, two owners, all kinds and policies | 82 thousand |
| `id_map` | Is the open-addressing table a partial function, after any history of inserts, erases and growth, for any hash function? | 4 ids, 2 values, hashes {0, 2, 3, 6, 7}, 4 slots to begin with | 64 thousand |
| `level_store` | Are the lists, the free list and each of the three ladders a queue per price with the right best price? | 4 nodes, 3 prices, one parked node per side | 8 thousand |
| `engine_feed` | Does a client that goes by the responses know its orders; is the book rebuilt from the feed the engine's, without anomalies and never crossed? | 3 ids, 3 prices, quantities to 2 | 188 thousand |
| `mold` | Is the count of missed messages exact; does the end of the session account for everything? | 4 messages, packets of up to 2 | 105 thousand |
| `itch_file` | Is reading in chunks reading the whole, as long as the buffer has room; when has it not; is what was written what is read? | all 11 types of the writer and three messages of an unknown one (of 1, 63 and 100 bytes), files of 2 messages, chunks of 7, 24, 50 bytes, a damaged message or end | 187 thousand |
| `sandbox` | Do index and books stay together on any stream; are queue positions exact, do fills wait their turn, is the position bounded? | 2 bids, 1 ask, 1 order of another symbol, 2 prices, quantities to 2, quote size 2, limit 1 | 18 thousand |
| `engine_safety` | Order, draining and the extent of what is dropped, through pipelining, requests cut in two, a desynchronized stream, disconnects, `stop()` and SIGPIPE | 2 requests (the second possibly undecodable), 1 fill, capacity 2, batch 2, socket room 1 | 2.3 million |
| `engine_liveness` | Does `stop()` return, does a session end, is a reading client answered? | 1 request, 2 fills, capacity 1, batch 2, no market data, no SIGPIPE | 46 thousand |
| `engine_drop` | *(violation)* Is everything that was queued processed? | 2 requests, capacity 1, batch 1 | |

Why the bounds are enough.

- *Ring*: four slots go round several times, with full, empty and every lag of
  either cache; nothing depends on more. The proofs remove the bound.
- *Book*: three ids give two resting orders in one queue and an aggressor;
  quantities 1 and 2 give full, partial and multi-order fills; two valid prices
  give sweeping and an invalid third rejection; owners 0 and `a` give every
  self-trade branch. Calls are unbounded: ids are reused as they die.
  `book_reference` sets `CounterModulus = 1`, which takes the counters out of the
  comparison; `SharesConserved` of `book_api` covers them, modulo 7, more than a
  step can change them by, and the proof of the refinement compares them at any
  modulus. It compares a state with the next, and no guard reads
  a counter, so the view `WithoutCounters` merges states that differ in counters
  only and hides no step from it.
- *Id map*: four ids make the table grow from 4 slots to 8 (`reserve` does so
  too) and cluster in either size; the hashes give equal, adjacent and far ideal
  slots and put clusters across the wrap-around (6 and 7 are 2 and 3 in the small
  table). Two values tell a kept entry from an overwritten one.
- *Storage*: four nodes are a head, a tail and something between them in one list
  while a fourth is free or elsewhere; three prices give a best level, one to
  skip and one to find; a cache for one parked node is full and empty in turn.
- *Feed*: three ids give two resting orders and an aggressor, and a replace
  whose new id is taken; ids are reused without end. `MaxBacklog = 0` lets a
  request in only when the replayer has caught up, which costs nothing: the
  replayer never influences the engine, and its state depends on the sequence of
  messages alone. The proofs remove this bound with the others.
- *Mold*: four messages in packets of one or two give gaps of one and of more, a
  late packet that fills a gap or half of it, doubled ones, heartbeats and the
  end before, in and after the gap.
- *ITCH*: base 16 keeps the numbers within TLC's integers, and their digits are
  distinct, so that a field read one byte off differs; chunks of 7 cut prefixes and messages everywhere,
  50 holds a message to the byte, 24 is between. Two records put a boundary
  between messages and let a message follow a damaged one. What is carried of a
  message of 63 bytes and its prefix is 64 bytes at most, all the room there is; a
  message of 100, or a damaged length, overruns the buffer in chunks of 7 and of 24,
  and is read in one piece in chunks of 50 when they happen to end elsewhere.
- *Sandbox*: two orders may be ahead of a bid; a limit of 1 with quotes of 2 lets
  a fill overshoot; the view `WhatCounts` leaves out the replayer's
  statistics and the fields of inactive quotes, which nothing reads before the
  next `place` sets them.
- *Engine*: a stage that exits could throw away two messages only if its queue
  holds two, hence capacity 2 in `engine_safety`; capacity 1 in `engine_liveness`
  makes every push wait for the stage behind it. Two pieces per request are a
  whole request, a half, and one and a half per `recv`; one piece in the other
  two runs, which ask nothing about framing. `MaxRequests` and
  `MaxFills` bound the session, not the interleaving.

Symmetry is over ids or nodes (in `sandbox`, over references of one symbol and
side), which no definition compares or orders, and in runs without liveness only.
`CHECK_DEADLOCK` is never switched off. The engine does stop in the end: `Over`
is the stutter of a run in which every thread has ended and the client is gone,
and `Done` of `ItchFile` that of a file that has been read or has overrun the buffer; any other standstill is
reported as a deadlock.

**Fairness.** Weak fairness per engine thread: each runs on its own core and
is never descheduled for ever. Strong fairness of the pops: a stage polls for
ever, and each poll may miss an item by a stale load, but C++ stores become
visible in finite time, so it does not miss the same item infinitely often. In
the ring the same thing is said as weak fairness of the reload that returns the
present value. The client owes nothing: it need not connect, send, read or
close. Nobody needs to call `stop()`. Only `Answered` assumes a reader, and says
so in its own statement (`WF_vars(ReadResponse) => …`). `engine_liveness` sets
`SigPipe` to FALSE: with it `stop()` has no caller to return to. That a call of
the book ends needs no fairness: `MatchingEnds` says that every iteration takes
something away that is finite.

## 4. Where the code and its documentation disagree

One disagreement is shown by a run:

- **Drops at shutdown** (`engine.hpp:215`, `:379`, `:411`; `engine_drop`). The
  exit test of the three consuming stages is `done flag && !try_pop(x)`. If the
  previous stage pushes and exits between the failed first `try_pop` and the
  flag, the second `try_pop` succeeds, the test is false, and the loop starts
  over with the next `try_pop` overwriting `x`. A request is never handled, a
  response never sent, a feed message never published — the last without a gap in
  the sequence numbers, since these are given out after the pop. Lines 51-52
  promise that "no accepted order is ever silently dropped". The same model shows
  that this costs one message per stage at most (`AtMostOneLost`), that the
  second `try_pop` cannot simply be removed (a mutant of `NothingLeftBehind`
  does that and leaves items behind), and that all else is drained.

Others were met while reading and modelling, and are built into the models as
the code has them:

- `engine.hpp:39-41` says that a slow reader never stalls matching; `push_spin`
  (`:148`) waits for room in `q_out_`, so a client that does not read does stall
  it once the queue is full.
- `net.hpp:186` calls `send()` without `MSG_NOSIGNAL`: on POSIX a vanished client
  ends the process where `engine.hpp:390-391` says that the queue is drained
  (`KilledBySigPipe`).
- `market_maker.hpp:70` and `mm_sandbox.cpp:233`: the limit stops new quotes, and
  one that is active stays and fills. With a limit of 1 and quotes of 2 the
  position reaches 2; `PositionBounded` states the bound that does hold. Quotes
  also stay where they are while one side of the book is empty.
- `moldudp64.hpp`: a packet that arrives after the tracker has passed it stays
  counted as missed although its messages are handed over, and a loss before the
  first packet is not counted. `MissedIsExact` says exactly this.
- `itch_stream.hpp:42` leaves 64 bytes of room behind a chunk, by lines 40-41 for
  "the largest possible carried fragment". That is so for the types of today (50
  bytes at most), but the length prefix is what the walk goes by, so that types
  "added to the spec after this code was written" still parse
  (`itch_reader.hpp:33-36`), and it may say up to 65535. When a chunk ends more than
  64 bytes into a message that declares 64 or more — a newer type, or a damaged
  prefix — the whole fragment is carried, and the next `in.read` (line 47) writes
  past the end of the buffer if the file goes on. `itch_file` reaches this
  (its action `Overrun`), for sound files and damaged ones; `RoomUnlessLonger` says
  that nothing else leads there, and no message of a known length does.

## 5. What is proved

Each theorem holds for every value of its module's constants: any number of
ids, prices, owners, messages and requests, any capacity, batch size, counter
modulus and hash function. Each proof has the same shape: an inductive
invariant, one lemma per action, and a last temporal step.

**The ring** (`SpscQueueProofs`): `TypeCorrect`, `CachesLagAlways`, `RaceFree`
(`NoSlotRace`), and `Refinement`: the ring implements `BoundedFifo` with capacity
`Mask`. The invariant is `TypeOK /\ CachesLag /\ ProducerInv /\ ConsumerInv`.
`NoSlotRace` alone is not inductive: that the producer may write is something it
learned from a cache that may be old. `CachesLag` says that going round the ring
one meets `cachedTail`, `tail`, `cachedHead`, `head` in that order, so old
knowledge errs on the safe side; the other two say what each thread still knows
between its check and its store. A publication appends to the abstract queue, an
advance takes its head, all else stutters.

**The book** (`OrderBookProofs`): `TypeCorrect`, `IndexesAlwaysAgree`,
`LevelsAlwaysLive` and `RejectionsLeaveNoTrace` under `ApiSpec`,
`AlwaysUncrossed` under `Spec`. The invariant is
`TypeOK /\ IndexesAgree /\ LevelsLive /\ CallInv`; `CallInv` carries what
validation established while the loop runs: the aggressor's id is free (else
resting it would list an id twice) and its price is one the ladder can hold. The
book changes in three ways only — an order is unlinked, shrinks, or rests — and
each has a lemma. `ReplaceIs` shows the second validation of a replace to be idle:
what the first one found valid is, and the new id is free or was the old order's. An uncrossed book stays so because levels only ever disappear,
except when `Finish` rests an order that crosses nothing. For the rejections, an
invariant says that no result is there yet while a call runs, so that a result
that says "rejected" was written by the step that rejected.

**Its shares** (the second half of `OrderBookProofs`): `TotalsAlwaysAgree`, `SharesAreConserved`,
`MatchingAlwaysEnds` and `FokAlwaysFills`, all under `ApiSpec`. The totals are sums over sets of orders
and the library's induction over finite sets is out of the prover's reach; what a
sum gains or loses with one element is proved from the definition of the fold
instead, by a smallest counterexample. To the invariant above come that the book
is finite, that the totals agree, and that `Unaccounted` — shares added less
shares executed, cancelled and resting, modulo the counters' modulus — is zero in
every state, in the middle of a call too. Conservation is thus shown for counters
that have wrapped. For the fill-or-kill, `FokCovered` follows the pre-scan's
promise through the loop: what the call has left is covered by the shares of the
orders it can still reach (without self-trade prevention these are all that
cross, and the level totals say how many shares that is). The loop always takes
the order that comes before all others (`FrontIsFirst`), so a fill lowers both
sides alike; an own order in front that would kill the aggressor means that
nothing could be reached, which the promise excludes; and an own order that is
killed itself was never counted.

**It is the reference book** (`BookImplementsReference`, same module):
`ArrivalSpec => ImplementsReference`, for any orders, prices, owners, policies and
counter modulus. To the book's invariants comes `Lists(arrival)`: the
history holds each live order once, and the orders of one level in the order of
that level's queue. This is what makes the reference book's flat list and the
book's queues the same thing: unlinking is removing a place of the list
(`UnlinkRef`), shrinking changes one entry (`ShrinkRef`), resting appends
(`RestRef`). Then each action is a step of the reference book. `FillRefines` and
`PreventRefines` need that the head of the best level's queue is the one the
linear search of all orders picks (better price, else earlier place in the
list); `EnterRefines` that the pre-scan over level totals and the one over the
list find the same number of shares for a fill-or-kill, two sums over
differently indexed sets; `FinishRefines` that the best level not crossing means
that no order at all crosses. `NeverCrossed` is not needed: the argument is
about one side at a time.

**What the engine says of it** (last part of `OrderBookProofs`, under
`FeedSpec`): `ClientAlwaysAgrees`, `FeedIsAlwaysClean`, `FeedAlwaysAgrees`,
`ReplicaNeverCrossed`, for any backlog of unread messages. The invariant
`FeedInv` has four parts. `Handling`: the running call is the one the request
asked for, and `fills` add up to what it has filled. `ToldInv`: the client's
count is the book's or, while a request is handled, will be when the acceptance
and the fills so far have been counted; the aggressor's own count is then what
the call has left (`OpenShares`). `StreamInv` is the heart: there is a trace of
books, one per message, from the replayer's to the engine's through the messages
on their way and then through those the current request will publish so far
(`Leads`). Each of these messages names an order that is there and takes no more
than it has (`Becomes`), and each book on the trace is `Fine`: no id twice, no
order without shares, and not crossed if the prices fit. So `Apply` has only to
take the first step of the trace, and every step of the engine has only to add
to its end. The end is the engine's book with one difference (`Shows`): an order
that is being replaced has left the book when the new one matches, and stays in
the feed's view, as executions are published before the `U` or `D` that ends it.
The view with that old order in it is not crossed either: it was not when the
request came, and since then orders have only shrunk or left. When the remainder
comes, that it crosses nothing is `NeverCrossed` of the next state. The last two
theorems assume `PricesFit`; without it they are false, as a price that does not
fit is shown as another one. The first two need no such thing: neither counts
nor references depend on prices.

**Its storage** (`LevelStoreProofs`): `StoreImplementsQueues`, `NodesAlwaysAccounted`
and `LaddersAlwaysAgree`. The invariant names the sequences the pointers stand
for: there are a queue per price and a free list such that each node at place `k`
points to its neighbours at `k - 1` and `k + 1` and knows its level (`Threaded`),
each level record has the queue's first, last and length (`StandsFor`), the free
list is chained through the same nodes (`Chained`), unused nodes are blank, and
every node is somewhere (`Complete`). That no node is in two places need not be
said: its `level` differs. `push_back` and `remove` are one lemma each on a single
list (`AppendThreads`, `RemoveThreads`), and every other list is untouched because
its nodes know another level. `ParkedOK` says that a parked level has nothing left
in it, so that what a reused one becomes does not depend on what it was
(`RenewedIs`). Only at the end is it shown that following the
pointers reads those sequences (`ChainReads`, again a smallest counterexample), so
that `ListAt` is the queue of `LevelQueues`. For the dense ladder `CacheOK` says
that `active_levels` counts the prices with orders and `best` is the index of the
best of them; `ScanFinds` shows the comment in `on_level_empty` right: the scan
ends at a level with orders and never leaves the array.

**The id map** (`IdMapProofs`): `AlwaysReachable`, and `ImplementsPartialMap`: the
open-addressing table implements `PartialMap`. The slots lie on a ring; `Dist`
measures how far one is behind another going round, and two facts about it carry
the proof: a slot's successor is one farther, and what lies on the way from the
hole lies on the way of every entry that passes the hole. Between calls the table
is `Ordered`: no empty slot lies between an entry and its ideal slot. While an
erase shifts it is `Shifting`: all slots from the hole to `scan` are used, and
only entries behind `scan` may miss the hole. `ShiftBack` moves the hole,
`PassOver` needs that an entry which may not fill the hole does not pass it, and
the empty slot at the end of the cluster shows that nobody behind it does. That
`size_` counts the used slots, the one being erased included, and stays below 70%
of the table gives every probe its empty slot. Growth keeps the entries by
induction over the slots of the old table (again a smallest counterexample).

**The engine** (`EngineProofs`): `TypeCorrect`, `AlwaysInOrder`,
`LeavesNothingBehind`, `LosesOneAtMost`, for every capacity, batch size and
number of requests and fills. The invariant follows a request all the way:
`StreamInv` (what was sent and not taken in is in the receive buffer and on the
wire, whole or garbled), `IntakeInv` (why the receive loop ended), `RequestInv`
(requests popped were handled or are lost), `FlowInv` (what was made for somebody
who is still there is somewhere), `OrderInv` (each buffer and queue is in order,
and so are they after one another). `SyncInv` is the heart of the shutdown: a
stage that has acquired the previous one's done flag cannot miss what is in its
queue, which nobody fills any more; so a stage that is `synced` and about to
recheck has an empty queue, and whoever has lost an item is `synced`, so it loses
no second one. `ExitInv` follows: a stage exits after the one before it, with
nothing in its queue.

**The feed's numbers** (`MoldFeedProofs`): `MissedIsAlwaysExact` and
`EndAlwaysAccounts`. `Aligned` is what makes the count exact: packets are cut from
one session, so neither the tracker's next number nor the end of any packet lies
inside another one, and a packet is therefore late as a whole or not at all. What
a packet adds to the count is an interval of numbers, counted with the library's
facts on cardinality.

**Replay and sandbox** (`SandboxProofs`, on every stream of messages):
`OwnersAlwaysAgree`, `QueueAlwaysExact`, `FillsAlwaysInTurn`,
`PositionStaysBounded`. The tracked book is a sequence without duplicates and
the owner index points to it exactly for the references it holds; each kind of
message is a lemma about how book and index change (`BookChange`), and the
quotes' invariant is proved from that alone: what a quote takes to be in front
of it is, reference by reference, what was there when it was placed and still is. The
position bound needs `PositionInv`: the limit leaves room for what is still to be
filled of an active quote.

**Shared** (`SequenceFacts`): what appending, concatenating, taking the head and
removing a place do to a sequence and to the set of its elements, and that a set
of naturals that is not empty has a least element.

Assumptions used: the named ones of each module (a ring of at least two slots;
`NoItem`, `NoOrder`, `NoCall`, `NoExec`, `NoRequest`, `NoOwner`, `NoValue` are
no members of the data they stand apart from; the engine's book takes limit
orders, which is all that a request can ask for; 0, the empty-slot sentinel, is
no id; prices are integers; positive capacities, a positive modulus; finitely
many pool nodes, `Null` neither a node nor a level's place, `NoLevel` no level
record), and `PricesFit` as a hypothesis of two theorems. TLC evaluates each of
them on its runs.

Only model-checked:

- liveness (`PopProgress`, `PushProgress`, `StopReturns`, `SessionEnds`,
  `Answered`), which the prover does not reach;
- `ItchFile` (`RoomUnlessLonger`, `StreamIsWholeFile`, `ReadsBack`): its walks over memory are
  recursive operators, and what a recursive walk computes for every input is an
  induction over data, which the prover does not do either.

## 6. Not modelled

- Byte layouts of the wire protocol and of MoldUDP64 headers: stateless codecs,
  field after field; and `unpack`'s rejection of malformed packets.
- `depth()`, `state_hash()`, statistics, observers of the replayer: read only.
- Cash, marks, mark-outs and the report of the sandbox: floating-point results
  that nothing acts on.
- Latency measurement and the ping-pong mode of `engine_client.cpp`.
- `hash.hpp`, `op.hpp`, `symbol.hpp` (values and pure functions; `IdMap` allows any
  hash), `mmap_file.hpp`, `thread_util.hpp`, socket options and busy polling
  (operating-system calls).
- Tools, benchmarks, fuzzers and tests, apart from the reference book, the
  sandbox and the client: command lines, printing, measurement.
- UDP: `send` never blocks, and what the network loses is `MoldFeed`'s.

## 7. Plan

1. *(done)* the ring, the book, the reference book, the engine's threads.
2. *(done)* the storage under the book: `IdMap`, `LevelStore`.
3. *(done)* the feed: `EngineFeed`, `Replay`, `MoldFeed`, `ItchCodec`, `ItchFile`.
4. *(done)* `Sandbox` on arbitrary streams; the client's view of its orders;
   requests cut by TCP.
5. *(done)* proofs of the ring, the book and its shares, the id map, the engine's
   safety, the gap tracker, the replayer and the sandbox, the lists and the ladders.
6. *(done)* the refinement to `ReferenceBook`, and the client's and the replayer's
   agreement with the engine's book.

Every safety property and every refinement the runs check is now also a theorem,
except those of `ItchFile`.
