# UltraHFT: TLA+ models, model checking and proofs

UltraHFT is a header-only C++ library for receiving a Nasdaq ITCH feed: a NIC
poller, a message handler, an order book, and building blocks beside them (a
lock-free queue, a timer wheel, two memory pools, a latency histogram). This
directory models all of the parts that keep state, up to the receiver's `main`
with the sender and the network before it, checks them with TLC on small
instances, and proves with TLAPS, for every size, the safety of each of them: the
queue, the hash table, the order book and the events of its handler, the pools,
the timer wheel, the NIC handler, the histogram, and the receiver made of them.

## 1. Inventory

Paths are relative to `src/include/ultrahft/` unless they say otherwise.

| Component | State | Operations | What makes it correct |
|---|---|---|---|
| `SpscQueue` (`core/ring_buffer.hpp`) | slots, two atomic indices | `push` (producer), `pop` (consumer) | no data race, FIFO, never overfull, nothing refused without reason |
| `FlatOrderMap` (`market_data/flat_order_map.hpp`) | slot array, size | `insert`, `find`, `erase`, `clear` | it is a map; nothing lost or copied; every probe ends |
| `PriceLevel`, `Order` (`price_level.hpp`, `order.hpp`) | head, tail, links | `add_order`, `remove_order`, `get_total_qty` | the list is the orders of one price, oldest first |
| `OrderBook` (`order_book.hpp`) | two sorted level vectors, a `FlatOrderMap` | add, cancel, execute, queries | price-time priority; quotes and sums match the orders |
| `MarketDataHandler` (`market_data_handler.hpp`) | a book, callbacks, two counters | `process_message`, `reset`, `register_callback` | the fields of its events tell what becomes of an order; counters agree |
| ITCH messages (`itch_messages.hpp`) | none | `cast_message` | a short buffer is refused |
| `TimerWheel` (`core/timer_wheel.hpp`) | buckets, tick, next id | schedule x3, `cancel`, `tick`, `clear` | every timer fires once, on time or a bounded time late; `tick` returns |
| `MemoryPool` (`core/memory_pool.hpp`) | free stack, occupied bits, count | `allocate`, `deallocate`, destructor | a slot has one use; every object is destroyed once |
| `MemoryPool1` (`core/memory_pool_1.hpp`) | the same | the same | a draft of the former, used by `1.cc` only |
| `DpdkPacketHandler` (`market_data/dpdk_packet_handler.hpp`) | port, pool, counters, callback | `init`, `process_burst`, `register_callback`, `shutdown`, `extract_udp_payload` | resources taken and released once; every packet counted and its buffer freed; no byte read beyond a packet |
| Receive pipeline (`src/examples/market_data_pipeline_demo.cpp`) | running flag, two histograms | bring-up, poll loop, port filter, framing loop, reports, signal handler | each message of a datagram is processed once; the book is what the messages say; a signal ends it |
| `LatencyHistogram` (`common/latency_histogram.hpp`) | 64 counters, sum, min, max | record, percentile, reset | counts add up, a percentile names the bucket of its sample |
| Tools (`src/tools/`) | the sender's pool of live orders | send, receive | only live orders are referenced |
| Stubs, scratch files, benchmarks, build | none | | |

How they interact: the NIC poller calls the pipeline's callback for each packet;
the callback cuts the datagram into messages and calls `process_message`; the
handler calls the book; the book keeps `Order` objects inside the slots of a
`FlatOrderMap` and threads its `PriceLevel` lists through them by raw pointers;
the handler then calls its subscribers. All of that runs on one thread.
A signal handler clears the loop's flag between any two of its steps.
`SpscQueue` is the only component meant for two threads. `TimerWheel` and
`MemoryPool` call back into application code that may call them again.

The hard behaviours, listed with their lines under `hazards` in `PROJECT.json`:
the memory ordering of the queue; pointers into slots that an erase moves; the
cyclic arithmetic of the backward shift; the probe of a full table; list surgery
at both ends; events that must match changes; re-entrant callbacks while a list
is being walked; time that a tick has already passed; an `init` that fails half
way and is tried again; header and framing lengths that lie; datagrams that are
lost, repeated or reordered; a signal at any step.

## 2. Modules

| Module | Models | State and actions |
|---|---|---|
| `FlatTable` | the hash table as operators on a table value | `Find`, `Inserted`, `Erased`: the probe, insertion, the backward-shift loop |
| `FlatTableProofs` | lemmas about those operators | |
| `FlatOrderMap` | `FlatOrderMap` | `slots`, `size`; one action per method; `spinning` once a probe has no end |
| `FlatOrderMapProofs` | theorems about `FlatOrderMap` | |
| `OrderBook` | `OrderBook`, `PriceLevel`, `Order` | `slots` (orders with their links), `size`, `levels` (head and tail per price); `AddOrder`, `CancelOrder`, `ExecuteOrder` |
| `LimitOrderBook` | what `OrderBook` promises | queues of ids per side and price, open quantities |
| `MarketDataHandler` | `MarketDataHandler`, on top of `OrderBook` | counters, `mirror`, what a subscriber holds who applies the fields of its events, and `astray`, the orders finding 5 misleads him about; one action per message type, `Reject`, `Reset` |
| `OrderBookProofs` | theorems about `OrderBook` and `MarketDataHandler` | |
| `SpscQueue` | `SpscQueue` on two threads | an atomic is its modification order; `Push*` and `Pop*` are the steps between its atomic accesses |
| `BoundedFifo` | what `SpscQueue` promises | histories of both ends |
| `SpscQueueProofs` | theorems about `SpscQueue` | |
| `TimerWheel` | `TimerWheel` | `wheels`, `currentTick`, `nextId` (which wraps) and the walk `tick` is on; one action per iteration of tick's loops; the application acts when idle and inside callbacks |
| `TimerWheelProofs` | theorems about `TimerWheel` | |
| `MemoryPool` | `MemoryPool` | `free`, `occupied`, `live` and the stack of constructors and destructors running |
| `MemoryPool1` | the draft pool, beside `MemoryPool` | the same state under other names, its own order of steps; `PoolsSpec` runs either pool |
| `MemoryPoolProofs` | theorems about both pools | |
| `DpdkPacketHandler` | `init`, `process_burst`, `register_callback`, `shutdown` | `port`, `pools`, `buffers`, the burst in hand, flags and counters; `InitFails(k)` stops at the k-th call of `init`, `Poll` receives a burst, `FinishPacket` is a turn of its loop |
| `DpdkPacketHandlerProofs` | theorems about `DpdkPacketHandler` and, for any packet, `UdpPayload` | |
| `UdpPayload` | `extract_udp_payload` and the demo's `udp_dst_port` | operators on a packet: the early returns in order, the bytes read after each |
| `LatencyHistogram` | `LatencyHistogram` | operators on a histogram: record, percentile, figures, reset |
| `LatencyRecorder` | a `LatencyHistogram` in use | `histogram` and the samples `recorded` since its last reset |
| `ItchFeed` | the sender `src/tools/itch_sender.py` | `live` (its capped queue of live orders), the batch being framed, `sent` |
| `ReceivePipeline` | the demo, composed of the handler, the book below it, the NIC handler, the histogram and the feed | `stage` is where `main` is; the actions are its steps between two calls of `process_message`; `Signal` and `Feed` run beside them |
| `ReceivePipelineProofs` | theorems about `ReceivePipeline` | |
| `MCBuildingBlocks` | `TimerWheel`, the pools and `LatencyRecorder`, each in an application of its own | one of them is used, the others stay as constructed |
| other `MC*` | instances | hash functions, packets and views |

A pointer to an inline `Order` is the index of its slot; a slot keeps its old
contents when it is vacated, as the array does, so a stale pointer reads what
the program would read. A probe over a full table that lacks the key has no
exit: the model sets `spinning` and nothing else happens. What a map, a mirror
or a set of samples is compared with (`mirror`, `log`, `recorded`, the fates of
a timer) is kept beside the code's own state and read by no guard. Definitions
beside a mapped one that differ from it in one respect (`LinkedFirst` beside
`Linked`) are plausible mistakes: substituting one must break the property that
`mutants` in `PROJECT.json` names, which shows that the property constrains the
code.

What the models assume of their callers, all of it in the code's comments or
implied by the language: the queue has one producer and one consumer; timer
callbacks do not cancel themselves, clear the wheel or call `tick` (each would
invalidate the iterator `tick` holds), while `tick` may be given any time, one
before the last included; the pool's application deallocates only objects it
constructed, and destructors allocate nothing while the pool itself is
destroyed; the objects of the draft pool do not call it, as those of its one
user (`core/1.cc`) do not. Handler callbacks only observe. A process has one
`DpdkPacketHandler`. The DPDK driver is external: each of its calls succeeds or
fails, a name or a port in use makes it fail, and a receive yields at most the
burst asked for.

What `ReceivePipeline` assumes of its surroundings stands in its ASSUMEs: the
sender's order references are among the announced ids, and its terms have shares
(it draws at least 100); a frame of a batch fits into a packet, whose length has
16 bits (`FramesAssumption`); packets of other hosts are any packet with a
payload, its lengths true or not, in which only announced ids are added
(`WellFormed`); cycle counts and the clock rate are natural numbers.

## 3. What is checked

| Run | Bounds | Shows |
|---|---|---|
| `flat_map_collide` | 4 slots, 4 ids, three of them on the last slot | size is occupancy; erase removes one entry and insert touches no other; the chain behind an entry is unbroken but for its natural slot, and an entry whose natural slot is occupied can be found |
| `flat_map_stranded` | the same | **violated**: `EntriesReachable` (finding 1) |
| `book_collide` | 3 slots, 3 ids that share the last one, bids at 2 prices, 1 share each | no level is without an order, although shifts move orders and leave their levels with stale pointers, and the table fills up |
| `book` | 4 slots, 3 ids, 3 prices, quantities 0..2 of 2 bits | levels are sorted, lists match orders in both directions, top of book, sums up to the width of a quantity (three orders of 2 overflow it), and refinement of `LimitOrderBook` |
| `book_moved` | 4 slots, 3 colliding ids, 1 price | **violated**: `QtySumsOrders` (finding 2) |
| `queue` | N = 4, 6 pushes of 2 elements | race freedom, FIFO, the inductive invariant, refinement of `BoundedFifo`; a push or a pop is refused only by a queue that was full or empty |
| `handler_events` | 2 slots, 2 announced ids and 1 unknown one, 2 prices, quantities 1 and 2 | **violated**: `EventsTell` (finding 5) |
| `blocks` | wheel: 3 buckets of 2 units, times to 8, 3 timers plus what recurring ones add; pools: 4 slots, calls nested 3 deep, either pool; histogram: words of 4 bits, latencies 0, 3 and 15, 10 samples | timers: nothing lost or fired twice, boundary timers on time, lateness bounded by a revolution; pools: no aliasing, occupied bits match objects, counts agree, nothing survives the pool; histogram: all figures are those of the samples, each percentile the reports print names the bucket of the sample it stands for |
| `timer_missed` | 2 buckets of 2 units | **violated**: `ExpiredTimersFire` (finding 3) |
| `timer_livelock` | 2 buckets of 2 units, a recurring timer of interval 1 or 4, 3 timer ids, fairness | **violated**: `EveryTickReturns` (finding 6) |
| `receiver` | 2 orders of 2 shares of the sender and 1 foreign id, executions of 1 share, 2 slots, bursts of 2, 2 packets received, 2 frames of up to 2 messages, 5 packets of other hosts, counters of 4 bits | see below |
| `feed_overflow` | a perfect network, 3 orders, 1 of them kept live, 2 slots | **violated**: `FeedNeverOverflows` (finding 4) |

`receiver` follows packets from the NIC into the book and out again through
`main`'s exit, and asks of that whole: is a port polled only while it runs
(`PollsOnlyReadyPort`), is there one pool for each success or failure of `init`
that left one (`PoolOwned`), does every buffer go back (`BuffersReturned`,
`CountersAgree`), do header lengths keep both parsers inside the packet and in
agreement (`HeadersReadRight`), does each whole block reach `process_message`
once and in order (`EachBlockOnce`), is the book what the fields of the messages
heard leave of each order, does a subscriber to its events agree with it, and is
no live order missing (`BookReplaysLog`, `MirrorMatchesBook`, `LiveOrdersRest`),
are the latency figures those of the samples (`HistogramsDescribeSamples`), and
does a signal, whenever it comes, end the program with everything released
(`ExitReleases`, `StopsOnSignal`). `BookReplaysLog` replays every order by its
messages: shares of an add, less those of each execution and cancel, gone with a
delete. Partial executions are among them, by messages of another host about the
sender's orders. It leaves out the orders the code is known to drop against a
message's fields (`Undisputed`): one of which a message cancels less than was
added, and one that is to replace another. The second initial state, `"other
application"`, drives a `DpdkPacketHandler` through calls in any order, repeated
and failing `init` included.

Why the bounds suffice. Four slots give a chain that wraps and an entry
displaced by one, two and three; beyond that the shift repeats itself. Three
orders at one price are a list with a first, a middle and a last; three prices
give a level before, between and after. N = 4 lets both indices wrap with six
pushes, and the queue's results are proved for every N. Three buckets
distinguish the next bucket from the one before. Quantities 0, 1, 2 give empty,
partial, exact and excessive executions. In `book_collide` three slots and ids
are the fewest with which a shift moves an order and the table still fills up;
bids alone do, since the sides share nothing but the table. Three prices in
`book` let a level be inserted between two others. The recurring timers of
`blocks` have intervals of one tick and of one and a half: those of which a
`tick` may not return are left to `timer_livelock`, where a single recurring
timer is enough, and whose three ids come round so that its states are finitely
many. The latencies of `blocks` fall into the first, the second and the last
bucket, sums wrap at 16, and with ten samples the median, the 75th, the 90th and
the 99th percentile differ. In `blocks` one component is used while the others
rest: they share nothing, so their interleavings say nothing either. In
`receiver`, a burst of two has a packet before and one after; two datagrams
received are enough to repeat one, lose one, or swap two; two messages to a
frame give a whole block before one that is empty, cut off or missing. The five
packets of other hosts are a heartbeat behind a VLAN tag, whose first block is
empty; a frame of messages about the sender's orders with a trade, a delete too
short to be one, a count that is too high and a last block that lacks one byte;
a datagram cut off behind an IP header with options; an unframed delete of an
order of the feed; and one of an order nobody added. The cycle counts 0, 1 and 5
give a zero, a smallest and a larger latency.

`book` uses ids that do not collide, since findings 1 and 2 break the book
otherwise. There nothing reads a vacated slot (the lists visit exactly the stored
orders, `ListsMatchOrders`), so its `VIEW` identifies states that differ only in
vacated slots; so does that of `book_collide`, where a stale pointer may write to
one but no operation reads what it wrote. In `receiver` the two orders of the feed
fill the table: a message about a third then probes for ever.

Fairness. `PipelineSpec` states weak fairness of `Main`: main is a thread that
runs, its loop polls and never blocks. Nothing obliges the network, the sender or
a signal. `TimerWheel!FairSpec` lets `tick` run on once entered and callbacks
return, so that the endless `tick` of `timer_livelock` is not one that was merely
suspended; nothing obliges anybody to call `tick`. The queue has no liveness
property: nothing in the repository runs two threads on it or retries.

## 4. What is proved

`SpscQueueProofs`, for every `N` in Nat \ {0}, every set of elements and every
`MaxPushes`, from `NAssumption` alone:

- `IInvInvariant`: the inductive invariant `IInv`;
- `TypeCorrect`, `FifoOrder`, `CapacityRespected`, `RaceFree`: its consequences;
- `VerdictsRight` (`RefusalsJustified`): however old the view of the other's
  index, a refused push means N - 1 elements not known to be released, and a
  refused pop none known to be written;
- `Implementation`: `Spec => ImplementsBoundedFifo`.

The argument. FIFO order alone is not inductive: nothing in it says that the
slot about to be overwritten is not still waiting. `IInv` adds that element n
travels through slot (n - 1) % N and that index values are those of their
position (`IndicesWrap`); that the histories have the lengths of the
modification orders; that what a thread last saw of the other's index, however
old, still leaves room to write or something to read (`ViewsSafe`); that each
element not yet released is intact in its slot, written by its own push
(`WaitingIntact`); and that a recorded read is one already released
(`ReadsReleased`). The step that needs thought is a push that begins on a stale
view: unequal indices modulo N and a lag below N give room by `ModInjective`,
the fact that fewer than N consecutive elements occupy different slots. Race
freedom follows: the last read of the slot about to be written is at least N
elements old, more than the producer's view can lag.

`FlatOrderMapProofs`, with the lemmas of `FlatTableProofs`, for every capacity,
every hash function and every set of ids:

- `MapInvariant`: the inductive invariant `MapInv`;
- `MapSizeIsOccupancy`, `MapChainUnbroken`: its consequences;
- `MapStrandedOnlyByHole`: an entry that `find` misses has a vacant natural slot,
  which is the whole extent of finding 1;
- `MapEraseRemovesOneEntry`, `MapInsertKeepsOtherEntries`: the action properties.

The argument. The backward shift is a loop, `ShiftStep` repeated until
`ShiftEnds`, whose number of turns no theorem can bound in advance: it may go
round the table, and every move starts it anew. `ShiftRule` is the rule for it:
what holds on entering the loop and is kept by each turn holds of its result. It
needs the loop to end, and it does since a move lowers the sum of the entries'
displacements (`MoveShrinks`) and a turn without a move brings the cursor
nearer to the hole (`LoopEnds`, from the well-founded lexicographic order). The
chains need an invariant in terms of the loop's variables: every chain is
unbroken but for the hole, and nothing between the hole and the cursor needs it
(`ChainedBut`). When the cursor meets a vacant slot no chain reaches further, so
none is broken (`EndChain`).

`OrderBookProofs`, for every capacity, set of ids, prices and quantities:

- for every hash function, `BookInvariant` (the inductive invariant `BookInv`),
  `BookTyped`, `BookLevelsSorted`, `BookNoEmptyLevel`;
- for ids that do not collide, `BookListsMatchOrders`, `BookTopOfBook`,
  `BookQuotesSums` (`QtySumsToWidth`: what `get_total_qty` returns is the sum of
  the orders of the price, to the width of a quantity), `BookSumsOrders` (it is
  that sum itself when the width holds it, which `book_moved` refutes for ids that
  collide) and `BookImplementsLimitOrderBook`: `Spec => ImplementsLimitOrderBook`;
- for every hash function, `HandlerTyped`: no more messages of `MarketDataHandler`
  are processed than were received, and what a subscriber holds stays a quantity;
- for announced ids that do not collide, `HandlerMirrorMatchesBook`: a subscriber
  who adds, subtracts and removes as the fields of the events say agrees with the
  book on every order that finding 5 has not led him astray about.

The hypothesis. Findings 1 and 2 break the second group when two ids in the book
share a natural slot (`book_moved` is the counterexample), so `CollisionFree`
says of the ids that they do not: `Hash` is injective on them. The first group
is what is left of the book when they do: a shift leaves pointers to slots whose
order has moved or is gone, but only to slots that have held an order
(`LinkedInside`), so that nothing is dereferenced that never was one, and a
level goes when its head does. The handler needs the hypothesis for the ids it
was told of only: a message about any other id may collide, and be looked up in
a full table for ever.

The argument. In the second group no shift moves anything (`SettledErase`), so
the table is stable and the lists can be spoken of: there are queues, sequences
of slots by side and price, that hold the stored orders of their price once each
and that each level threads from its head by `next` and back by `prev`
(`Represents`, in `ListInv`). Each operation is shown to change the table as its
name says (`Added`, `Removed`) and one queue in one place. `ListsMatchOrders`
and `TopOfBook` are read off the queues, the walk of `get_total_qty` visits its
queue (`LevelQueue`), and the queues are those of `LimitOrderBook` with slots
replaced by the ids in them. `MirrorInv` adds that the subscriber holds what is
open in the table, of all orders but those astray. The sums need a theory of
their own, since the library has none: `Total` adds a function up along any
enumeration of a finite set, does not depend on which (`TotalAgrees`), splits at
any member (`TotalSplit`), and is what the fold of the community modules
computes (`SumIs`); the walk's partial sums, each cut to the width, are the
totals of the slots visited, cut to the width (`ModOfSum`).

`MemoryPoolProofs`, about `PoolsSpec`, for every capacity and depth of nesting:

- `PoolInvariant`: the inductive invariant `PoolInv`;
- `NeverAlias`, `OccupiedExactly`, `NothingSurvives`: three properties of
  the pools in `blocks`;
- `CountsAddUp`: the fourth, from a second invariant, `CountsInv`.

The argument. A slot is in one of six places: on the free list, holding an
object, in a running constructor, in a running destructor, in a destructor run
by the pool's own, or lost to a constructor that threw; each step moves one slot
from one to another. That these are disjoint is not inductive without knowing
that running calls work on different slots and that the free list has no
duplicates, which is where the order of steps counts: the pop before the
constructor, the push after the destructor. The draft pool's slot is still, or
again, on the free list while its one call runs, a separate part of the
invariant. The counts need the sizes of those sets, by `FiniteSetTheorems`.

`DpdkPacketHandlerProofs`, about `NicSpec`, for any set of packets, any burst
size no larger than the array on the stack and any counters:

- `NicTyped`;
- `OnlyReadyPortPolled`, `PoolNeverLeaked`, `EveryBufferReturned`,
  `CountersAlwaysAgree`: four properties of `receiver`.

The argument (`NicInv`). `init` has a dozen early returns after which it may be
called again. What keeps the second call from creating a second pool or
configuring a running port is that the environment abstraction layer refuses to
be initialized twice: a handler that failed after it, or was shut down, never
gets past it again. The invariant ties `pools`, `port` and `initialized` to
whether the layer is up. The buffers in hand are the packets of the burst not
yet finished, and the counters are those finished.

The same module proves, of every packet, however its length fields lie,
`NeverReadsOutside`, `FilterAndPayloadAgree` and `NoValidPacketRefused`, the three
parts of `HeadersReadRight`. The lengths are 16 bits wide and the sums wider, as
in the code; the cast of the payload's length back to 16 bits loses nothing.

`ReceivePipelineProofs`, about `PipelineSpec`, for every feed, network, filter,
book, table size and moment of the signal:

- `PipelineTyped`: every variable keeps its type;
- `ExitAlwaysReleases`: `ExitReleases`;
- `ReceiverKeepsHandler`: the handler's four properties hold of the receiver;
- `ReceiverReadsRight`: `HeadersReadRight`, of whatever arrives;
- `EachBlockToldOnce`: `EachBlockOnce`;
- `HistogramsDescribe`: the latency figures of both reports;
- for announced ids that do not collide, `ReceiverMirrorsBook` (a subscriber of
  the receiver, as of the handler alone), `BookAlwaysReplaysLog`
  (`BookReplaysLog`) and, when no other host cancels an order of the feed
  (`NoForeignCancel`), `LiveOrdersAlwaysRest` (`LiveOrdersRest`).

The same module proves of `LatencyRecorder`, for words of any width, any samples
and any resets, `PercentilesAlwaysNameBuckets` (`PercentilesNameBuckets`). The
reports compute the rank of a percentile as a truncated product of doubles; the
theorem holds of either value it may have, the whole part of the exact product or,
where that is whole already, one less (`Targets`). That doubles do not stray
farther is a matter of their 53 bits, for up to some 10^11 samples.

The argument. It goes from the network inwards, one invariant on top of the
other.

`ReceiverInv`: `NicInv` says nothing of `main`. `InStage` ties the stage `main`
has reached to the state of the handler: while it frames the blocks of a packet
the port runs and that packet is the burst's next; in the loop and in the
reports no packet is in hand; at the exit the port is stopped, and closed with
its pool freed if a packet was ever received. Each of `main`'s steps is then one
of the handler's calls, whose lemmas apply, or leaves the handler alone.

`FedInv`: what is in hand was sent by the feed or by another host, and is
`WellFormed`; that the sender's frames are needs their length, which a batch
bounds (`EndsBounded`).

`ParseInv`: what process_message was told is what was owed for the payloads
before (`Owed`) and, while a payload is being framed, the blocks of it that
stand before the cursor (`TellingOf`). `EachBlockOnce` alone is not inductive,
since a prefix of what is owed does not say where in it the loop is. `NextWhole`
relates the code's test on a block to the whole blocks of the payload,
`WholeBlocks`.

`MirrorInv` and `WordInv`: every `process_message` is a step of
`MarketDataHandler`, so that `MirrorInv` carries over, and `Heeds` says what
each message does to what rests of an order: it goes through the same change as
`Effect`, the replay of one more message, unless the order is one of those left
out. `WordInv` relates the book to the replay of the log (`Replayed`) so far;
that an order with an undisputed log now had one before is what carries it from
message to message.

`LiveInv`, `HeardSent` and `CancelsSent`: the sender cancels an order only while
it lists it as live, and references are not used twice, so no cancel of a live
order was ever sent; nor heard, as none is heard that the feed or another host
did not send.

`TallyInv`: each histogram has tallied its samples (`Tallied`), every bucket the
number of samples it stands for, the sum to the width of a word, and the
extremes. The provers know no powers; `Doubling` obtains those of two from the
number of subsets, and from them follows that the buckets partition the words
(`BucketIs`, `BucketsOrdered`). A percentile walks the buckets up to a count;
the sample of that rank exists (`RankExists`) and lies in the bucket the walk
stops at (`RankedBucket`). The target never reaches the number of samples, as no
printed percentage is 100 (`TargetsTyped`).

`TimerWheelProofs`, for every interval, number of buckets, number of timers and
set of times, recurring intervals that never let `tick` return included, as long
as no timer id is used twice (`NoIdReused`: there are 2^64):

- `TimersStayTyped`, `NeverLost`, `OnTime`, `LateByOneRevolution`: the safety
  properties of the wheel in `blocks`.

The argument (`TimerInv`). That a timer is not late says nothing of where it
waits. `NoVisitMissed` does: no boundary since the timer could first have fired
belongs to its bucket, since a scan of that bucket would have fired it.
It is kept because a scan fires all it passes that is due (`Walking`, which
survives a callback that erases nodes before or behind the one `tick` stands
on), and because no timer has two nodes (`OneNode`). `OnTime` is the boundary
at the expiry itself; the bound follows as every revolution passes every bucket
(`RevolutionVisits`).

Only model-checked: `StopsOnSignal`, since liveness under fairness is beyond the
prover. Only proved: what `MarketDataHandler` does under a `reset` between
messages, which the receiver never calls (`HandlerMirrorMatchesBook`). Every
invariant and every action property of a passing run is proved. The hypotheses
on ids that do not collide and on other hosts that cancel nothing are those of
the code's own findings, or of the property itself; `NoForeignCancel` holds of
the packets in `receiver`, where TLC evaluates it (`NoiseCancelsNothing`). The
properties of the findings are refuted, and what is proved beside them
(`MapStrandedOnlyByHole`, `BookSumsOrders`, `HandlerMirrorMatchesBook`) says how
far they hold.

## 5. Findings

1. `flat_order_map.hpp:127` compares with `>`: an entry whose natural slot is
   the vacated one is displaced by exactly the distance to the hole, stays, and
   can no longer be found, although the comment above says a displaced entry is
   moved back. A message for it is dropped; a new add enters a second copy.
2. `flat_order_map.hpp:128` moves an `Order` that price-level lists point to.
   The level then sums, links and unlinks through a slot that holds another
   order or none.
3. `timer_wheel.hpp:145`: a timer that expires within the millisecond whose
   bucket was already walked fires a revolution late.
4. `src/tools/itch_sender.py:136` forgets the oldest live order without
   cancelling it, so the cap that line 111 says protects the receiver's table
   bounds the sender's queue and not the book: over a perfect network the table
   fills and a probe never ends.
5. `market_data_handler.hpp:129` cancels the old order of a replacement and adds
   no new one, but announces it with its reference, shares and price
   (`itch_messages.hpp:106`), and `:105` cancels the whole order whatever the
   message's `cancelled_shares`, the "Number of shares cancelled"
   (`itch_messages.hpp:87`). A subscriber who goes by the events keeps orders the
   book has lost, while the handler is said to maintain "bid/ask levels with
   remaining quantities" (`docs/market_data_handler.md:40`). The trace shows a
   replacement; a partial cancel violates the property as well.
6. `timer_wheel.hpp:96` reschedules a recurring timer from the bucket `tick` is
   walking. When the interval is 0, less than a tick or a multiple of the
   revolution, the next occurrence enters that very bucket, behind the iterator;
   if it is already due, as it is when `tick` catches up, `tick` fires it without
   end.

Seen while reading, without a run of their own. In the handler: a replacement is
announced though the order it replaces may be unknown
(`market_data_handler.hpp:129`). In the book: `get_total_qty` wraps at 2^32
(`price_level.hpp:24`; `QtySumsToWidth` says what is then returned);
`tests/unit/order_book_test.cpp:36` expects the caller's `Order` to change,
which the book copies. In the wheel: the id returned by `schedule_recurring`
stops nothing after the first occurrence (`timer_wheel.hpp:84` against `:96`);
`schedule` inside a callback counts from the bucket, not from the time of the
tick (`timer_wheel.hpp:59`). In the receiver: an `init` that fails after its
pool was created is not undone by `shutdown`; `dpdk_packet_handler.hpp:317`
overflows; a framed packet without blocks is parsed as a raw message
(`market_data_pipeline_demo.cpp:64`). In the histogram:
`latency_histogram.hpp:86` announces a bucket's upper bound and `:87` returns
its lower one, so that a percentile may lie below the sample it stands for. In
the sender: numbers are packed big-endian (`itch_sender.py:61`) and read
natively, so that references, prices and shares arrive with their bytes
reversed, consistently for references.

## 6. Not modelled, and the plan

Left out on purpose: byte layout and byte order of messages, timestamps, NUMA,
cache and benchmark code, the stubs, printing and throughput figures, the `--help`
path, and `udp_receiver.py`, which prints what it receives. Excluded since C++
leaves their outcome undefined: timer callbacks that erase the node `tick`
stands on, and handler callbacks that register callbacks while one is fired.
Handler callbacks that process a message or reset the handler, and calls nested
in those of the draft pool, are not modelled: nothing in the repository makes
them.

Next, in order:

1. The prices and the time priority of `receiver`'s book as a function of the
   messages heard; `BookReplaysLog` states which orders rest with which shares.
2. What the book promises when ids collide beyond `BookInv`, for tables in which
   no shift meets an entry on its natural slot.
3. Callbacks that re-enter the handler.
